\* Any sequence of reports, every entry free to be right, missing or stale.
SPECIFICATION FairSpec
CONSTANTS
  a = a b = b v = v n = n x = x g = g m = m ua = ua uh = uh eph = eph bad = bad
  Star = Star None = None
  Address = {a, b, v, n, x, g}  Infra = {m}  UID = {ua, uh}
  Holder <- MCHolder  Former <- MCFormer  PodOf <- MCPodOf  L7 <- MCL7
  Conn <- MCConn  Rule <- MCRule  Batch <- MCBatch
  Ephemeral = eph  Malformed = bad
INVARIANTS TrueEnds NoMirror
PROPERTIES NothingElseDropped Answered
