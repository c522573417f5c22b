\* Every configuration; three calls, two of which carry the same edge, and a
\* producer buffer of one edge.
SPECIFICATION FairSpec
CONSTANTS
  c1 = c1 c2 = c2 c3 = c3 e1 = e1 e2 = e2
  Call = {c1, c2, c3}  EdgeOf <- MCEdgeOf
  MaxBuffered = 1
CHECK_DEADLOCK FALSE
INVARIANTS WarmOnly NoSilentLoss CleanExit
PROPERTIES Exits Withdrawn
