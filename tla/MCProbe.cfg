\* Two addresses that are reused, two processes, a map and a ring of one entry.
SPECIFICATION Spec
CONSTANTS
  Sock = {s1, s2}
  Pid = {p1, p2}
  MapSize = 1
  RingSize = 1
  None = None
INVARIANTS TypeOK EntryIsLive OutboundIsTrue OrientedUnlessLost
