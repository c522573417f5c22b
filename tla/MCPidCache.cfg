\* Two pids that share the map, a pod whose cgroup paths write its UID without
\* dashes, and time for the map to expire.
SPECIFICATION PidSpec
CONSTANTS
  Pid = {p1, p2}  UID = {u1}  Form = {"compact"}
  TTL = 2  RingSize = 1  MaxClock = 3
  Host = Host  Gone = Gone  Absent = Absent  None = None
CHECK_DEADLOCK FALSE
INVARIANT AsOfRecent
SYMMETRY Symmetry
