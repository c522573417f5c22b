\* A Service that may gain or lose its ClusterIP, appear or go, a slice that may
\* move away from it, and two endpoints of different workloads.
SPECIFICATION FairSpec
CONSTANTS
  None = None s1 = s1 v1 = v1 e1 = e1 p1 = p1 p2 = p2 w1 = w1 w2 = w2
  Service = {s1}  VIP = {v1}
  Slice = {e1}  Label = {s1, None}  PodIP = {p1, p2}
  Runs <- TwoWorkloads
  MaxChanges = 1
CHECK_DEADLOCK FALSE
INVARIANTS TypeOK NoGap NoStalePort
PROPERTY Converges
