\* Expected violation: a slice handler writes the ClusterIP of a Service that
\* was deleted while the handler was deriving it.
SPECIFICATION Spec
CONSTANTS
  None = None s1 = s1 v1 = v1 e1 = e1 p1 = p1 p2 = p2 w1 = w1 w2 = w2
  Service = {s1}  VIP = {v1}
  Slice = {e1}  Label = {s1, None}  PodIP = {p1}
  Runs <- OneWorkload
  MaxChanges = 1
CHECK_DEADLOCK FALSE
INVARIANT NoStaleVIP
