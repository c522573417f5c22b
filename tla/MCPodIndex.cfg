\* Any initial cluster; address reuse, address change, host network, late owner
\* watch, and healing after the last change.
SPECIFICATION FairSpec
CONSTANTS
  a = a b = b h = h r1 = r1 n1 = n1 i1 = i1 i2 = i2 na = na None = None
  Node = {n1}  NodeIP <- MCNodeIP  Home <- MCHome  HostNetwork = {h}
  Pod = {a, b, h}  Set = {r1}  Owner <- MCOwner
  PodIP = {i1, i2}
  MaxOwnerDepth = 2
  MaxChanges = 1
CHECK_DEADLOCK FALSE
INVARIANTS TypeOK UIDIndexExact NoStaleAddress OwnersFirst
PROPERTY Heals
