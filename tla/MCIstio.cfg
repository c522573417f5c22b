\* Two entries that may bind the same VIPs, and two changes.
SPECIFICATION IstioFairSpec
CONSTANTS
  e1 = e1 e2 = e2 v1 = v1 v2 = v2 range = range h1 = h1 h2 = h2 None = None
  Entry = {e1, e2}  VIP = {v1, v2}  Address = {v1, v2, range}  Host = {h1, h2}  Revision <- MCRevision
  MaxChanges = 2
CHECK_DEADLOCK FALSE
INVARIANT NoOrphanVIP
PROPERTY Heals
