\* One entry for two addresses, TTLs below MinTTL and above MaxTTL.
SPECIFICATION Spec
CONSTANTS
  Name = {n1, n2}  IP = {i1, i2}  TTL = {1, 9}
  MinTTL = 2  MaxTTL = 3
  MaxEntries = 1  RingSize = 1
  MaxClock = 4  MaxMessages = 2
  None = None
INVARIANTS TypeOK NameLasts NameIsFresh
PROPERTIES RefusedOnlyWhenFull
SYMMETRY Symmetry
