\* Two handlers, two keys, a window of two instants, and time for an entry to
\* expire, be swept and be seen again.
SPECIFICATION FairSpec
CONSTANTS
  Worker = {w1, w2}
  Key = {k1, k2}
  Window = 2
  MaxClock = 4
  None = None
INVARIANT TypeOK
PROPERTIES NoEarlyRepeat SuppressedIsCovered ExpiredGoes
