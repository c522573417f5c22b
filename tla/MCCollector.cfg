\* Batches of two records and a queue of one batch; the processor may be down
\* for ever (Flushed, Stops) or answer now and then (Settled).
SPECIFICATION FairSpec
CONSTANTS
  c1 = c1  c2 = c2  c3 = c3  c4 = c4  n1 = n1  k1 = k1  k2 = k2  k3 = k3
  Key = {k1, k2, k3}
  Conn = {c1, c2, c3, c4, n1}
  Noise = {n1}
  KeyOf <- MCKeyOf
  MaxBatch = 2
  QueueSize = 1
CHECK_DEADLOCK FALSE
INVARIANTS Accounted Bounded OneBatchPerFlush
PROPERTIES ImplementsDelivery Flushed Stops Settled
