\* Enqueue and Dequeue calls in any order, as the queue's interface allows.
CONSTANTS
  Items = {i1, i2, i3}
  Dequeuers = {d1, d2}
  Overlap = TRUE
  Sentinel = Sentinel
  NULL = NULL
SPECIFICATION Spec
CHECK_DEADLOCK FALSE
INVARIANT TypeOK
INVARIANT ChainInv
PROPERTY RefinesFifo
