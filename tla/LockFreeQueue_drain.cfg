\* The driver's use: all Enqueue calls return, then as many Dequeue calls.
CONSTANTS
  Items = {i1, i2, i3}
  Dequeuers = {d1, d2, d3}
  Overlap = FALSE
  Sentinel = Sentinel
  NULL = NULL
SPECIFICATION FairSpec
CHECK_DEADLOCK FALSE
INVARIANT LengthExact
INVARIANT DrainSafe
PROPERTY DrainTerminates
