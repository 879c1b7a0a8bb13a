SPECIFICATION Spec
CONSTANTS
  NumServers = 2
  Pbufs = {p1, p2, p3}
  Lookups = {l1, l2}
  MaxPending = 2
INVARIANT RetryStopped
CHECK_DEADLOCK FALSE
