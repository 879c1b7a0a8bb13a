SPECIFICATION FairSpec
CONSTANTS
  NumServers = 3
  Pbufs = {p1, p2, p3}
  Lookups = {l1, l2}
  MaxPending = 2
INVARIANTS TypeOK NeverStops OneAtATime SilenceIsFree
PROPERTY ClockIsSet
CHECK_DEADLOCK FALSE
