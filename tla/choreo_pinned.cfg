SPECIFICATION MCFairSpec
CONSTANTS
  r1 = r1
  r2 = r2
  Routines = {r1, r2}
  Clients = {k1}
  None = None
  Confs <- RoutableConfs
  MaxPrio = 2
CHECK_DEADLOCK FALSE
INVARIANTS
  RoutingAgrees
  QuiescentAfterRemove
PROPERTIES
  HighestFirst
  PinnedMessageIsFetched
  PinnedShutdownReturns
