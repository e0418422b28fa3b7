SPECIFICATION MCSpec
CONSTANTS
  Threads = {t1, t2, t3}
  write_first_ = TRUE
  p = p
  c = c
  Ps = {p1, p2}
  Cs = {c1, c2}
  Clients = {p}
  v0 = v0
  v1 = v1
  v2 = v2
  Torn = Torn
  SmallSize = 1
  LargeSize = 2
  MaxProduced = 4
  MaxConsumed = 5
  MaxPooled = 6
  Keys = {1, 2}
  MaxSets = 3
  PoolSize = 3
  MaxCount = 7
  MaxNodes = 3
  MaxQueued = 3
  MaxNesting = 2
SYMMETRY RoleSymmetry
CHECK_DEADLOCK FALSE
INVARIANTS
  QueuesAreSound
  CountersAgree
  
  
PROPERTIES
  ImplementsRWLock
  ImplementsFifo
