SPECIFICATION MCSpec
CONSTANTS
  Publishers = {p1, p2}
  Visitors = {v1}
  Pair = {v1, v2}
  Subs = 1
  QueueSize = 1
  None = None
  MaxMain = 4
  MaxSub = 2
  Routines = {c1, c2}
  Clients = {k1, k2}
  Tasks = {f1, f2, f3}
  task_queue_size_ = 2
  Threads = {t1, t2, t3}
CHECK_DEADLOCK FALSE
INVARIANTS
  RingIsWindow
  FusionIsMonotone
  AcceptedOnce
PROPERTIES
  FetchIsExact
  FusedIsFetched
  WriterGetsIn
