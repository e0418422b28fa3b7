SPECIFICATION Spec
CONSTANTS
  c1 = c1
  c2 = c2
  Routines = {c1}
  Processors = {p1, p2}
  Clients = {k1, k2}
  None = None
  MaxPrio = 1
  ConfPrio <- MCConfPrio
  QueueSize = 1
  MaxMsgs = 1
SYMMETRY ThreadSymmetry
INVARIANTS
  ExclusiveRoutine
  ResumedIsReady
  RemovedIsQuiescent
  NoLostNotification
  QueuedOnce
  Bookkeeping
