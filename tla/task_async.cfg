SPECIFICATION FairSpec
CONSTANTS
  Routines = {c1, c2}
  Clients = {k1}
  Tasks = {f1, f2}
  task_queue_size_ = 2
CHECK_DEADLOCK FALSE
PROPERTIES
  TaskIsRun
