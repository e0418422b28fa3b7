SPECIFICATION ServicesSpec
CONSTANTS
  Threads = {t1, t2}
  Modules = {m1, m2}
CHECK_DEADLOCK FALSE
INVARIANTS
  
  
  RecordingIsReadable
  ShutdownIsHeard

  
