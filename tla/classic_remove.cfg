SPECIFICATION FairSpec
CONSTANTS
  c1 = c1
  c2 = c2
  Routines = {c1}
  Processors = {p1,p2}
  Clients = {k1}
  None = None
  MaxPrio = 2
  ConfPrio <- MCConfPrio
  QueueSize = 1
  MaxMsgs = 1
PROPERTIES
  RemoveCompletes
