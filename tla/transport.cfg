SPECIFICATION TransportSpec
CONSTANTS
  Writers = {w0, w1, w2, w3}
  Readers = {r0, r1, r2}
  Leavers = {w0, r0}
  Groups = {{w0, r0}, {w1, w2}, {w3, r1, r2}}
  MCWriters = {w1, w2}
  MCReaders = {r1, r2}
  Classes <- MCClasses
  BlockNum <- MCBlockNum
  MaxGen = 3
  MaxRef = 3
  w = w
  d = d
  Senders = {w}
  Dispatchers = {d}
  BufferSize = 2
  MaxNotifies = 2
  MaxSegments = 3
  MaxSeq = 2
  MaxDeaths = 1
  MaxAdds = 2
  MaxDispatches = 2
  QosDepth = 1
  max_depth_ = 2
  MaxMessages = 2
  MaxJoins = 3
SYMMETRY RoleSymmetry
CHECK_DEADLOCK FALSE
INVARIANTS
  LayoutIsSound
  
  ReadersAreTold
  
  
  
