SPECIFICATION MCSpec
CONSTANTS
  Writers = {w1}
  Readers = {r1}
  Leavers = {}
  Groups = {{w1, r1}}
  MCWriters = {w1}
  MCReaders = {r1}
  Classes <- MCClasses
  BlockNum <- MCBlockNum
  MaxGen = 3
  MaxRef = 3
CHECK_DEADLOCK FALSE
INVARIANTS
  IndexInRange
