SPECIFICATION MCSpec
CONSTANTS
  Notifiers = {n1, n2}
  Listeners = {l1}
  Infos = {i1}
  NoInfo = NoInfo
  Torn = Torn
  kBufLength = 2
  FirstSeq = 3
  MaxLag = 2
  MaxSeq = 7
  Ts = {t1, t2}
  Ds = {d1, d2}
  t = t1
  d = d1
  BlockNum = 2
  kMaxTryLockTimes = 2
  MaxMsgs = 2
  MaxDead = 1
CHECK_DEADLOCK FALSE
INVARIANTS
  ShmIsSound
  DeliveredIsCurrent
PROPERTIES
  ImplementsLog
  NotificationsAreHeard
  TransmitReturns
