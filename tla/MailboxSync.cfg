SPECIFICATION FairSpec
CONSTANTS
  m1 = m1
  t1 = t1
  s1 = s1
  s2 = s2
  Messages <- OneMessage
  Threads <- OneThread
  ThreadOf <- ThreadOfMessage
  Syncers <- TwoSlots
  NoSyncer = NoSyncer
  HistoryBound = 3
INVARIANTS
  SyncTypeOK
  AppliedIsCovered
PROPERTIES
  PendingIsKept
  CatchesUp
CHECK_DEADLOCK FALSE
