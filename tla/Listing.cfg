SPECIFICATION ListingSpec
CONSTANTS
  m1 = m1
  t1 = t1
  s1 = s1
  s2 = s2
  r1 = r1
  Messages <- OneMessage
  Threads <- OneThread
  ThreadOf <- ThreadOfMessage
  Syncers <- TwoSlots
  Readers <- OneReader
  NoThread = NoThread
  NoSyncer = NoSyncer
  HistoryBound = 3
SYMMETRY SlotSymmetry
INVARIANTS
  CoveredUnlessOverwritten
CHECK_DEADLOCK FALSE
