SPECIFICATION FairSpec
CONSTANTS
  k1 = k1
  w1 = w1
  w2 = w2
  Commands <- OneKey
  Workers <- TwoSlots
  NoCommand = NoCommand
  NoWorker = NoWorker
  NoThread = NoThread
  MaxAttempts = 2
  AttemptBound = 2
  HistoryBound = 3
INVARIANTS
  FailedWasNotConfirmed
PROPERTIES
  RowFollowsGmail
CHECK_DEADLOCK FALSE
