SPECIFICATION ReplayedPipeline
CONSTANTS
  d1 = d1
  k1 = k1
  k2 = k2
  w1 = w1
  w2 = w2
  p1 = p1
  p2 = p2
  Drafts <- OneDraft
  Commands <- TwoKeys
  Workers <- OneSlot
  Dispatchers <- OneDispatcher
  NoDraft = NoDraft
  NoCommand = NoCommand
  NoWorker = NoWorker
  NoDispatcher = NoDispatcher
  MaxAttempts = 2
  AttemptBound = 2
  VersionBound = 1
  RedisMayFail = FALSE
PROPERTIES
  RetryIsExecuted
CHECK_DEADLOCK FALSE
