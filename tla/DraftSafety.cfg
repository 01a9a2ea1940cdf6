SPECIFICATION Spec
CONSTANTS
  d1 = d1
  d2 = d2
  k1 = k1
  k2 = k2
  k3 = k3
  w1 = w1
  w2 = w2
  Drafts <- OneDraft
  Commands <- ThreeKeys
  Workers <- TwoSlots
  NoDraft = NoDraft
  NoCommand = NoCommand
  NoWorker = NoWorker
  MaxAttempts = 2
  AttemptBound = 2
  VersionBound = 2
SYMMETRY KeysAndSlots
INVARIANTS
  TypeOK
  AtMostOneCall
  OnlyUncalledRetriedOrFailed
  NoDuplicateMutation
  ActiveCommandOwnsDraft
  ReadyIsQuiescent
  SingleDelivery
  ConfirmedByGmail
PROPERTIES
  ClaimFencing
  SettledIsFinal
  PromiseKept
CHECK_DEADLOCK FALSE
