SPECIFICATION Spec
CONSTANTS
  t1 = t1
  t2 = t2
  t3 = t3
  mine = mine
  other = other
  Threads <- ThreeThreads
  UuidLength = 2
  Uuid <- TwoByteIds
  Scopes <- TwoScopes
  MaxTimestamp = 8
  FutureSkewTolerance = 1
  UnknownTime = UnknownTime
  CandidateLimit = 2
  EvaluationValidity = 1
  StaleRetention = 3
  Invalid = Invalid
  Snapshots <- SmallSnapshots
  Instants <- TwoInstants
  Deliveries <- SomeDeliveries
INVARIANTS
  AdmissionKeepsNewest
  OrderIsCanonical
  StagesCompose
  TruthfulEnvelope
  ReplayIsExact
CHECK_DEADLOCK FALSE
