SPECIFICATION FairSpec
CONSTANTS
  a1 = a1
  a2 = a2
  r1 = r1
  r2 = r2
  NoAttempt = NoAttempt
  NoClient = NoClient
  Attempts <- TwoAttempts
  Connections <- TwoConnections
INVARIANTS
  GrantMatchesCredential
PROPERTIES
  GrantOutlivesAttempts
  RequestsEnd
CHECK_DEADLOCK FALSE
