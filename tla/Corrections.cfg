SPECIFICATION Spec
CONSTANTS
  t1 = t1
  t2 = t2
  c1 = c1
  c2 = c2
  k1 = k1
  k2 = k2
  None = None
  NoCaller = NoCaller
  NoKey = NoKey
  NoReply = NoReply
  Threads <- TwoThreads
  Callers <- TwoCallers
  Keys <- TwoKeys
  CorrectionIds <- TwoIds
SYMMETRY Symmetry
PROPERTIES
  HistoriesAreLinear
  VerdictsAgree
  HistoryIsWhole
CHECK_DEADLOCK FALSE
