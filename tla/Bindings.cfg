SPECIFICATION Spec
CONSTANTS
  t1 = t1
  t2 = t2
  l1 = l1
  l2 = l2
  c1 = c1
  c2 = c2
  None = None
  NoCaller = NoCaller
  NoThread = NoThread
  NoLocator = NoLocator
  NoReply = NoReply
  Threads <- TwoThreads
  Locators <- TwoLocators
  Callers <- TwoCallers
  TransitionIds <- FourIds
SYMMETRY Symmetry
INVARIANTS
  SupersededIsRetired
PROPERTIES
  HistoriesAreLinear
  RefusedOnlyIfBehind
CHECK_DEADLOCK FALSE
