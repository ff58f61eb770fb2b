SPECIFICATION Spec
CONSTANTS
  t1 = t1
  t2 = t2
  t3 = t3
  NoThread = NoThread
  ThreadList <- MCThreadList
  Addr <- MCAddr
  Helper <- MCHelper
  HelperEnd <- MCHelperEnd
  Successors <- MCSuccessors
  BreakAddr <- MCBreakAddr
  Scenario <- Overtaking
PROPERTIES
  SteppedOne
CHECK_DEADLOCK FALSE
