SPECIFICATION Spec
CONSTANTS
  t1 = t1
  t2 = t2
  t3 = t3
  NoThread = NoThread
  ThreadList <- MCThreadList
  Addr <- MCAddr
  Helper <- MCHelper
  HelperEnd <- MCHelperEnd
  Successors <- MCSuccessors
  BreakAddr <- MCBreakAddr
  Scenario <- Scenarios
INVARIANTS
  EventNamesTrapped
  SignalGoesBack
  HelperLeft
  TextMatchesBreakpoints
PROPERTIES
  UndisturbedSteppedOne
  StopNoticed
  StepsEnd
CHECK_DEADLOCK FALSE
