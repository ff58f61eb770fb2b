SPECIFICATION ProcessSpec
CONSTANTS
  t1 = t1
  t2 = t2
  t3 = t3
  NoThread = NoThread
  Leader = t1
  Thread <- MCThread
  Scenario <- Scenarios
  Addr <- MCAddr
  Successors <- MCSuccessors
  CloneAddr <- MCCloneAddr
  BreakAddr <- MCBreakAddr
INVARIANTS
  AllTraced
  NeverInsideInstruction
  TextMatchesBreakpoints
  EachIsContinued
  NoTrapLeft
PROPERTIES
  UndisturbedSteppedOne
CHECK_DEADLOCK FALSE
