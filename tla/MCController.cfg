SPECIFICATION Spec
CONSTANTS
  g1 = g1
  g2 = g2
  GoRoutine <- Two
  Code <- Programs
  Scenario <- Sessions
  Printable <- PrintedFuncs
  ChanBufferSize = 1
INVARIANTS
  PrintedMatchesStack
  BreakpointsBalanced
  ReturnsMatchCalls
  UntracedNotStopped
  BracketedSessionsCounted
PROPERTIES
  ImplementsMainLoop
CHECK_DEADLOCK FALSE
