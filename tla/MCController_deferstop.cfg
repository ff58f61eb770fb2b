SPECIFICATION Spec
CONSTANTS
  g1 = g1
  g2 = g2
  GoRoutine <- Two
  Code <- Programs
  Scenario <- DeferStop
  Printable <- PrintedFuncs
  ChanBufferSize = 1
INVARIANTS
  PrintedMatchesStack
CHECK_DEADLOCK FALSE
