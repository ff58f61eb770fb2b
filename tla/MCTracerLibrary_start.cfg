SPECIFICATION LibrarySpec
CONSTANTS
  t1 = t1
  t2 = t2
  a1 = a1
  a2 = a2
  Thread <- TwoThreads
  Caller <- TwoThreads
  StartPoint <- TwoPoints
  TracePoint <- AllPoints
  Stop = Stop
  NumRetries = 2
  ChanBufferSize = 2
  InitialRequests <- NoRequests
INVARIANTS
  NoServerLeft
  AttachEnables
PROPERTIES
  StopEnds
  StartReturns
CHECK_DEADLOCK FALSE
