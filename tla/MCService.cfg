SPECIFICATION ReliableServiceSpec
CONSTANTS
  t1 = t1
  t2 = t2
  a1 = a1
  c1 = c1
  c2 = c2
  Thread <- TwoThreads
  TracePoint <- MCTracePoint
  Caller <- MCCaller
  InitialRequests <- NoRequests
  ChanBufferSize = 2
INVARIANTS
  LoopHasController
PROPERTIES
  AttachmentsSeparate
  DetachEnds
  ResumesWithRequests
  CallsAnswered
CHECK_DEADLOCK FALSE
