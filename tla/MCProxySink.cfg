SPECIFICATION FairSpec
CONSTANTS
  r1 = r1
  r2 = r2
  r3 = r3
  w1 = w1
  w2 = w2
  NoEvent = NoEvent
  Request <- ThreeRequests
  Worker <- Workers
  BufferSize = 2
  MaxBuffered = 1
  Unencodable <- BadEncoding
  MaxFaults = 1
CHECK_DEADLOCK FALSE
INVARIANTS
  EventHasAFate
  OnePlaceAtATime
PROPERTIES
  HandlersNeverWait
  ShutdownEnds
  QueuedIsProduced
