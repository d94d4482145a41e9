SPECIFICATION FairSpec
CONSTANTS
  r1 = r1
  r2 = r2
  NoByte = NoByte
  Request <- TwoRequests
  UpstreamStatus = 200
  BodyCap = 1
  MaxBuffers = 4
CHECK_DEADLOCK FALSE
INVARIANTS
  TypeOK
  BuffersAreExclusive
  ForeignBytesHaveACause
PROPERTIES
  RecordedIsAnswered
  AnsweredIsRecorded
