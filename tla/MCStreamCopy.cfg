SPECIFICATION FairSpec
CONSTANTS
  Idle = 2
  BodyCap = 3
  BufSize = 2
  MaxBytes = 5
CHECK_DEADLOCK FALSE
INVARIANTS
  CaptureIsPrefix
  WatchdogEndIsFlagged
  FlagHasACause
PROPERTY
  StreamEnds

