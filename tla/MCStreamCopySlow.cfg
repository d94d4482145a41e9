SPECIFICATION Spec
CONSTANTS
  Idle = 2
  BodyCap = 3
  BufSize = 2
  MaxBytes = 5
CHECK_DEADLOCK FALSE
INVARIANT
  FlagMeansUpstreamSilent

