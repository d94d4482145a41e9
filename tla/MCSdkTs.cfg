SPECIFICATION FairSpec
CONSTANTS
  c1 = c1
  c2 = c2
  r1 = r1
  p1 = p1
  p2 = p2
  NoCall = NoCall
  BadPattern = BadPattern
  Call <- OneCall
  Request <- OneRequest
  Path <- TwoPaths
  Configs <- Hosts
  Asks <- FourAsks
  MaxEvents = 3
CHECK_DEADLOCK FALSE
INVARIANTS
  TypeOK
  LossHasACause
  DropsAreCountedOnce
  CaptureIsInvisible
PROPERTIES
  NothingIsHeldForEver
