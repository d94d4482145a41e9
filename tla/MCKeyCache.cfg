SPECIFICATION FairSpec
CONSTANTS
  p1 = p1
  k1 = k1
  k2 = k2
  proxy = proxy
  ingest = ingest
  q1 = q1
  q2 = q2
  a1 = a1
  NoEntry = NoEntry
  Project <- OneProject
  Key <- OneKey
  ProjectOf <- AllKeysOfP1
  Service <- Gateway
  Refreshed <- Gateway
  Request <- TwoRequests
  Admin <- OneAdmin
  MaxRev = 1
  MaxOutages = 1
  MaxRestarts = 1
CHECK_DEADLOCK FALSE
INVARIANTS
  TypeOK
  NoOrphanKeys
  RefusalIsFinal
  NotFoundIsHonest
PROPERTIES
  SweepsConverge
