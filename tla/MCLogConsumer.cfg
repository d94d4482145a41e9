SPECIFICATION FairSpec
CONSTANTS
  c1 = c1
  c2 = c2
  p1 = p1
  NoOwner = NoOwner
  Consumer <- TwoMembers
  Partition <- OneLog
  MaxSize = 2
  MaxOffset = 3
  MaxFaults = 1
  MaxStops = 1
  Undecodable <- SecondIsCorrupt
INVARIANTS
  TypeOK
  NoSilentLoss
  OutageLosesNothing
  DuplicatesArePaidFor
  StoredInOffsetOrder
  FullBatchMeansFailure
PROPERTIES
  CommitNeverRewinds
  EventuallySettled
  ShutdownCompletes
