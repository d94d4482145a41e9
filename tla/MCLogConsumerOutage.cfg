SPECIFICATION Spec
CONSTANTS
  c1 = c1
  c2 = c2
  p1 = p1
  NoOwner = NoOwner
  Consumer <- OneMember
  Partition <- OneLog
  MaxSize = 1
  MaxOffset = 2
  MaxFaults = 1
  MaxStops = 0
  Undecodable <- NoneIsCorrupt
INVARIANT OutageKeepsOffsetsUncommitted
