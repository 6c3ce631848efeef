SPECIFICATION FairSpec
CONSTANTS
  Masters = {k1, k2}
  NoKey = NoKey
  MessageCount = 3
  BatchSize = 2
  MaxMonths = 2
  MaxSwaps = 1
  MaxFaults = 1
INVARIANTS
  CustodyInv
  SteadyMasterKeepsMail
  BystandersBounded
PROPERTY UnreadableNeverBlocks
CHECK_DEADLOCK FALSE
