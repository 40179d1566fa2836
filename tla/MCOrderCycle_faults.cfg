CONSTANTS
  LatticeTable <- FlatTable
  Spreads <- OneSided
  UnitNotional = 1
  PairId = 1
  DeadlineBlocks = 1
  CancelBlocks = 1
  Faults = {"rpc", "timer", "early"}
  Commands = {"reset"}
  MaxOrders = 2
  MaxFirst = 0
  MaxCrashes = 0
  MaxCommands = 1
  MaxPolls = 1
SPECIFICATION FairSpec
INVARIANTS
  NonceTradesOnce
  ReleasedAfterCommit
PROPERTIES
  CommitEnds
