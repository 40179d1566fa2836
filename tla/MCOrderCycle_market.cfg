CONSTANTS
  LatticeTable <- FlatTable
  Spreads <- OneSided
  UnitNotional = 2
  PairId = 1
  DeadlineBlocks = 1
  CancelBlocks = 1
  Faults = {"roy", "partial"}
  Commands = {"add", "cut", "buy", "sell", "pause", "view", "reset"}
  MaxOrders = 2
  MaxFirst = 0
  MaxCrashes = 1
  MaxCommands = 1
  MaxPolls = 1
SPECIFICATION Spec
INVARIANTS
  BooksOwnNumber
  DiskKeepsBooks
