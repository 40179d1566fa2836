CONSTANTS
  LatticeTable <- SmallTable
  Spreads <- TwoSided
  UnitNotional = 1
  PairId = 1
  DeadlineBlocks = 1
  CancelBlocks = 1
  Faults = {"short", "revert"}
  Commands = {}
  MaxOrders = 4
  MaxFirst = 0
  MaxCrashes = 0
  MaxCommands = 0
  MaxPolls = 1
  Levels = {4, 5}
  One = 1
  BookedPNL = 0
SPECIFICATION PLFairSpec
INVARIANTS
  TypeOK
  BooksAgree
  WithinGrid
  BooksBalance
  EntryWasTraded
PROPERTIES
  TurnsForever
  LossEndsTrading
