CONSTANTS
  LatticeTable <- SmallTable
  Spreads <- TwoSided
  UnitNotional = 2
  PairId = 1
  DeadlineBlocks = 1
  CancelBlocks = 1
  Faults = {}
  Commands = {}
  MaxOrders = 3
  MaxFirst = 0
  MaxCrashes = 0
  MaxCommands = 0
  MaxPolls = 1
  Levels = {4, 5}
  One = 1
  BookedPNL = 7
SPECIFICATION PLSpec
INVARIANTS
  EntryWasTraded
