CONSTANTS
  LatticeTable <- FlatTable
  Spreads <- OneSided
  UnitNotional = 1
  PairId = 1
  DeadlineBlocks = 0
  CancelBlocks = 0
  Faults = {"timer", "cancel", "chase"}
  Commands = {"buy"}
  MaxOrders = 2
  MaxFirst = 1
  MaxCrashes = 0
  MaxCommands = 1
  MaxPolls = 1
SPECIFICATION Spec
INVARIANTS
  OneTradeEach
PROPERTIES
  CallsContract
