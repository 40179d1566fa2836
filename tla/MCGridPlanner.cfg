CONSTANTS
  LatticeTable <- ShippedTable
  Spreads <- MarketSpreads
SPECIFICATION Spec
INVARIANTS
  ShrinkKeepsSide
  LoopIsOneNotional
  OneSided
PROPERTIES
  FilledIsSettled
  FillsConverge
  ShrinkEnds
CHECK_DEADLOCK FALSE
