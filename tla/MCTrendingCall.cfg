CONSTANTS
  MaxPairs = 2
  InitialPairs = 1
  MaxNonce = 2
  PositionLimit = 1
  Amounts <- UnitTrades
  MaxBlock = 1
  MaxTime = 1
SPECIFICATION Spec
INVARIANTS
  NonceTradesOnce
PROPERTIES
  PositionMovesWithNonce
  KeepsLedger
CHECK_DEADLOCK FALSE
