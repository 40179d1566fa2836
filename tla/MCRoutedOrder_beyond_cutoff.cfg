CONSTANTS
  Pools <- SmallPools
  Balancer = {"F"}
  X96 = 1000
  Wei = 1000
  SlipUnit = 48
  GreenLight = 8
  Cutoff = 30
  Prices <- SmallPrices
  Routes <- SmallRoutes
  Slip <- SmallSlip
  Notional = 360
  MaxDiff = 2
SPECIFICATION Spec
INVARIANTS
  StopsAtCutoff
CHECK_DEADLOCK FALSE
