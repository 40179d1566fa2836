--------------------------- MODULE MCGridPlanner ---------------------------
(* The shipped seven-row table, thresholds in units of 0.0005.             *)
EXTENDS GridPlanner

Row(threshold, build, reduce) ==
  [Threshold |-> threshold, PositionBuild |-> build, PositionReduce |-> reduce]

(* 100 is the source's "no upper edge"; 9 is as far above every build.     *)
ShippedTable ==
  << Row(0, 0, 1), Row(1, 1, 2), Row(2, 2, 3), Row(4, 3, 9),
     Row(8, 4, 9), Row(20, 4, 9), Row(40, 4, 9) >>

(* One spread below every threshold and one on each of the first five rows.*)
Rates == {-9, -8, -5, -4, -3, -2, -1, 0, 1, 2, 4, 8}

MarketSpreads == {s \in [on : Rates, off : Rates] : s.on + s.off <= 0}
=============================================================================
