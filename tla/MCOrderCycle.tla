---------------------------- MODULE MCOrderCycle ----------------------------
(* Small instances of the trade cycle: a lattice of three rows and spreads *)
(* that build up to two notionals on either side, hold and reduce.         *)
EXTENDS OrderCycle

Row(threshold, build, reduce) ==
  [Threshold |-> threshold, PositionBuild |-> build, PositionReduce |-> reduce]

SmallTable == << Row(0, 0, 1), Row(1, 1, 2), Row(2, 2, 9) >>
FlatTable  == << Row(0, 0, 1), Row(1, 1, 9) >>

Spread(x, y) == [on |-> x, off |-> y]

TwoSided == {Spread(-2, 2), Spread(-1, 1), Spread(-1, 0), Spread(0, -1), Spread(1, -1), Spread(2, -2)}
OneSided == {Spread(-1, 1), Spread(-1, 0), Spread(1, -1)}
=============================================================================
