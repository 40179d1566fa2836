-------------------------- MODULE MCTrendingCall --------------------------
(* Two orders' worth of numbers on two pairs, the second added on the way. *)
EXTENDS TrendingCall

UnitTrades == {-1, 1}
=============================================================================
