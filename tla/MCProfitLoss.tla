---------------------------- MODULE MCProfitLoss ----------------------------
(* The two-sided instance of the trade cycle with two or three levels.     *)
EXTENDS ProfitLoss, MCOrderCycle
=============================================================================
