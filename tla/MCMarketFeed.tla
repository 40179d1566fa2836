---------------------------- MODULE MCMarketFeed ----------------------------
(* Three markets on one client, of which one repair leaves two behind.     *)
EXTENDS MarketFeed

CONSTANTS a, b, c

MCMarkets == <<a, b, c>>
=============================================================================
