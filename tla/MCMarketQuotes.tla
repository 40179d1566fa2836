--------------------------- MODULE MCMarketQuotes --------------------------
EXTENDS MarketQuotes

MCQuotes == {[bid |-> 10, ask |-> 11], [bid |-> 13, ask |-> 13],
             [bid |-> 20, ask |-> 26]}
=============================================================================
