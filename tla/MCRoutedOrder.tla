--------------------------- MODULE MCRoutedOrder ---------------------------
(* Five routes over six pools: three of one hop, with prices inside and    *)
(* outside the cutoff; one of two hops with the best price and no depth;   *)
(* and one through Balancer.                                               *)
EXTENDS RoutedOrder

SmallPools == {"A", "B", "C", "D", "E", "F"}

SmallPrices ==
  [p \in SmallPools |->
     CASE p = "A" -> {1010, 985, 960}
       [] p = "B" -> {1000, 990, 960}
       [] p = "C" -> {1005, 990, 960}
       [] p = "D" -> {1000}
       [] p = "E" -> {1045}
       [] p = "F" -> {972}]

SmallRoutes == << <<"A">>, <<"B">>, <<"C">>, <<"D", "E">>, <<"F">> >>

SmallSlip ==
  [p \in SmallPools |->
     CASE p = "A" -> 4 [] p = "B" -> 9 [] p = "C" -> 2 [] p = "D" -> 2 [] p = "E" -> 22 [] p = "F" -> 6]
=============================================================================
