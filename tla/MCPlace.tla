------------------------------ MODULE MCPlace -------------------------------
(* Prices about every limit of the ladder and between, where the best price  *)
(* times 0.9 or 1.1 crosses into another band, and odds that cap or admit.   *)
EXTENDS Place

MCPrices == {0, 101, 109, 110, 111, 112, 122, 254, 545, 546, 599, 600, 601, 909, 910, 1000, 1100,
             1111, 1818, 1819, 2000, 2200, 2727, 3000, 4545, 5000, 9090, 9200, 10000, 11200,
             90000, 90909, 91000, 99000, 100000}
=============================================================================
