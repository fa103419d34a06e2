---------------------------- MODULE MCPriceFeed -----------------------------
(* Two processes on a race, three polls: two that are cancelled and have not  *)
(* noticed, and the one of a later start.                                    *)
EXTENDS PriceFeed

CONSTANTS r1, c1, c2, l1, l2, l3
=============================================================================
