------------------------------ MODULE MCKernel ------------------------------
(* Two processes of two applications that share a Betmatic account: one     *)
(* application can be up while the other is down, a session can have two    *)
(* holders, and a document can gain or lose its Betfair account.            *)
EXTENDS Kernel

CONSTANTS p1, p2, pegasus, other, d1, d2, bm1, bf1

MCAppOf == [k \in Keys |-> IF k = p1 THEN pegasus ELSE other]
MCBetmaticOf == [d \in Docs |-> bm1]
MCBetfairOf  == [d \in Docs |-> IF d = d1 THEN NoAccount ELSE bf1]
=============================================================================
