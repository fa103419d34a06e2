----------------------------- MODULE MCProcess ------------------------------
(* Two run goroutines and inboxes of one message: enough for a Start to      *)
(* overlap with the goroutine of an earlier one, and for a full inbox.       *)
(* Betfair is bet at the clock's start and Betmatic one step later, so the   *)
(* sides become ready together and apart.                                    *)
EXTENDS Process

CONSTANTS r1, g1, g2

\* The race is of one feed or of the other.
MCTripleS == [r \in Races |-> "tripleS"]
MCTPD == [r \in Races |-> "tpd"]
=============================================================================
