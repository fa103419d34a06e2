------------------------------- MODULE MCLogs -------------------------------
(* One line of each kind: info reaches the ring alone, warn the ring and the *)
(* sink, a bet the sink alone, in a channel of its own.                      *)
EXTENDS Logs

CONSTANTS info, warn, bet

MCLevel == [l \in Lines |-> CASE l = info -> 0 [] l = warn -> 4 [] l = bet -> 2]
MCChannelOf == [bet |-> "bets", log |-> "logs"]
=============================================================================
