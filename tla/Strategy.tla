------------------------------ MODULE Strategy ------------------------------
(***************************************************************************)
(* The two selection strategies of apps/pegasus/strategy, as functions     *)
(* from what a strategy remembers of a race and one message about it to    *)
(* what it remembers next and what it decides.                             *)
(*                                                                         *)
(* A message is a race, its status and a time: the timestamp of a Triple-S *)
(* message, the running time of a TPD packet.  What else Select looks at   *)
(* is a fact about the message or the race that may hold or not:           *)
(*   opens    - the race resolves on Betfair, with a code and a distance   *)
(*              that ForwardProgress bets (openRace)                       *)
(*   readable - the timestamp parses                                       *)
(*   ranked   - the message names a leader (extremes; scopeBlock and Atoi) *)
(*   sized    - unitFor is positive; getUnitSize always is                 *)
(***************************************************************************)
EXTENDS Integers

CONSTANTS
  Races,
  Provider,       \* the feed a race comes from
  Times,          \* message times, in steps of the delays
  BetfairDelay,   \* how long after the start each provider is bet
  BetmaticDelay

ASSUME StrategyAssumption ==
  /\ Provider \in [Races -> {"tripleS", "tpd"}]
  /\ Times \subseteq Nat /\ 0 \in Times
  /\ BetfairDelay \in Nat
  /\ BetmaticDelay \in Nat

Sides == {"betmatic", "betfair"}

\* Where no strategy reads the time there is one message for all of them.
Messages ==
  {m \in [race : Races, status : {"pre", "running", "finished"}, time : Times] :
     m.status = "finished" \/ (m.status = "pre" /\ Provider[m.race] = "tpd") => m.time = 0}

Facts == [opens : BOOLEAN, readable : BOOLEAN, ranked : BOOLEAN, sized : BOOLEAN]

\* What is kept of a race: placed are the sides bet, at the clock's start.
RaceStates == [tracked : BOOLEAN, ignore : BOOLEAN, started : BOOLEAN,
               at : Times \cup {0}, placed : SUBSET Sides]

Unknown == [tracked |-> FALSE, ignore |-> FALSE, started |-> FALSE, at |-> 0, placed |-> {}]

\* What Select returns, failed when it is an error: act then leaves the price
\* feed as it is.
Decision(state, tracking, bets) ==
  [state |-> state, tracking |-> tracking, bets |-> bets, failed |-> FALSE]

Failure(state) == [Decision(state, TRUE, {}) EXCEPT !.failed = TRUE]

\* The sides not bet whose delay has passed.
Ready(state, elapsed) ==
  {s \in Sides \ state.placed :
     elapsed >= IF s = "betfair" THEN BetfairDelay ELSE BetmaticDelay}

\* Mutant of Bet: what was bet is not marked.
BetUnmarked(state, elapsed, ranked, sized) ==
  LET ready == Ready(state, elapsed)
  IN Decision(state, TRUE, IF ranked /\ sized THEN ready ELSE {})

\* From the point both strategies share: bet what is ready, if the message
\* names a runner and the race has a unit.
Bet(state, elapsed, ranked, sized) ==
  LET ready == Ready(state, elapsed)
  IN CASE state.placed = Sides -> Decision(state, FALSE, {})
       [] state.placed # Sides /\ (ready = {} \/ ~ranked) -> Decision(state, TRUE, {})
       [] state.placed # Sides /\ ready # {} /\ ranked /\ ~sized ->
            Decision([state EXCEPT !.ignore = TRUE], FALSE, {})
       [] OTHER -> Decision([state EXCEPT !.placed = @ \cup ready], TRUE, ready)

\* ForwardProgress.Select.  The clock starts at the first running message; an
\* unreadable timestamp is an error.
ForwardProgress(state, m, f) ==
  LET opened == IF state.tracked THEN state
                ELSE [Unknown EXCEPT !.tracked = TRUE, !.ignore = ~f.opens]
  IN CASE m.status = "finished" -> Decision(Unknown, FALSE, {})
       [] m.status # "finished" /\ opened.ignore -> Decision(opened, FALSE, {})
       [] m.status = "pre" /\ ~opened.ignore /\ ~opened.started -> Decision(opened, TRUE, {})
       [] m.status = "running" /\ ~opened.ignore /\ ~opened.started ->
            IF f.readable
            THEN Decision([opened EXCEPT !.started = TRUE, !.at = m.time], TRUE, {})
            ELSE Failure(opened)
       [] OTHER ->
            IF f.readable \/ opened.placed = Sides
            THEN Bet(opened, m.time - opened.at, f.ranked, f.sized)
            ELSE Failure(opened)

\* TPDLeader.Select.  Elapsed time is the packet's running time; a failed start
\* signal leaves it at zero, and time since the first running packet (waited)
\* stands in for it.
TPDLeader(state, m, f, waited) ==
  LET running == [state EXCEPT !.tracked = TRUE, !.started = TRUE]
  IN CASE m.status = "finished" -> Decision(Unknown, FALSE, {})
       [] m.status # "finished" /\ state.ignore -> Decision(state, FALSE, {})
       [] m.status = "pre" /\ ~state.ignore -> Decision([state EXCEPT !.tracked = TRUE], TRUE, {})
       [] OTHER -> Bet(running, IF m.time > 0 THEN m.time ELSE waited, f.ranked, TRUE)

\* Mutant of Select: a finished race keeps its prices.
SelectKeepsFeed(state, m, f, waited) ==
  LET d == IF Provider[m.race] = "tripleS" THEN ForwardProgress(state, m, f)
           ELSE TPDLeader(state, m, f, waited)
  IN [d EXCEPT !.tracking = @ \/ m.status = "finished"]

\* The strategy that handles a race's messages.
Select(state, m, f, waited) ==
  IF Provider[m.race] = "tripleS" THEN ForwardProgress(state, m, f)
  ELSE TPDLeader(state, m, f, waited)
=============================================================================
