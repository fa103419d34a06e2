------------------------------ MODULE Process -------------------------------
(***************************************************************************)
(* One process of apps/pegasus/process: the inboxes the fan-out fills, the *)
(* run goroutines Start leaves behind, and the strategy state they keep.   *)
(*                                                                         *)
(* Start and Stop hold Process.mu; everything else interleaves.  A run     *)
(* goroutine whose context is cancelled goes on until its select picks     *)
(* ctx.Done over a waiting message, so a Start soon after a Stop leaves    *)
(* two of them on the same strategy state.  Select reads that state and    *)
(* writes it back later: two steps.  What two at once do is a data race in *)
(* Go; its outcomes here are the interleavings of those steps.             *)
(***************************************************************************)
EXTENDS Strategy, Sequences, FiniteSets

CONSTANTS
  Runs,      \* run goroutines; a finished one is used again
  InboxSize  \* capacity of each inbox

ASSUME ProcessAssumption == InboxSize \in Nat \ {0} /\ Races # {}

VARIABLES
  running,   \* Process.running
  inbox,     \* the tripleS and tpd channels
  run,       \* per goroutine: where it is, the message and state it read
  live,      \* the goroutine whose context is Process.ctx, if not cancelled
  races,     \* the strategies' maps
  offered,   \* feeds whose fan-out has asked Wants and not yet sent
  feed,      \* the last value setPriceFeed got for a race
  placed,    \* history: bets placed per race and side since it last finished
  overlap    \* history: two goroutines have been inside Select at once

vars == <<running, inbox, run, live, races, offered, feed, placed, overlap>>

Providers == {"tripleS", "tpd"}
NoMessage == [race |-> CHOOSE r \in Races : TRUE, status |-> "pre", time |-> 0]
Idle == [at |-> "done", msg |-> NoMessage, seen |-> Unknown]

Init ==
  /\ running = FALSE
  /\ inbox = [p \in Providers |-> <<>>]
  /\ run = [g \in Runs |-> Idle]
  /\ live = {}
  /\ races = [r \in Races |-> Unknown]
  /\ offered = {}
  /\ feed = [r \in Races |-> FALSE]
  /\ placed = [r \in Races |-> [s \in Sides |-> 0]]
  /\ overlap = FALSE

\* Start, on a process that is not started.
Start(g) ==
  /\ live = {}
  /\ run[g].at = "done"
  /\ live' = {g}
  /\ running' = TRUE
  /\ run' = [run EXCEPT ![g].at = "select"]
  /\ UNCHANGED <<inbox, races, offered, feed, placed, overlap>>

\* Stop, on a process that is started: it does not wait for the goroutine.
Stop ==
  /\ live # {}
  /\ live' = {}
  /\ running' = FALSE
  /\ UNCHANGED <<inbox, run, races, offered, feed, placed, overlap>>

\* Wants, of a race that one of the process's scopes covers: of others it gets nothing.
Wants == running

\* The fan-out offers every process a message of a feed (onTripleS, onTPD), and
\* OfferTripleS and OfferTPD ask Wants.
Want(p) ==
  /\ Wants
  /\ offered' = offered \cup {p}
  /\ UNCHANGED <<running, inbox, run, live, races, feed, placed, overlap>>

\* What they do then: the message goes into the inbox, whatever has become
\* of the process meanwhile, and a full inbox drops it.
Send(m) ==
  LET p == Provider[m.race]
  IN /\ p \in offered
     /\ offered' = offered \ {p}
     /\ inbox' = IF Len(inbox[p]) < InboxSize
                 THEN [inbox EXCEPT ![p] = Append(@, m)]
                 ELSE inbox
     /\ UNCHANGED <<running, run, live, races, feed, placed, overlap>>

\* The select of run takes a message, cancelled or not, and Select reads what
\* is known of its race.
Receive(g, p) ==
  /\ run[g].at = "select"
  /\ inbox[p] # <<>>
  /\ inbox' = [inbox EXCEPT ![p] = Tail(@)]
  /\ run' = [run EXCEPT ![g] = [at |-> "deciding", msg |-> Head(inbox[p]),
                                seen |-> races[Head(inbox[p]).race]]]
  /\ overlap' = (overlap \/ \E h \in Runs \ {g} : run[h].at = "deciding")
  /\ UNCHANGED <<running, live, races, offered, feed, placed>>

\* What Select may make of a message, by the facts about it.
Outcomes(state, m) == {Select(state, m, f, waited) : f \in Facts, waited \in Times}

\* Select writes the race back; act sets the price feed, unless Select failed, and
\* sends the bets, each on a goroutine of its own.  The history stops at the second
\* bet on a side, and at an overlap.
Decide(g) ==
  /\ run[g].at = "deciding"
  /\ LET m == run[g].msg IN
     \E d \in Outcomes(run[g].seen, m) :
       /\ races' = [races EXCEPT ![m.race] = d.state]
       /\ feed' = IF d.failed THEN feed ELSE [feed EXCEPT ![m.race] = d.tracking]
       /\ placed' = [placed EXCEPT ![m.race] =
                       [s \in Sides |->
                          IF overlap \/ m.status = "finished" THEN 0
                          ELSE IF s \in d.bets /\ @[s] < 2 THEN @[s] + 1
                          ELSE @[s]]]
       /\ run' = [run EXCEPT ![g] = [Idle EXCEPT !.at = "select"]]
       /\ UNCHANGED <<running, inbox, live, offered, overlap>>

\* Mutant of Return: the loop asks the process for its context instead of keeping
\* the one it was started with.
ReturnSharedContext(g) ==
  /\ run[g].at = "select"
  /\ live = {}
  /\ run' = [run EXCEPT ![g] = Idle]
  /\ UNCHANGED <<running, inbox, live, races, offered, feed, placed, overlap>>

\* The select of run takes ctx.Done.
Return(g) ==
  /\ run[g].at = "select"
  /\ g \notin live
  /\ run' = [run EXCEPT ![g] = Idle]
  /\ UNCHANGED <<running, inbox, live, races, offered, feed, placed, overlap>>

Step(g) ==
  \/ \E p \in Providers : Receive(g, p)
  \/ Decide(g)
  \/ Return(g)

Next ==
  \/ \E g \in Runs : Start(g) \/ Step(g)
  \/ Stop
  \/ \E p \in {Provider[r] : r \in Races} : Want(p)
  \/ \E m \in Messages : Send(m)

\* The Go scheduler runs every goroutine that can run, and a select that finds its
\* context done and a message waiting picks either at random: it does not pick the
\* message for ever.
Spec ==
  /\ Init
  /\ [][Next]_vars
  /\ \A g \in Runs : WF_vars(Step(g)) /\ SF_vars(Return(g))

-----------------------------------------------------------------------------
(* Properties *)

\* Types; an inbox is a channel of InboxSize messages, and one too many is dropped
\* rather than waited for (OfferTripleS, OfferTPD).
TypeOK ==
  /\ running \in BOOLEAN
  /\ inbox \in [Providers -> Seq(Messages)]
  /\ \A p \in Providers : Len(inbox[p]) <= InboxSize
  /\ run \in [Runs -> [at : {"done", "select", "deciding"}, msg : Messages, seen : RaceStates]]
  /\ live \in SUBSET Runs
  /\ races \in [Races -> RaceStates]
  /\ offered \in SUBSET Providers
  /\ feed \in [Races -> BOOLEAN]
  /\ placed \in [Races -> [Sides -> 0..2]]
  /\ overlap \in BOOLEAN

\* The flag Wants and the API read agrees with the goroutines: while it is set
\* exactly one is there that no Stop has cancelled, otherwise none is.
RunningMeansServed ==
  /\ Cardinality(live) = IF running THEN 1 ELSE 0
  /\ \A g \in live : run[g].at # "done"

\* "The strategy marks the race as bet, so the next tick places nothing": through
\* stops and starts a race is bet once per side until it finishes, as long as no
\* two goroutines were inside Select together.
BetOnce ==
  overlap \/ \A r \in Races, s \in Sides : placed[r][s] <= 1

\* "Only the run goroutine touches these" - the strategies and seenRaces.
SoleOwner ==
  \A g, h \in Runs : run[g].at = "deciding" /\ run[h].at = "deciding" => g = h

\* The price feed is held for no race that is over or will never be bet: setPriceFeed
\* was last told to keep it only if the strategy still follows the race.
FeedFollowed ==
  overlap \/ \A r \in Races : feed[r] => races[r].tracked /\ ~races[r].ignore

\* A goroutine Stop has cancelled goes away in the end, though a later Start has
\* given Process.ctx another value and messages keep coming.
DrainEnds ==
  \A g \in Runs : (g \notin live) ~> (run[g].at = "done")
=============================================================================
