----------------------------- MODULE PriceFeed ------------------------------
(***************************************************************************)
(* Price polling of the admin Betfair client, betting/betfair/races.go,    *)
(* and its callers: every process of apps/pegasus turns the poll of a race *)
(* on or off through App.setBetfairPriceFeed with each message it handles. *)
(*                                                                         *)
(* A poll is a goroutine (runnerUpdateLoop) with a context of its own; the *)
(* register, runnerCancels, holds the cancel function of the one running.  *)
(* A cancelled loop goes on until its select sees it, so the cancel that   *)
(* stopRunnerUpdates calls after the unlock is part of the same action.    *)
(***************************************************************************)
EXTENDS Naturals

CONSTANTS
  Races,    \* races by code, country, track and number
  Callers,  \* run goroutines of the processes
  Loops,    \* poll goroutines; a finished one is used again
  NoRace,
  NoLoop

ASSUME PriceFeedAssumption == NoLoop \notin Loops /\ NoRace \notin Races

VARIABLES
  loaded,    \* the races in the upcoming-event maps
  open,      \* the races whose market is open on the exchange
  client,    \* App.betfair is set
  parent,    \* the context the runtime started the application with is alive
  register,  \* runnerCancels
  loop,      \* per goroutine: where it is, its race, whether it was cancelled
  caller     \* per caller: the StartRunnerUpdates it has begun

vars == <<loaded, open, client, parent, register, loop, caller>>

Free == [at |-> "free", race |-> NoRace, cancelled |-> FALSE]

Init ==
  /\ loaded \in SUBSET Races
  /\ open \in SUBSET Races
  /\ client = TRUE
  /\ parent = TRUE
  /\ register = [r \in Races |-> NoLoop]
  /\ loop = [l \in Loops |-> Free]
  /\ caller = [c \in Callers |-> NoRace]

\* Mutant of Cancelled: what is removed is not cancelled.
CancelledNone(rs) == loop

\* stopRunnerUpdates and stopAllRunnerUpdates: what is registered for the races is
\* removed and cancelled.
Unregister(rs) == [r \in Races |-> IF r \in rs THEN NoLoop ELSE register[r]]

Cancelled(rs) ==
  [l \in Loops |-> IF \E r \in rs : register[r] = l
                   THEN [loop[l] EXCEPT !.cancelled = TRUE]
                   ELSE loop[l]]

\* HasRace: the race is in the maps.
HasRace(r) == r \in loaded

\* setBetfairPriceFeed turning a race on, up to the register: the application has
\* its client and the client has the race.
TurnOn(c, r) ==
  /\ caller[c] = NoRace
  /\ client
  /\ HasRace(r)
  /\ caller' = [caller EXCEPT ![c] = r]
  /\ UNCHANGED <<loaded, open, client, parent, register, loop>>

\* The rest of StartRunnerUpdates: a race that has a poll keeps it.  The context
\* may be cancelled already, and the client closed.
StartRunnerUpdates(c) ==
  LET r == caller[c]
  IN /\ r # NoRace
     /\ caller' = [caller EXCEPT ![c] = NoRace]
     /\ \/ /\ register[r] # NoLoop
           /\ UNCHANGED <<register, loop>>
        \/ /\ register[r] = NoLoop
           /\ \E l \in Loops :
                /\ loop[l].at = "free"
                /\ register' = [register EXCEPT ![r] = l]
                /\ loop' = [loop EXCEPT ![l] = [Free EXCEPT !.at = "update", !.race = r]]
     /\ UNCHANGED <<loaded, open, client, parent>>

\* setBetfairPriceFeed turning a race off: StopRunnerUpdates.
TurnOff(c, r) ==
  /\ caller[c] = NoRace
  /\ client
  /\ register' = Unregister({r})
  /\ loop' = Cancelled({r})
  /\ UNCHANGED <<loaded, open, client, parent, caller>>

\* updateRunners: the loop ends when the book it fetches says the market is closed.
\* A race that is not loaded, a failed fetch and an empty answer keep it going.
UpdateRunners(l) ==
  /\ loop[l].at = "update"
  /\ \/ loop' = [loop EXCEPT ![l].at = "wait"]
     \/ /\ HasRace(loop[l].race)
        /\ loop[l].race \notin open
        /\ loop' = [loop EXCEPT ![l].at = "exit"]
  /\ UNCHANGED <<loaded, open, client, parent, register, caller>>

\* The loop's select takes the ticker...
Tick(l) ==
  /\ loop[l].at = "wait"
  /\ loop' = [loop EXCEPT ![l].at = "update"]
  /\ UNCHANGED <<loaded, open, client, parent, register, caller>>

\* Mutants of Done: the loop watches the runtime's context, or only its own cancel.
DoneWithRuntime(l) ==
  /\ loop[l].at = "wait"
  /\ ~parent
  /\ loop' = [loop EXCEPT ![l].at = "exit"]
  /\ UNCHANGED <<loaded, open, client, parent, register, caller>>

DoneWhenCancelled(l) ==
  /\ loop[l].at = "wait"
  /\ loop[l].cancelled
  /\ loop' = [loop EXCEPT ![l].at = "exit"]
  /\ UNCHANGED <<loaded, open, client, parent, register, caller>>

\* ...or ctx.Done.
Done(l) ==
  /\ loop[l].at = "wait"
  /\ loop[l].cancelled \/ ~parent
  /\ loop' = [loop EXCEPT ![l].at = "exit"]
  /\ UNCHANGED <<loaded, open, client, parent, register, caller>>

\* Mutant of Exit: no deferred stop.
ExitLeavesEntry(l) ==
  /\ loop[l].at = "exit"
  /\ loop' = [loop EXCEPT ![l] = Free]
  /\ UNCHANGED <<loaded, open, client, parent, register, caller>>

\* The deferred stopRunnerUpdates of the loop: by race, whoever is registered.
Exit(l) ==
  LET r == loop[l].race
  IN /\ loop[l].at = "exit"
     /\ register' = Unregister({r})
     /\ loop' = [Cancelled({r}) EXCEPT ![l] = Free]
     /\ UNCHANGED <<loaded, open, client, parent, caller>>

\* setUpcomingEventsMap replaces both maps by what was loaded.
SetUpcomingEvents(rs) == loaded' = rs

\* StartTrackRefresh loads again and again; a load begun before Close may end after it.
Refresh ==
  /\ \E rs \in SUBSET Races : SetUpcomingEvents(rs)
  /\ UNCHANGED <<open, client, parent, register, loop, caller>>

\* The exchange closes a market, or opens one under the same track and number.
Market(r) ==
  /\ open' = IF r \in open THEN open \ {r} ELSE open \cup {r}
  /\ UNCHANGED <<loaded, client, parent, register, loop, caller>>

\* App.Stop: Client.Close, and the client is let go.
Close ==
  /\ client
  /\ client' = FALSE
  /\ register' = Unregister(Races)
  /\ loop' = Cancelled(Races)
  /\ UNCHANGED <<loaded, open, parent, caller>>

\* The runtime cancels its context once its applications are stopped.
CancelParent ==
  /\ ~client
  /\ parent
  /\ parent' = FALSE
  /\ UNCHANGED <<loaded, open, client, register, loop, caller>>

Loop(l) == UpdateRunners(l) \/ Tick(l) \/ Done(l) \/ Exit(l)

Next ==
  \/ \E c \in Callers, r \in Races : TurnOn(c, r) \/ TurnOff(c, r)
  \/ \E c \in Callers : StartRunnerUpdates(c)
  \/ \E l \in Loops : Loop(l)
  \/ Refresh
  \/ \E r \in Races : Market(r)
  \/ Close
  \/ CancelParent

\* Goroutines that can run do; an update ends, in an answer or a failure; the ticker
\* fires; a select that can take ctx.Done does not take the ticker for ever; and
\* the runtime that has stopped an application goes on to cancel its context.
Spec ==
  /\ Init
  /\ [][Next]_vars
  /\ \A c \in Callers : WF_vars(StartRunnerUpdates(c))
  /\ \A l \in Loops : WF_vars(Loop(l)) /\ SF_vars(Done(l))
  /\ WF_vars(CancelParent)

-----------------------------------------------------------------------------
(* Properties *)

TypeOK ==
  /\ loaded \in SUBSET Races
  /\ open \in SUBSET Races
  /\ client \in BOOLEAN
  /\ parent \in BOOLEAN
  /\ register \in [Races -> Loops \cup {NoLoop}]
  /\ loop \in [Loops -> [at : {"free", "update", "wait", "exit"},
                         race : Races \cup {NoRace}, cancelled : BOOLEAN]]
  /\ caller \in [Callers -> Races \cup {NoRace}]

\* A race never has two polls that nobody has cancelled, and none runs out of reach
\* of StopRunnerUpdates and Close: a loop that is not cancelled is registered.
NoOrphan ==
  \A l \in Loops : loop[l].at # "free" /\ ~loop[l].cancelled => register[loop[l].race] = l

\* "Remove cancel func from register whichever way we exit": what is registered for a
\* race is a poll of that race that runs, so no dead entry can make a start return.
RegisteredRuns ==
  \A r \in Races : register[r] # NoLoop =>
    /\ loop[register[r]].at # "free"
    /\ loop[register[r]].race = r
    /\ ~loop[register[r]].cancelled

\* A poll that is cancelled ends, and once the application has been stopped every
\* poll ends and none starts again, those turned on behind Close included.
CancelledEnds == \A l \in Loops : loop[l].cancelled ~> (loop[l].at = "free")

StopsForGood == (~client) ~> [](\A l \in Loops : loop[l].at = "free")
=============================================================================
