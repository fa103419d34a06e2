-------------------------- MODULE PriceFeedProofs ---------------------------
(***************************************************************************)
(* NoOrphan and RegisteredRuns for any number of races, callers and polls. *)
(* Together they make the register and the polls nobody has cancelled one  *)
(* and the same thing, and that is inductive: Exit empties the entry of    *)
(* its race whoever holds it, but cancels what it removes.                 *)
(***************************************************************************)
EXTENDS PriceFeed, TLAPS

\* A poll that runs has a race, and a free one is not cancelled.
PollHasRace ==
  \A l \in Loops : IF loop[l].at = "free" THEN loop[l] = Free ELSE loop[l].race \in Races

IInv == TypeOK /\ NoOrphan /\ RegisteredRuns /\ PollHasRace

LEMMA InitIInv == Init => IInv
  BY PriceFeedAssumption
  DEF Init, IInv, TypeOK, NoOrphan, RegisteredRuns, PollHasRace, Free

\* What is removed from the register is cancelled: TurnOff and Close, and the rest of
\* Exit, keep the invariant for the polls they leave running.
LEMMA UnregisterIInv ==
  ASSUME IInv, NEW rs \in SUBSET Races,
         register' = Unregister(rs), loop' = Cancelled(rs)
  PROVE  /\ register' \in [Races -> Loops \cup {NoLoop}]
         /\ loop' \in [Loops -> [at : {"free", "update", "wait", "exit"},
                                 race : Races \cup {NoRace}, cancelled : BOOLEAN]]
         /\ NoOrphan' /\ RegisteredRuns' /\ PollHasRace'
<1> USE DEF IInv, TypeOK
<1>1. loop' \in [Loops -> [at : {"free", "update", "wait", "exit"},
                           race : Races \cup {NoRace}, cancelled : BOOLEAN]]
  BY ZenonT(30) DEF Cancelled
<1>2. register' \in [Races -> Loops \cup {NoLoop}]
  BY DEF Unregister
<1>3. \A l \in Loops : /\ loop'[l].at = loop[l].at
                       /\ loop'[l].race = loop[l].race
                       /\ ~loop'[l].cancelled <=>
                            ~loop[l].cancelled /\ \A r \in rs : register[r] # l
  BY DEF Cancelled
<1>4. \A r \in Races : register'[r] = IF r \in rs THEN NoLoop ELSE register[r]
  BY DEF Unregister
<1>5. NoOrphan'
  BY <1>3, <1>4 DEF NoOrphan, PollHasRace
<1>6. RegisteredRuns'
  BY <1>3, <1>4, PriceFeedAssumption DEF NoOrphan, RegisteredRuns
<1>7. PollHasRace'
  <2> SUFFICES ASSUME NEW l \in Loops
               PROVE  IF loop'[l].at = "free" THEN loop'[l] = Free ELSE loop'[l].race \in Races
    BY DEF PollHasRace
  <2>1. CASE loop[l].at = "free"
    <3>1. \A r \in rs : register[r] # l
      BY <2>1, PriceFeedAssumption DEF RegisteredRuns
    <3> QED BY <2>1, <3>1 DEF PollHasRace, Cancelled, Free
  <2>2. CASE loop[l].at # "free"
    BY <2>2, <1>3 DEF PollHasRace
  <2> QED BY <2>1, <2>2
<1> QED BY <1>1, <1>2, <1>5, <1>6, <1>7

LEMMA StartKeeps ==
  ASSUME IInv, NEW c \in Callers, StartRunnerUpdates(c)
  PROVE  IInv'
<1> DEFINE r == caller[c]
<1> USE DEF IInv, TypeOK
<1>1. r \in Races /\ r # NoRace
  BY DEF StartRunnerUpdates
<1>2. CASE UNCHANGED <<register, loop>>
  BY <1>1, <1>2 DEF StartRunnerUpdates, NoOrphan, RegisteredRuns, PollHasRace
<1>3. ASSUME NEW l \in Loops, loop[l].at = "free", register[r] = NoLoop,
             register' = [register EXCEPT ![r] = l],
             loop' = [loop EXCEPT ![l] = [Free EXCEPT !.at = "update", !.race = r]]
      PROVE  IInv'
  <2>1. loop'[l] = [at |-> "update", race |-> r, cancelled |-> FALSE]
    BY <1>3 DEF Free
  <2>2. \A k \in Loops \ {l} : loop'[k] = loop[k]
    BY <1>3
  <2>3. \A q \in Races : register'[q] = IF q = r THEN l ELSE register[q]
    BY <1>3, <1>1
  <2>4. TypeOK'
    BY <1>1, <1>3, <2>1 DEF StartRunnerUpdates, Free
  <2>5. \A q \in Races : register[q] # l
    BY <1>3, PriceFeedAssumption DEF RegisteredRuns
  <2>6. NoOrphan'
    BY <1>1, <1>3, <2>1, <2>2, <2>3, PriceFeedAssumption DEF NoOrphan, PollHasRace
  <2>7. RegisteredRuns'
    <3> SUFFICES ASSUME NEW q \in Races, register'[q] # NoLoop
                 PROVE  /\ loop'[register'[q]].at # "free"
                        /\ loop'[register'[q]].race = q
                        /\ ~loop'[register'[q]].cancelled
      BY DEF RegisteredRuns
    <3>1. CASE q = r
      BY <3>1, <2>1, <2>3
    <3>2. CASE q # r
      <4>1. register'[q] = register[q] /\ register[q] \in Loops \ {l}
        BY <3>2, <2>3, <2>5
      <4> QED BY <4>1, <2>2 DEF RegisteredRuns
    <3> QED BY <3>1, <3>2
  <2>8. PollHasRace'
    BY <1>1, <2>1, <2>2 DEF PollHasRace
  <2> QED BY <2>4, <2>6, <2>7, <2>8
<1> QED BY <1>1, <1>2, <1>3 DEF StartRunnerUpdates

\* The loop's own step, short of the deferred stop.
LEMMA LoopKeeps ==
  ASSUME IInv, NEW l \in Loops, UpdateRunners(l) \/ Tick(l) \/ Done(l)
  PROVE  IInv'
<1> USE DEF IInv, TypeOK
<1>1. PICK a \in {"update", "wait", "exit"} : loop' = [loop EXCEPT ![l].at = a]
  BY DEF UpdateRunners, Tick, Done
<1>2. /\ loop[l].at # "free"
      /\ UNCHANGED <<loaded, open, client, parent, register, caller>>
  BY DEF UpdateRunners, Tick, Done
<1>3. /\ loop'[l].at # "free"
      /\ loop'[l].race = loop[l].race
      /\ loop'[l].cancelled = loop[l].cancelled
      /\ \A k \in Loops \ {l} : loop'[k] = loop[k]
  BY <1>1
<1>4. TypeOK'
  BY <1>1, <1>2
<1>5. NoOrphan'
  BY <1>2, <1>3 DEF NoOrphan
<1>6. RegisteredRuns'
  BY <1>2, <1>3, PriceFeedAssumption DEF RegisteredRuns
<1>7. PollHasRace'
  BY <1>2, <1>3 DEF PollHasRace
<1> QED BY <1>4, <1>5, <1>6, <1>7

LEMMA ExitKeeps ==
  ASSUME IInv, NEW l \in Loops, Exit(l)
  PROVE  IInv'
<1> DEFINE r == loop[l].race
<1> USE DEF IInv, TypeOK
<1>1. r \in Races /\ loop[l].at = "exit"
  BY DEF Exit, PollHasRace
<1>2. /\ loop'[l] = Free
      /\ \A k \in Loops \ {l} : /\ loop'[k].at = loop[k].at
                                /\ loop'[k].race = loop[k].race
                                /\ ~loop'[k].cancelled <=> ~loop[k].cancelled /\ register[r] # k
                                /\ register[r] # k => loop'[k] = loop[k]
  BY DEF Exit, Cancelled
<1>3. \A q \in Races : register'[q] = IF q = r THEN NoLoop ELSE register[q]
  BY DEF Exit, Unregister
<1>4. TypeOK'
  <2> DEFINE polls == [at : {"free", "update", "wait", "exit"},
                       race : Races \cup {NoRace}, cancelled : BOOLEAN]
  <2>1. \A k \in Loops : loop[k] \in polls /\ [loop[k] EXCEPT !.cancelled = TRUE] \in polls
    OBVIOUS
  <2>2. Free \in polls
    BY DEF Free
  <2> HIDE DEF polls
  <2>3. Cancelled({r}) \in [Loops -> polls]
    BY <2>1 DEF Cancelled
  <2>4. loop' \in [Loops -> polls]
    BY <2>2, <2>3 DEF Exit
  <2>5. register' \in [Races -> Loops \cup {NoLoop}]
    BY DEF Exit, Unregister
  <2> QED
    BY <2>4, <2>5 DEF Exit, polls
<1>5. NoOrphan'
  BY <1>1, <1>2, <1>3 DEF NoOrphan, PollHasRace, Free
<1>6. RegisteredRuns'
  <2> SUFFICES ASSUME NEW q \in Races, register'[q] # NoLoop
               PROVE  /\ loop'[register'[q]].at # "free"
                      /\ loop'[register'[q]].race = q
                      /\ ~loop'[register'[q]].cancelled
    BY DEF RegisteredRuns
  <2>1. q # r /\ register'[q] = register[q] /\ register[q] \in Loops
    BY <1>3
  <2>2. /\ loop[register[q]].at # "free"
        /\ loop[register[q]].race = q
        /\ ~loop[register[q]].cancelled
    BY <2>1 DEF RegisteredRuns
  <2>3. register[q] # l
    BY <2>1, <2>2
  <2>4. register[r] # register[q]
    BY <1>1, <2>1, <2>2, PriceFeedAssumption DEF RegisteredRuns
  <2> QED BY <1>2, <2>1, <2>2, <2>3, <2>4
<1>7. PollHasRace'
  <2> SUFFICES ASSUME NEW k \in Loops
               PROVE  IF loop'[k].at = "free" THEN loop'[k] = Free ELSE loop'[k].race \in Races
    BY DEF PollHasRace
  <2>1. CASE k = l
    BY <2>1, <1>2 DEF Free
  <2>2. CASE k # l /\ register[r] = k
    BY <2>2, <1>1, <1>2, PriceFeedAssumption DEF RegisteredRuns, PollHasRace
  <2>3. CASE k # l /\ register[r] # k
    BY <2>3, <1>2 DEF PollHasRace
  <2> QED BY <2>1, <2>2, <2>3
<1> QED BY <1>4, <1>5, <1>6, <1>7

\* The actions that leave the register and the polls alone, and a stutter.
LEMMA OthersKeep ==
  ASSUME IInv,
         \/ \E c \in Callers, r \in Races : TurnOn(c, r)
         \/ Refresh
         \/ \E r \in Races : Market(r)
         \/ CancelParent
         \/ UNCHANGED vars
  PROVE  IInv'
<1>1. UNCHANGED <<register, loop>>
  BY DEF TurnOn, Refresh, SetUpcomingEvents, Market, CancelParent, vars
<1>2. TypeOK'
  BY DEF IInv, TypeOK, TurnOn, Refresh, SetUpcomingEvents, Market, CancelParent, vars
<1> QED BY <1>1, <1>2 DEF IInv, NoOrphan, RegisteredRuns, PollHasRace

LEMMA NextIInv == IInv /\ [Next]_vars => IInv'
<1> SUFFICES ASSUME IInv, [Next]_vars PROVE IInv'
  OBVIOUS
<1>1. ASSUME NEW c \in Callers, NEW r \in Races, TurnOff(c, r) PROVE IInv'
  BY <1>1, UnregisterIInv DEF TurnOff, IInv, TypeOK
<1>2. CASE Close
  BY <1>2, UnregisterIInv DEF Close, IInv, TypeOK
<1>3. ASSUME NEW c \in Callers, StartRunnerUpdates(c) PROVE IInv'
  BY <1>3, StartKeeps
<1>4. ASSUME NEW l \in Loops, Loop(l) PROVE IInv'
  BY <1>4, LoopKeeps, ExitKeeps DEF Loop
<1> QED BY <1>1, <1>2, <1>3, <1>4, OthersKeep DEF Next

LEMMA Invariance == Spec => []IInv
  BY InitIInv, NextIInv, PTL DEF Spec

\* The variables keep their types.
THEOREM TypeCorrect == Spec => []TypeOK
  BY Invariance, PTL DEF IInv

\* No poll runs that neither StopRunnerUpdates nor Close can reach, and no race has
\* two polls nobody has cancelled.
THEOREM NoOrphanInv == Spec => []NoOrphan
  BY Invariance, PTL DEF IInv

\* The register never names a poll that has ended, is another race's or is cancelled,
\* so it never makes a start return for nothing.
THEOREM RegisteredRunsInv == Spec => []RegisteredRuns
  BY Invariance, PTL DEF IInv
=============================================================================
