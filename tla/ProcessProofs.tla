--------------------------- MODULE ProcessProofs ----------------------------
(***************************************************************************)
(* The invariants of Process for any races, delays, inbox size and number  *)
(* of run goroutines.  A race is bet once because a strategy only bets     *)
(* what its state does not hold as placed, and holds it from then on; that *)
(* carries from one message to the next as long as what a goroutine read   *)
(* is still there when it writes, which is what two at once would break.   *)
(***************************************************************************)
EXTENDS Process, FiniteSetTheorems, TLAPS

LEMMA MessageTypes ==
  /\ NoMessage \in Messages
  /\ Unknown \in RaceStates
  /\ Times \subseteq Nat
  /\ \A m \in Messages : m.race \in Races /\ Provider[m.race] \in Providers
  BY ProcessAssumption, StrategyAssumption
  DEF NoMessage, Messages, Unknown, RaceStates, Sides, Providers

(***************************************************************************)
(* What a strategy decides.                                                *)
(***************************************************************************)

\* A race the strategy has no entry for is as good as new.
Proper(state) == state \in RaceStates /\ (state.tracked \/ state = Unknown)

\* What a decision on a message of a race that goes on may be.
Sound(state, d) ==
  /\ Proper(d.state) /\ d.state.tracked
  /\ d.bets \in SUBSET (Sides \ state.placed)
  /\ d.state.placed = state.placed \cup d.bets
  /\ d.tracking \in BOOLEAN /\ d.failed \in BOOLEAN
  /\ d.tracking \/ d.failed => ~d.state.ignore

LEMMA DecisionSound ==
  ASSUME NEW state, NEW after, Proper(after), after.tracked,
         NEW bets \in SUBSET (Sides \ state.placed), after.placed = state.placed \cup bets,
         NEW tracking \in BOOLEAN, tracking => ~after.ignore
  PROVE  Sound(state, Decision(after, tracking, bets))
  BY DEF Decision, Sound

LEMMA BetSound ==
  ASSUME NEW state, Proper(state), state.tracked, ~state.ignore,
         NEW elapsed \in Int, NEW ranked \in BOOLEAN, NEW sized \in BOOLEAN
  PROVE  Sound(state, Bet(state, elapsed, ranked, sized))
<1> DEFINE ready == Ready(state, elapsed)
<1>1. ready \in SUBSET (Sides \ state.placed)
  BY DEF Ready
<1>2. CASE state.placed = Sides
  BY <1>2 DEF Bet, Decision, Sound, Proper
<1>3. CASE state.placed # Sides /\ (ready = {} \/ ~ranked)
  BY <1>3 DEF Bet, Decision, Sound, Proper
<1>4. CASE state.placed # Sides /\ ready # {} /\ ranked /\ ~sized
  <2>1. Bet(state, elapsed, ranked, sized) = Decision([state EXCEPT !.ignore = TRUE], FALSE, {})
    BY <1>4 DEF Bet
  <2>2. /\ Proper([state EXCEPT !.ignore = TRUE])
        /\ [state EXCEPT !.ignore = TRUE].tracked
        /\ [state EXCEPT !.ignore = TRUE].placed = state.placed
    BY DEF Proper, RaceStates
  <2> DEFINE after == [state EXCEPT !.ignore = TRUE]
  <2>3. {} \in SUBSET (Sides \ state.placed) /\ state.placed = state.placed \cup {}
    OBVIOUS
  <2> HIDE DEF after
  <2>4. Sound(state, Decision(after, FALSE, {}))
    BY <2>2, <2>3, DecisionSound DEF after
  <2> QED BY <2>1, <2>4 DEF after
<1>5. CASE state.placed # Sides /\ ready # {} /\ ranked /\ sized
  <2>1. Bet(state, elapsed, ranked, sized)
          = Decision([state EXCEPT !.placed = @ \cup ready], TRUE, ready)
    BY <1>5 DEF Bet
  <2> QED BY <1>1, <2>1 DEF Decision, Sound, Proper, RaceStates
<1> QED BY <1>2, <1>3, <1>4, <1>5

LEMMA ForwardProgressSound ==
  ASSUME NEW state, Proper(state), NEW m \in Messages, m.status # "finished", NEW f \in Facts
  PROVE  Sound(state, ForwardProgress(state, m, f))
<1> DEFINE opened == IF state.tracked THEN state
                     ELSE [Unknown EXCEPT !.tracked = TRUE, !.ignore = ~f.opens]
           begun == [opened EXCEPT !.started = TRUE, !.at = m.time]
<1>1. Proper(opened) /\ opened.tracked /\ opened.placed = state.placed
  BY MessageTypes DEF Proper, RaceStates, Unknown, Facts
<1>2. Sound(state, Decision(opened, FALSE, {}))
  BY <1>1 DEF Sound, Decision
<1>3. ~opened.ignore => Sound(state, Decision(opened, TRUE, {})) /\ Sound(state, Failure(opened))
  BY <1>1 DEF Sound, Decision, Failure
<1>4. ~opened.ignore => Sound(state, Decision(begun, TRUE, {}))
  BY <1>1 DEF Sound, Decision, Proper, RaceStates, Messages
<1>5. ASSUME ~opened.ignore PROVE Sound(state, Bet(opened, m.time - opened.at, f.ranked, f.sized))
  <2>1. m.time \in Int /\ opened.at \in Int
    BY <1>1, StrategyAssumption DEF Proper, RaceStates, Messages
  <2>2. m.time - opened.at \in Int
    BY <2>1
  <2>3. Sound(opened, Bet(opened, m.time - opened.at, f.ranked, f.sized))
    BY <1>1, <1>5, <2>2, BetSound DEF Facts
  <2> QED BY <1>1, <2>3 DEF Sound
<1> QED BY <1>2, <1>3, <1>4, <1>5 DEF ForwardProgress, Messages

LEMMA TPDLeaderSound ==
  ASSUME NEW state, Proper(state), NEW m \in Messages, m.status # "finished", NEW f \in Facts,
         NEW waited \in Times
  PROVE  Sound(state, TPDLeader(state, m, f, waited)) \/ (state.ignore /\ ~state.tracked)
<1> DEFINE seen == [state EXCEPT !.tracked = TRUE]
           begun == [state EXCEPT !.tracked = TRUE, !.started = TRUE]
<1>1. /\ Proper(seen) /\ seen.tracked /\ seen.placed = state.placed /\ seen.ignore = state.ignore
      /\ Proper(begun) /\ begun.tracked /\ begun.placed = state.placed /\ begun.ignore = state.ignore
  BY DEF Proper, RaceStates
<1>2. state.ignore => Sound(state, Decision(state, FALSE, {})) \/ ~state.tracked
  BY DEF Sound, Decision, Proper
<1>3. ~state.ignore => Sound(state, Decision(seen, TRUE, {}))
  BY <1>1 DEF Sound, Decision
<1>4. ASSUME ~state.ignore
      PROVE  Sound(state, Bet(begun, IF m.time > 0 THEN m.time ELSE waited, f.ranked, TRUE))
  <2>1. (IF m.time > 0 THEN m.time ELSE waited) \in Int
    <3>1. m.time \in Times
      BY DEF Messages
    <3>2. m.time \in Nat /\ waited \in Nat
      BY <3>1, StrategyAssumption
    <3> QED BY <3>2
  <2>2. Sound(begun, Bet(begun, IF m.time > 0 THEN m.time ELSE waited, f.ranked, TRUE))
    BY <1>1, <1>4, <2>1, BetSound DEF Facts
  <2> QED BY <1>1, <2>2 DEF Sound
<1> QED BY <1>2, <1>3, <1>4 DEF TPDLeader, Messages

\* Select bets only what is not placed and remembers it; a finished race is forgotten.
LEMMA SelectSound ==
  ASSUME NEW state, Proper(state), NEW m \in Messages, NEW f \in Facts, NEW waited \in Times
  PROVE  IF m.status = "finished"
         THEN Select(state, m, f, waited) = Decision(Unknown, FALSE, {})
         ELSE Sound(state, Select(state, m, f, waited))
<1>1. CASE m.status = "finished"
  BY <1>1 DEF Select, ForwardProgress, TPDLeader
<1>2. CASE m.status # "finished"
  <2>1. ~(state.ignore /\ ~state.tracked)
    BY DEF Proper, Unknown
  <2> QED BY <1>2, <2>1, ForwardProgressSound, TPDLeaderSound DEF Select
<1> QED BY <1>1, <1>2

(***************************************************************************)
(* The inductive invariant.                                                *)
(***************************************************************************)

\* The goroutine Stop would cancel is there exactly while running is set.
Served ==
  /\ IF running THEN \E g \in Runs : live = {g} ELSE live = {}
  /\ \A g \in live : run[g].at # "done"

\* Without an overlap a goroutine inside Select is alone there, and what it read is
\* what the map still holds.
Alone ==
  overlap \/ \A g \in Runs : run[g].at = "deciding" =>
    /\ run[g].seen = races[run[g].msg.race]
    /\ \A h \in Runs \ {g} : run[h].at # "deciding"

\* Entries are proper, what was bet is placed, and a held feed is of a followed race.
Remembered ==
  /\ \A r \in Races : Proper(races[r])
  /\ \A g \in Runs : Proper(run[g].seen)
  /\ overlap \/ \A r \in Races :
       /\ \A s \in Sides : placed[r][s] \in {0, 1} /\ (placed[r][s] = 1 => s \in races[r].placed)
       /\ feed[r] => races[r].tracked /\ ~races[r].ignore

IInv == TypeOK /\ Served /\ Alone /\ Remembered

LEMMA InitIInv == Init => IInv
<1> SUFFICES ASSUME Init PROVE IInv
  OBVIOUS
<1> USE MessageTypes DEF Init, Idle
<1>1. TypeOK
  <2>1. <<>> \in Seq(Messages)
    OBVIOUS
  <2>2. inbox \in [Providers -> Seq(Messages)]
    BY <2>1
  <2>3. placed \in [Races -> [Sides -> 0..2]]
    OBVIOUS
  <2>4. \A p \in Providers : Len(inbox[p]) <= InboxSize
    BY ProcessAssumption
  <2> QED BY <2>2, <2>3, <2>4 DEF TypeOK
<1>2. Served /\ Alone
  BY DEF Served, Alone
<1>3. Remembered
  <2>1. Proper(Unknown) /\ ~Unknown.tracked
    BY DEF Proper, Unknown
  <2>2. \A g \in Runs : run[g].seen = Unknown
    OBVIOUS
  <2>3. \A r \in Races : races[r] = Unknown /\ feed[r] = FALSE /\ \A s \in Sides : placed[r][s] = 0
    OBVIOUS
  <2> QED BY <2>1, <2>2, <2>3 DEF Remembered
<1> QED BY <1>1, <1>2, <1>3 DEF IInv

LEMMA StartKeeps ==
  ASSUME IInv, NEW g \in Runs, Start(g)
  PROVE  IInv'
<1> USE DEF IInv, TypeOK, Start
<1>1. /\ run'[g] = [run[g] EXCEPT !.at = "select"]
      /\ \A h \in Runs \ {g} : run'[h] = run[h]
  OBVIOUS
<1>2. TypeOK' /\ Served'
  BY <1>1 DEF Served
<1>3. Alone'
  BY <1>1 DEF Alone
<1>4. Remembered'
  BY <1>1 DEF Remembered
<1> QED BY <1>2, <1>3, <1>4

LEMMA StopKeeps ==
  ASSUME IInv, Stop
  PROVE  IInv'
  BY DEF IInv, TypeOK, Stop, Served, Alone, Remembered

LEMMA ReceiveKeeps ==
  ASSUME IInv, NEW g \in Runs, NEW p \in Providers, Receive(g, p)
  PROVE  IInv'
<1> DEFINE m == Head(inbox[p])
<1> USE DEF IInv, TypeOK, Receive
<1>1. m \in Messages /\ m.race \in Races /\ Tail(inbox[p]) \in Seq(Messages)
  BY MessageTypes
<1>2. /\ run'[g] = [at |-> "deciding", msg |-> m, seen |-> races[m.race]]
      /\ \A h \in Runs \ {g} : run'[h] = run[h]
  OBVIOUS
<1>3. TypeOK'
  <2>1. inbox[p] \in Seq(Messages) /\ Len(Tail(inbox[p])) <= InboxSize
    BY ProcessAssumption
  <2> QED BY <1>1, <2>1
<1>4. Served'
  BY <1>2 DEF Served
<1>5. Alone'
  BY <1>1, <1>2 DEF Alone
<1>6. Remembered'
  BY <1>1, <1>2 DEF Remembered
<1> QED BY <1>3, <1>4, <1>5, <1>6

LEMMA DecideKeeps ==
  ASSUME IInv, NEW g \in Runs, Decide(g)
  PROVE  IInv'
<1> DEFINE m == run[g].msg
           r == m.race
           seen == run[g].seen
<1> USE DEF IInv, TypeOK
<1>1. m \in Messages /\ r \in Races /\ Proper(seen) /\ seen \in RaceStates
  BY MessageTypes DEF Remembered, Proper
<1>2. PICK d \in Outcomes(seen, m) :
        /\ races' = [races EXCEPT ![r] = d.state]
        /\ feed' = IF d.failed THEN feed ELSE [feed EXCEPT ![r] = d.tracking]
        /\ placed' = [placed EXCEPT ![r] =
                        [s \in Sides |->
                           IF overlap \/ m.status = "finished" THEN 0
                           ELSE IF s \in d.bets /\ @[s] < 2 THEN @[s] + 1
                           ELSE @[s]]]
        /\ run' = [run EXCEPT ![g] = [Idle EXCEPT !.at = "select"]]
        /\ UNCHANGED <<running, inbox, live, offered, overlap>>
  BY DEF Decide
<1>3. PICK f \in Facts, waited \in Times : d = Select(seen, m, f, waited)
  BY <1>2 DEF Outcomes
<1>4. IF m.status = "finished" THEN d = Decision(Unknown, FALSE, {}) ELSE Sound(seen, d)
  BY <1>1, <1>3, SelectSound
<1>5. Proper(d.state) /\ d.failed \in BOOLEAN /\ d.tracking \in BOOLEAN
  <2>1. CASE m.status = "finished"
    <3>1. /\ Decision(Unknown, FALSE, {}).state = Unknown
          /\ Decision(Unknown, FALSE, {}).failed = FALSE
          /\ Decision(Unknown, FALSE, {}).tracking = FALSE
      BY DEF Decision
    <3> QED BY <1>4, <2>1, <3>1, MessageTypes DEF Proper
  <2>2. CASE m.status # "finished"
    BY <1>4, <2>2 DEF Sound
  <2> QED BY <2>1, <2>2
<1>6. /\ run'[g] = [Idle EXCEPT !.at = "select"]
      /\ \A h \in Runs \ {g} : run'[h] = run[h]
  BY <1>2
<1>7. /\ races'[r] = d.state
      /\ feed'[r] = IF d.failed THEN feed[r] ELSE d.tracking
      /\ \A q \in Races \ {r} : /\ races'[q] = races[q]
                                /\ feed'[q] = feed[q]
                                /\ placed'[q] = placed[q]
      /\ \A s \in Sides : placed'[r][s] = IF overlap \/ m.status = "finished" THEN 0
                                          ELSE IF s \in d.bets /\ placed[r][s] < 2
                                               THEN placed[r][s] + 1
                                          ELSE placed[r][s]
  BY <1>1, <1>2
<1>8. [Idle EXCEPT !.at = "select"] = [at |-> "select", msg |-> NoMessage, seen |-> Unknown]
  BY DEF Idle
<1>9. TypeOK'
  <2>1. races' \in [Races -> RaceStates] /\ feed' \in [Races -> BOOLEAN]
    BY <1>2, <1>5 DEF Proper
  <2>2. run' \in [Runs -> [at : {"done", "select", "deciding"}, msg : Messages,
                           seen : RaceStates]]
    BY <1>2, <1>8, MessageTypes
  <2>3. \A s \in Sides : placed[r][s] \in 0..2
    BY <1>1
  <2>4. [s \in Sides |-> IF overlap \/ m.status = "finished" THEN 0
                         ELSE IF s \in d.bets /\ placed[r][s] < 2 THEN placed[r][s] + 1
                         ELSE placed[r][s]] \in [Sides -> 0..2]
    BY <2>3
  <2>5. placed' \in [Races -> [Sides -> 0..2]]
    BY <1>1, <1>2, <2>4
  <2> QED BY <1>2, <2>1, <2>2, <2>5
<1>10. Served'
  BY <1>2, <1>6, <1>8 DEF Served
<1>11. Alone'
  <2> SUFFICES ASSUME ~overlap, NEW h \in Runs, run'[h].at = "deciding" PROVE FALSE
    BY <1>2 DEF Alone
  <2>1. h # g /\ run[h].at = "deciding"
    BY <1>6, <1>8
  <2>2. run[g].at = "deciding"
    BY DEF Decide
  <2> QED
    BY <2>1, <2>2 DEF Alone
<1>12. Remembered'
  <2>1. (\A q \in Races : Proper(races[q]'))
    BY <1>5, <1>7 DEF Remembered
  <2>2. (\A h \in Runs : Proper(run[h].seen'))
    BY <1>6, <1>8, MessageTypes DEF Remembered, Proper
  <2>3. ASSUME ~overlap, NEW q \in Races
        PROVE  /\ \A s \in Sides : placed'[q][s] \in {0, 1} /\ (placed'[q][s] = 1 => s \in races'[q].placed)
               /\ feed'[q] => races'[q].tracked /\ ~races'[q].ignore
    <3>1. CASE q # r
      BY <2>3, <3>1, <1>7 DEF Remembered
    <3>2. CASE q = r /\ m.status = "finished"
      BY <3>2, <1>4, <1>7 DEF Decision
    <3>3. CASE q = r /\ m.status # "finished"
      <4>1. seen = races[r]
        BY <2>3 DEF Alone, Decide
      <4>2. Sound(seen, d)
        BY <3>3, <1>4
      <4>3. /\ \A s \in Sides : placed[r][s] \in {0, 1} /\ (placed[r][s] = 1 => s \in seen.placed)
        BY <1>1, <2>3, <4>1 DEF Remembered
      <4>4. \A s \in Sides : placed'[r][s] = IF s \in d.bets THEN placed[r][s] + 1 ELSE placed[r][s]
        BY <2>3, <3>3, <1>7, <4>3
      <4>5. \A s \in Sides : s \in d.bets => placed[r][s] = 0
        BY <4>2, <4>3 DEF Sound
      <4>6. \A s \in Sides : placed'[r][s] \in {0, 1} /\ (placed'[r][s] = 1 => s \in races'[r].placed)
        BY <4>2, <4>3, <4>4, <4>5, <1>7 DEF Sound
      <4>7. feed'[r] => races'[r].tracked /\ ~races'[r].ignore
        BY <4>2, <1>7 DEF Sound
      <4> QED BY <3>3, <4>6, <4>7
    <3> QED BY <3>1, <3>2, <3>3
  <2> QED BY <1>2, <2>1, <2>2, <2>3 DEF Remembered
<1> QED BY <1>9, <1>10, <1>11, <1>12

LEMMA ReturnKeeps ==
  ASSUME IInv, NEW g \in Runs, Return(g)
  PROVE  IInv'
<1> USE DEF IInv, TypeOK, Return
<1>1. /\ run'[g] = [at |-> "done", msg |-> NoMessage, seen |-> Unknown]
      /\ \A h \in Runs \ {g} : run'[h] = run[h]
  BY DEF Idle
<1>2. TypeOK'
  BY MessageTypes DEF Idle
<1>3. Served' /\ Alone'
  BY <1>1 DEF Served, Alone
<1>4. Remembered'
  BY <1>1, MessageTypes DEF Remembered, Proper
<1> QED BY <1>2, <1>3, <1>4

\* The fan-out's two halves touch the inboxes only.
LEMMA FanOutKeeps ==
  ASSUME IInv,
         \/ \E p \in {Provider[r] : r \in Races} : Want(p)
         \/ \E m \in Messages : Send(m)
         \/ UNCHANGED vars
  PROVE  IInv'
<1>1. UNCHANGED <<running, run, live, races, feed, placed, overlap>>
  BY DEF Want, Wants, Send, vars
<1>2. /\ offered' \in SUBSET Providers /\ inbox' \in [Providers -> Seq(Messages)]
      /\ \A p \in Providers : Len(inbox'[p]) <= InboxSize
  <2>1. CASE \E p \in {Provider[r] : r \in Races} : Want(p)
    BY <2>1, StrategyAssumption DEF Want, Wants, IInv, TypeOK, Providers
  <2>2. ASSUME NEW m \in Messages, Send(m)
        PROVE  /\ offered' \in SUBSET Providers /\ inbox' \in [Providers -> Seq(Messages)]
               /\ \A p \in Providers : Len(inbox'[p]) <= InboxSize
    <3>1. Provider[m.race] \in Providers
      BY MessageTypes
    <3>2. Append(inbox[Provider[m.race]], m) \in Seq(Messages)
      BY <3>1 DEF IInv, TypeOK
    <3>3. offered' \in SUBSET Providers /\ inbox' \in [Providers -> Seq(Messages)]
      BY <2>2, <3>1, <3>2 DEF Send, IInv, TypeOK
    <3>4. ASSUME NEW p \in Providers PROVE Len(inbox'[p]) <= InboxSize
      <4>1. inbox[p] \in Seq(Messages) /\ Len(inbox[p]) <= InboxSize
        BY DEF IInv, TypeOK
      <4>2. Len(Append(inbox[p], m)) = Len(inbox[p]) + 1
        BY <4>1
      <4>3. inbox'[p] = inbox[p] \/ (inbox'[p] = Append(inbox[p], m) /\ Len(inbox[p]) < InboxSize)
        BY <2>2, <3>1 DEF Send, IInv, TypeOK
      <4> QED BY <4>1, <4>2, <4>3, ProcessAssumption
    <3> QED BY <3>3, <3>4
  <2>3. CASE UNCHANGED vars
    BY <2>3 DEF vars, IInv, TypeOK
  <2> QED BY <2>1, <2>2, <2>3
<1> QED BY <1>1, <1>2 DEF IInv, TypeOK, Served, Alone, Remembered

LEMMA NextIInv == IInv /\ [Next]_vars => IInv'
  BY StartKeeps, StopKeeps, ReceiveKeeps, DecideKeeps, ReturnKeeps, FanOutKeeps
  DEF Next, Step

LEMMA Invariance == Spec => []IInv
  BY InitIInv, NextIInv, PTL DEF Spec
\* The variables keep their types.
THEOREM TypeCorrect == Spec => []TypeOK
  BY Invariance, PTL DEF IInv

\* While the running flag is set one goroutine nobody has cancelled serves the inboxes,
\* and none is left behind when it is clear, through any stops and starts.
THEOREM RunningMeansServedInv == Spec => []RunningMeansServed
<1>1. IInv => RunningMeansServed
  BY FS_Singleton, FS_EmptySet DEF IInv, Served, RunningMeansServed
<1> QED BY <1>1, Invariance, PTL

\* No race is bet twice on a side before it finishes, whatever the feed delivers and
\* however the process is stopped and started, without two goroutines inside Select.
THEOREM BetOnceInv == Spec => []BetOnce
<1>1. IInv => BetOnce
  BY DEF IInv, Remembered, BetOnce
<1> QED BY <1>1, Invariance, PTL

\* The price feed was last told to follow only races the strategy follows.
THEOREM FeedFollowedInv == Spec => []FeedFollowed
<1>1. IInv => FeedFollowed
  BY DEF IInv, Remembered, FeedFollowed
<1> QED BY <1>1, Invariance, PTL
=============================================================================
