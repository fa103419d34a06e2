-------------------------------- MODULE Ring --------------------------------
(***************************************************************************)
(* The ring of logger/ring.go: a slice written round and round, and the    *)
(* copy recent takes of it.  add, and the copy recent takes, hold the same *)
(* lock: each is one step.                                                 *)
(***************************************************************************)
EXTENDS Integers, Sequences

CONSTANTS Lines,     \* what may be logged
          Level,     \* the level each is logged at
          RingLevel, \* Config.Ring.Level
          Empty,     \* the zero Record
          Size       \* Config.Ring.size(), never 0

ASSUME RingAssumption ==
  /\ Level \in [Lines -> Int] /\ RingLevel \in Int
  /\ Empty \notin Lines
  /\ Size \in Nat \ {0}

\* Bets have a level of their own, between info and warn, and never reach the ring.
LevelBet == 2
Kept == {l \in Lines : Level[l] # LevelBet /\ Level[l] >= RingLevel}

VARIABLES buf,  \* slots 0..Size-1
          next, \* where the next record goes
          full  \* every slot has been written

ringVars == <<buf, next, full>>

newRing ==
  /\ buf = [i \in 0..Size-1 |-> Empty]
  /\ next = 0
  /\ full = FALSE

add(r) ==
  /\ buf' = [buf EXCEPT ![next] = r]
  /\ next' = IF next + 1 = Size THEN 0 ELSE next + 1
  /\ full' = (full \/ next + 1 = Size)

RingSpec == newRing /\ [][\E r \in Kept : add(r)]_ringVars

\* Mutant: the copy runs from slot 0 on, wherever the oldest record is.
SnapshotUnrotated == [i \in 1..(IF full THEN Size ELSE next) |-> buf[i - 1]]

\* The copy, oldest first: from next on and round, or what was written so far.
Snapshot ==
  LET rest == Size - next
  IN IF full THEN [i \in 1..Size |-> IF i <= rest THEN buf[next + i - 1] ELSE buf[i - rest - 1]]
             ELSE [i \in 1..next |-> buf[i - 1]]

RingTypeOK ==
  /\ buf \in [0..Size-1 -> Kept \cup {Empty}]
  /\ next \in 0..Size-1 /\ full \in BOOLEAN
  /\ \A i \in 0..Size-1 : (full \/ i < next) => buf[i] \in Kept

Held == INSTANCE RecentLog WITH held <- Snapshot

\* The ring is the last Size records kept, in order, however often it has wrapped: every add
\* moves the copy recent takes exactly as the promise says (ring.go, add and recent).
Recency == Held!Spec
=============================================================================
