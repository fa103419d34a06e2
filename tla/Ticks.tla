------------------------------- MODULE Ticks --------------------------------
(***************************************************************************)
(* The price ladder of engine/stake.go.  Prices are whole cents, what is   *)
(* rounded to the ladder tenths of a cent: the engine rounds 0.9 and 1.1   *)
(* times a price in cents, and a price.  On those the 1e-9 lift of the     *)
(* code undoes the error of its binary floats, so integers are exact.      *)
(***************************************************************************)
EXTENDS Integers

Cap   == 100000
Bands == 1..7
Limit == <<600, 1000, 2000, 3000, 5000, 10000, 100000>>
Step  == <<10, 20, 50, 100, 200, 500, 1000>>

Anchor(i) == IF i = 1 THEN 100 ELSE Limit[i - 1]

\* The first band of the ladder whose limit is above, or not below, the price.
BandBelow(cents) == CHOOSE i \in Bands : cents < Limit[i] /\ \A j \in 1..(i - 1) : cents >= Limit[j]
BandUpTo(cents)  == CHOOSE i \in Bands : cents <= Limit[i] /\ \A j \in 1..(i - 1) : cents > Limit[j]

\* Mutant of FloorToBetfairTick: the 1.00 below the ladder counts as a price.
FloorBelowLadder(t) ==
  LET cents == t \div 10
      i == BandBelow(cents)
  IN IF cents >= Cap THEN Cap ELSE Anchor(i) + ((cents - Anchor(i)) \div Step[i]) * Step[i]

\* Below the first anchor Go's division truncates and \div floors: under 1.01 either way.
FloorToBetfairTick(t) ==
  LET cents == t \div 10
      i == BandBelow(cents)
      floored == Anchor(i) + ((cents - Anchor(i)) \div Step[i]) * Step[i]
  IN IF cents >= Cap THEN Cap
     ELSE IF floored < 101 THEN 0
     ELSE floored

CeilToBetfairTick(t) ==
  LET cents == (t + 9) \div 10
      i == BandUpTo(cents)
  IN IF cents < 101 THEN 0
     ELSE IF cents >= Cap THEN Cap
     ELSE Anchor(i) + ((cents - Anchor(i) + Step[i] - 1) \div Step[i]) * Step[i]

-----------------------------------------------------------------------------
(* What the two are for, said without them. *)

\* The prices of the ladder, 1.10 to 1000.
IsTick(c) ==
  /\ c > 100
  /\ \E i \in Bands : Anchor(i) <= c /\ c <= Limit[i] /\ (c - Anchor(i)) % Step[i] = 0

GreatestTick(c, t) == IsTick(c) /\ 10 * c <= t /\ \A d \in (c + 1)..(t \div 10) : ~IsTick(d)
LeastTick(c, t)    == IsTick(c) /\ 10 * c >= t /\ \A d \in ((t + 9) \div 10)..(c - 1) : ~IsTick(d)
=============================================================================
