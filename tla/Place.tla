------------------------------- MODULE Place --------------------------------
(***************************************************************************)
(* Engine.Place, from an order to the request a bookmaker's client gets:   *)
(* engine/place.go, the arithmetic of engine/stake.go, and the check the   *)
(* Betfair client makes before it sends.  Every bet has a goroutine of its *)
(* own and an order of its own, so one order is the whole story.           *)
(*                                                                         *)
(* Prices and odds are cents, stakes and sizes cents, a unit tenths.       *)
(***************************************************************************)
EXTENDS Ticks

CONSTANTS
  Prices,  \* best prices in the book; 0 for an empty book
  Traded,  \* last traded prices
  MinOdds,
  MaxOdds, \* 0 for no maximum
  Stakes,  \* per side; 0 for none
  Units

ASSUME PlaceAssumption ==
  /\ Prices \subseteq 0..Cap
  /\ Traded \subseteq Nat
  /\ MinOdds \subseteq Nat
  /\ MaxOdds \subseteq Nat
  /\ Stakes \subseteq Nat
  /\ Units \subseteq Nat \ {0}

Sides == {"betmatic-win", "betfair-back", "betfair-lay"}

\* bound: the account has the session; found: the venue resolves for Betmatic, the
\* race, the runner and its selection for Betfair.
Orders == [side : Sides, bound : BOOLEAN, found : BOOLEAN, price : Prices, ltp : Traded,
           min : MinOdds, max : MaxOdds, stake : Stakes, unit : Units,
           mbl : BOOLEAN, metro : BOOLEAN]

VARIABLES
  order,
  request   \* what became of it

vars == <<order, request>>

Pending == [at |-> "pending", limit |-> 0, size |-> 0]
Skipped == [Pending EXCEPT !.at = "skipped"]

Init ==
  /\ order \in Orders
  /\ request = Pending

\* math.Round of a quotient.
Round(a, b) == (2 * a + b) \div (2 * b)

\* MBL bets the bookmaker's maximum, by track and code, whatever the stake.  A Betmatic
\* size is in tenths of a cent: a liability times a unit, not rounded.
GetLiability(isMetro, isHorse, mbl, lia) ==
  IF ~mbl THEN lia
  ELSE 100 * (IF isMetro THEN (IF isHorse THEN 2000 ELSE 1000)
              ELSE (IF isHorse THEN 1000 ELSE 500))

\* The best price is a price, within the scope's odds, and has traded above the least.
InRange(o) ==
  /\ o.price >= 101
  /\ o.price >= o.min
  /\ o.max > 0 => o.price <= o.max
  /\ o.ltp >= o.min

\* Mutants of LayLimit: the maximum rounded away from the price, and the factor of a
\* back.
LayLimitOverMax(o) ==
  LET limit == CeilToBetfairTick(11 * o.price)
  IN IF o.max > 0 /\ limit > o.max THEN CeilToBetfairTick(10 * o.max) ELSE limit

LayLimitOfBack(o) ==
  LET limit == CeilToBetfairTick(9 * o.price)
  IN IF o.max > 0 /\ limit > o.max THEN FloorToBetfairTick(10 * o.max) ELSE limit

LayLimit(o) ==
  LET limit == CeilToBetfairTick(11 * o.price)
  IN IF o.max > 0 /\ limit > o.max THEN FloorToBetfairTick(10 * o.max) ELSE limit

BackLimit(o) == FloorToBetfairTick(9 * o.price)

\* Whole dollars; a stake that comes to less than half of one is nothing.
LaySize(o) == 100 * Round(o.stake * o.unit, 1000)

\* What wins the stake, and a dollar at least.
BackSize(o) ==
  LET size == Round(10 * o.stake * o.unit, o.price - 100)
  IN IF size < 100 THEN 100 ELSE size

\* BSPBetRequest.Validate: the client refuses what it will not send.
Sent(limit, size) ==
  [at |-> IF size <= 0 \/ (limit # 0 /\ limit < 101) THEN "refused" ELSE "sent",
   limit |-> limit, size |-> size]

Staked(o) == o.stake > 0 \/ (o.side = "betmatic-win" /\ o.mbl)

Lays(o)  == InRange(o) /\ LayLimit(o) # 0 /\ LayLimit(o) >= o.price
\* Mutant of Backs: the limit is not held against the minimum.
BacksAnyLimit(o) == InRange(o) /\ BackLimit(o) # 0

Backs(o) == InRange(o) /\ BackLimit(o) # 0 /\ BackLimit(o) >= o.min

PlaceBetmatic ==
  /\ request = Pending
  /\ order.side = "betmatic-win"
  /\ Staked(order) /\ order.bound /\ order.found
  /\ request' = [Pending EXCEPT !.at = "sent",
       !.size = GetLiability(order.metro, TRUE, order.mbl, order.stake) * order.unit]
  /\ UNCHANGED order

PlaceLay ==
  /\ request = Pending
  /\ order.side = "betfair-lay"
  /\ Staked(order) /\ order.bound /\ order.found
  /\ Lays(order)
  /\ request' = Sent(LayLimit(order), LaySize(order))
  /\ UNCHANGED order

PlaceBack ==
  /\ request = Pending
  /\ order.side = "betfair-back"
  /\ Staked(order) /\ order.bound /\ order.found
  /\ Backs(order)
  /\ request' = Sent(BackLimit(order), BackSize(order))
  /\ UNCHANGED order

Skip ==
  /\ request = Pending
  /\ \/ ~(Staked(order) /\ order.bound /\ order.found)
     \/ order.side = "betfair-lay" /\ ~Lays(order)
     \/ order.side = "betfair-back" /\ ~Backs(order)
  /\ request' = Skipped
  /\ UNCHANGED order

Next == PlaceBetmatic \/ PlaceLay \/ PlaceBack \/ Skip

Spec == Init /\ [][Next]_vars

-----------------------------------------------------------------------------
(* Properties *)

TypeOK ==
  /\ order \in Orders
  /\ request \in [at : {"pending", "skipped", "sent", "refused"}, limit : Nat, size : Nat]

Laid   == order.side = "betfair-lay" /\ request.at \in {"sent", "refused"}
Backed == order.side = "betfair-back" /\ request.at \in {"sent", "refused"}

\* "Every value the tick helpers return is handed straight to betfair as an order
\* price, so landing between ticks is a rejected bet": no limit is off the ladder, and
\* none is zero, which to the client means no limit at all.
LimitIsTick == Laid \/ Backed => IsTick(request.limit)

\* For a lay: not under the best price nor over the scope's maximum; short of that
\* maximum, the first tick from 1.1 times the price.
LayLimitFair ==
  Laid =>
    /\ request.limit >= order.price
    /\ order.max > 0 => request.limit <= order.max
    /\ IF 11 * order.price > 10 * Cap THEN request.limit = Cap \/ request.limit <= order.max
       ELSE \/ LeastTick(request.limit, 11 * order.price)
            \/ /\ order.max > 0
               /\ GreatestTick(request.limit, 10 * order.max)
               /\ 10 * request.limit < 11 * order.price

\* For a back: not under the scope's minimum, the last tick up to 0.9 times the price.
BackLimitFair ==
  Backed =>
    /\ request.limit >= order.min
    /\ GreatestTick(request.limit, 9 * order.price)

\* A lay never pays out at odds above the scope's maximum, a back never accepts odds
\* under its minimum, and each limit is the tick next to the factor placeBetfair means.
LimitFair == LayLimitFair /\ BackLimitFair

\* "A lay limit must never come back tighter than the price asked for, or the rounding
\* itself would cost matches": a lay no maximum caps is skipped for its odds, never for
\* what rounding made of them.
LayNotLost ==
  /\ order.side = "betfair-lay" /\ order.max = 0 /\ InRange(order)
  /\ request.at = "skipped"
  => ~(Staked(order) /\ order.bound /\ order.found)

\* The client refuses a request only for a lay that rounds to nothing.
OnlyDustRefused ==
  request.at = "refused" => Laid /\ order.stake * order.unit < 500
=============================================================================
