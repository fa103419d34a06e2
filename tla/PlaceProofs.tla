---------------------------- MODULE PlaceProofs -----------------------------
(***************************************************************************)
(* The tick helpers round to the ladder in the right direction, to the     *)
(* nearest tick, for every price; so whatever the book, the odds and the   *)
(* stakes, the limit of an order is a tick on the safe side.               *)
(***************************************************************************)
EXTENDS Place, TLAPS

\* The ladder as numbers: every band starts where the one before ends.
LEMMA LadderValues ==
  /\ Anchor(1) = 100   /\ Limit[1] = 600    /\ Step[1] = 10
  /\ Anchor(2) = 600   /\ Limit[2] = 1000   /\ Step[2] = 20
  /\ Anchor(3) = 1000  /\ Limit[3] = 2000   /\ Step[3] = 50
  /\ Anchor(4) = 2000  /\ Limit[4] = 3000   /\ Step[4] = 100
  /\ Anchor(5) = 3000  /\ Limit[5] = 5000   /\ Step[5] = 200
  /\ Anchor(6) = 5000  /\ Limit[6] = 10000  /\ Step[6] = 500
  /\ Anchor(7) = 10000 /\ Limit[7] = 100000 /\ Step[7] = 1000
  BY DEF Anchor, Limit, Step

LEMMA BandCases == \A i \in Bands : i \in {1, 2, 3, 4, 5, 6, 7}
  BY DEF Bands

LEMMA BandBelowIs ==
  ASSUME NEW cents \in Int, cents < Cap
  PROVE  /\ BandBelow(cents) \in Bands
         /\ cents < Limit[BandBelow(cents)]
         /\ BandBelow(cents) = 1 \/ cents >= Anchor(BandBelow(cents))
<1> DEFINE P(i) == cents < Limit[i] /\ \A j \in 1..(i - 1) : cents >= Limit[j]
<1>1. \E i \in Bands : P(i)
  BY LadderValues DEF Bands, Cap
<1>2. BandBelow(cents) \in Bands /\ P(BandBelow(cents))
  BY <1>1 DEF BandBelow
<1> QED BY <1>2, LadderValues, BandCases DEF Anchor
LEMMA BandUpToIs ==
  ASSUME NEW cents \in Int, cents <= Cap
  PROVE  /\ BandUpTo(cents) \in Bands
         /\ cents <= Limit[BandUpTo(cents)]
         /\ BandUpTo(cents) = 1 \/ cents > Anchor(BandUpTo(cents))
<1> DEFINE P(i) == cents <= Limit[i] /\ \A j \in 1..(i - 1) : cents > Limit[j]
<1>1. \E i \in Bands : P(i)
  BY LadderValues DEF Bands, Cap
<1>2. BandUpTo(cents) \in Bands /\ P(BandUpTo(cents))
  BY <1>1 DEF BandUpTo
<1> QED BY <1>2, LadderValues, BandCases DEF Anchor

\* No tick lies strictly between two that are a step of their band apart.
LEMMA NoTickBetween ==
  ASSUME NEW i \in Bands, NEW k \in Nat, NEW d \in Int,
         d > Anchor(i) + k * Step[i], d < Anchor(i) + (k + 1) * Step[i],
         Anchor(i) + (k + 1) * Step[i] <= Limit[i]
  PROVE  ~IsTick(d)
<1> SUFFICES ASSUME NEW j \in Bands, Anchor(j) <= d, d <= Limit[j], (d - Anchor(j)) % Step[j] = 0
             PROVE  FALSE
  BY DEF IsTick
<1>1. j = i
  BY LadderValues, BandCases
<1>2. PICK s \in {10, 20, 50, 100, 200, 500, 1000} : s = Step[i]
  BY LadderValues, BandCases
<1>3. /\ d - Anchor(i) \in Int
      /\ d - Anchor(i) > k * s /\ d - Anchor(i) < (k + 1) * s
  BY <1>2, LadderValues, BandCases
<1>4. (d - Anchor(i)) % s = 0
  BY <1>1, <1>2
<1> QED BY <1>2, <1>3, <1>4
\* A step of a band ends on the ladder: at a tick, unless it is the 1.00 below it.
LEMMA StepIsTick ==
  ASSUME NEW i \in Bands, NEW k \in Nat, Anchor(i) + k * Step[i] <= Limit[i],
         Anchor(i) + k * Step[i] > 100
  PROVE  IsTick(Anchor(i) + k * Step[i])
<1>1. PICK s \in {10, 20, 50, 100, 200, 500, 1000} : s = Step[i]
  BY LadderValues, BandCases
<1>2. (k * s) % s = 0
  BY <1>1
<1>3. Anchor(i) \in Nat
  BY LadderValues, BandCases
<1>4. (Anchor(i) + k * Step[i]) - Anchor(i) = k * s
  BY <1>1, <1>3
<1>5. Anchor(i) <= Anchor(i) + k * Step[i]
  BY <1>1, <1>3
<1>6. ((Anchor(i) + k * Step[i]) - Anchor(i)) % Step[i] = 0
  BY <1>1, <1>2, <1>4
<1> QED BY <1>5, <1>6 DEF IsTick

\* Nothing above the cap is on the ladder, and the cap is.
LEMMA CapIsLast == IsTick(Cap) /\ \A d \in Int : d > Cap => ~IsTick(d)
<1>1. IsTick(Anchor(7) + 90 * Step[7])
  <2>1. 7 \in Bands /\ Anchor(7) + 90 * Step[7] <= Limit[7] /\ Anchor(7) + 90 * Step[7] > 100
    BY LadderValues DEF Bands
  <2> QED BY <2>1, StepIsTick
<1>2. Anchor(7) + 90 * Step[7] = Cap
  BY LadderValues DEF Cap
<1>3. ASSUME NEW i \in Bands PROVE Limit[i] \in Int /\ Limit[i] <= Cap
  BY LadderValues, BandCases DEF Cap
<1> QED BY <1>1, <1>2, <1>3 DEF IsTick, Cap

\* FloorToBetfairTick returns the last tick up to its argument, or nothing when there
\* is none.
LEMMA FloorRounds ==
  ASSUME NEW t \in Nat
  PROVE  /\ FloorToBetfairTick(t) \in Nat
         /\ FloorToBetfairTick(t) = 0 \/ GreatestTick(FloorToBetfairTick(t), t)
<1> DEFINE cents == t \div 10
           i == BandBelow(cents)
           s == Step[i]
           k == (cents - Anchor(i)) \div s
           f == Anchor(i) + k * s
<1>1. cents \in Nat /\ 10 * cents <= t
  OBVIOUS
<1>2. CASE cents >= Cap
  <2>1. FloorToBetfairTick(t) = Cap
    BY <1>2 DEF FloorToBetfairTick
  <2>2. GreatestTick(Cap, t)
    BY <1>1, <1>2, CapIsLast DEF GreatestTick, Cap
  <2> QED BY <2>1, <2>2 DEF Cap
<1>3. CASE cents < Cap
  <2>1. i \in Bands /\ cents < Limit[i] /\ (i = 1 \/ cents >= Anchor(i))
    BY <1>1, <1>3, BandBelowIs
  <2>2. FloorToBetfairTick(t) = IF f < 101 THEN 0 ELSE f
    BY <1>1, <1>3 DEF FloorToBetfairTick, Cap
  <2> HIDE DEF i, cents
  <2>3. /\ k \in Int /\ f \in Int
        /\ f <= cents /\ cents < Anchor(i) + (k + 1) * s
        /\ Anchor(i) + (k + 1) * s <= Limit[i]
        /\ f > 100 => k \in Nat
    BY <1>1, <2>1, LadderValues, BandCases
  <2>4. CASE f < 101
    BY <2>2, <2>4
  <2>5. CASE f >= 101
    <3>1. k \in Nat /\ Anchor(i) + k * Step[i] <= Limit[i]
      BY <2>1, <2>3, <2>5, <1>1, LadderValues, BandCases
    <3>2. IsTick(f)
      BY <2>1, <2>5, <2>3, <3>1, StepIsTick
    <3>3. \A d \in (f + 1)..cents : ~IsTick(d)
      <4> SUFFICES ASSUME NEW d \in Int, d > f, d <= cents PROVE ~IsTick(d)
        BY <1>1, <2>3 DEF cents
      <4>1. d > Anchor(i) + k * Step[i] /\ d < Anchor(i) + (k + 1) * Step[i]
        BY <1>1, <2>1, <2>3, LadderValues, BandCases DEF cents
      <4>2. Anchor(i) + (k + 1) * Step[i] <= Limit[i]
        BY <2>3
      <4> HIDE DEF k
      <4> QED BY <2>1, <3>1, <4>1, <4>2, NoTickBetween
    <3>4. 10 * f <= t
      BY <1>1, <2>3
    <3> QED BY <2>2, <2>3, <2>5, <3>2, <3>3, <3>4 DEF GreatestTick, cents
  <2> QED BY <2>3, <2>4, <2>5
<1> QED BY <1>1, <1>2, <1>3 DEF Cap

\* CeilToBetfairTick returns the first tick from its argument, or the last there is.
LEMMA CeilRounds ==
  ASSUME NEW t \in Nat
  PROVE  /\ CeilToBetfairTick(t) \in Nat
         /\ t > 1000 /\ t <= 10 * Cap => LeastTick(CeilToBetfairTick(t), t)
         /\ t > 10 * Cap => CeilToBetfairTick(t) = Cap
<1> DEFINE cents == (t + 9) \div 10
           i == BandUpTo(cents)
           s == Step[i]
           k == (cents - Anchor(i) + s - 1) \div s
           f == Anchor(i) + k * s
<1>1. cents \in Nat /\ 10 * cents >= t /\ 10 * cents < t + 10
  OBVIOUS
<1>2. CASE cents < 101
  BY <1>1, <1>2 DEF CeilToBetfairTick, Cap
<1>3. CASE cents >= Cap
  <2>1. CeilToBetfairTick(t) = Cap
    BY <1>3 DEF CeilToBetfairTick, Cap
  <2>2. t <= 10 * Cap => cents = Cap
    BY <1>1, <1>3 DEF Cap
  <2>3. t <= 10 * Cap => LeastTick(Cap, t)
    BY <1>1, <2>2, CapIsLast DEF LeastTick, Cap
  <2> QED BY <2>1, <2>3 DEF Cap
<1>4. CASE cents >= 101 /\ cents < Cap
  <2>1. i \in Bands /\ cents <= Limit[i] /\ (i = 1 \/ cents > Anchor(i))
    BY <1>1, <1>4, BandUpToIs DEF Cap
  <2>2. CeilToBetfairTick(t) = f
    BY <1>1, <1>4 DEF CeilToBetfairTick, Cap
  <2>3. t <= 10 * Cap
    BY <1>1, <1>4 DEF Cap
  <2> HIDE DEF i, cents
  <2>4. /\ k \in Nat /\ k > 0 /\ f \in Nat
        /\ f >= cents /\ cents > Anchor(i) + (k - 1) * s
        /\ f <= Limit[i]
    BY <1>1, <1>4, <2>1, LadderValues, BandCases
  <2>5. IsTick(f)
    <3>1. Anchor(i) + k * Step[i] <= Limit[i] /\ Anchor(i) + k * Step[i] > 100 /\ k \in Nat
      BY <1>1, <1>4, <2>1, <2>4, LadderValues, BandCases
    <3> HIDE DEF k
    <3> QED BY <2>1, <3>1, StepIsTick
  <2>6. \A d \in cents..(f - 1) : ~IsTick(d)
    <3> DEFINE m == k - 1
    <3>1. m \in Nat /\ m + 1 = k
      BY <2>4
    <3> HIDE DEF m
    <3>2. /\ cents > Anchor(i) + m * Step[i]
          /\ f = Anchor(i) + (m + 1) * Step[i]
      BY <2>4, <3>1 DEF m
    <3> SUFFICES ASSUME NEW d \in Int, d >= cents, d < f PROVE ~IsTick(d)
      BY <1>1, <2>4 DEF cents
    <3>3. d > Anchor(i) + m * Step[i] /\ d < Anchor(i) + (m + 1) * Step[i]
      BY <1>1, <2>1, <2>4, <3>1, <3>2, LadderValues, BandCases DEF cents
    <3>4. Anchor(i) + (m + 1) * Step[i] <= Limit[i]
      BY <2>4, <3>1
    <3> QED BY <2>1, <3>1, <3>3, <3>4, NoTickBetween
  <2>7. 10 * f >= t
    BY <1>1, <2>4
  <2>8. f \in Nat
    BY <2>4
  <2>9. LeastTick(f, t)
    <3> USE DEF cents
    <3>1. \A d \in ((t + 9) \div 10)..(f - 1) : ~IsTick(d)
      BY <2>6
    <3> HIDE DEF f, cents
    <3> QED BY <2>5, <2>7, <3>1 DEF LeastTick
  <2>10. ~(t > 10 * Cap)
    BY <2>3 DEF Cap
  <2> HIDE DEF s, k, f
  <2> QED BY <2>2, <2>8, <2>9, <2>10
<1> QED BY <1>1, <1>2, <1>3, <1>4 DEF Cap

(***************************************************************************)
(* Placement.                                                              *)
(***************************************************************************)

LEMMA OrderFields ==
  ASSUME NEW o \in Orders
  PROVE  /\ o.price \in Nat /\ o.price <= Cap /\ o.min \in Nat /\ o.max \in Nat
         /\ o.stake \in Nat /\ o.unit \in Nat
         /\ o.mbl \in BOOLEAN /\ o.metro \in BOOLEAN
<1>1. /\ o.price \in Prices /\ o.min \in MinOdds /\ o.max \in MaxOdds
      /\ o.stake \in Stakes /\ o.unit \in Units
      /\ o.mbl \in BOOLEAN /\ o.metro \in BOOLEAN
  BY DEF Orders
<1>2. o.price \in Nat /\ o.price <= Cap
  <2>1. o.price \in 0..Cap
    BY <1>1, PlaceAssumption
  <2>2. ASSUME NEW n \in Nat, NEW c \in 0..n PROVE c \in Nat /\ c <= n
    OBVIOUS
  <2>3. Cap \in Nat
    BY DEF Cap
  <2> QED BY <2>1, <2>2, <2>3
<1>3. o.min \in Nat /\ o.max \in Nat /\ o.stake \in Nat
  BY <1>1, PlaceAssumption
<1>4. o.unit \in Nat
  <2>1. o.unit \in Nat \ {0}
    BY <1>1, PlaceAssumption
  <2> QED BY <2>1
<1> QED BY <1>1, <1>2, <1>3, <1>4

\* Rounding a quotient of naturals gives one.
LEMMA RoundType ==
  ASSUME NEW a \in Nat, NEW b \in Nat, b > 0
  PROVE  Round(a, b) \in Nat
  BY DEF Round

\* What the two limits are, whatever the order.
LEMMA Limits ==
  ASSUME NEW o \in Orders
  PROVE  /\ BackLimit(o) \in Nat
         /\ BackLimit(o) = 0 \/ GreatestTick(BackLimit(o), 9 * o.price)
         /\ LayLimit(o) \in Nat
         /\ o.price >= 101 /\ LayLimit(o) # 0 =>
              /\ IsTick(LayLimit(o))
              /\ o.max > 0 => LayLimit(o) <= o.max
              /\ IF 11 * o.price > 10 * Cap THEN LayLimit(o) = Cap \/ LayLimit(o) <= o.max
                 ELSE \/ LeastTick(LayLimit(o), 11 * o.price)
                      \/ /\ o.max > 0
                         /\ GreatestTick(LayLimit(o), 10 * o.max)
                         /\ 10 * LayLimit(o) < 11 * o.price
<1> DEFINE ceil == CeilToBetfairTick(11 * o.price)
           floor == FloorToBetfairTick(10 * o.max)
<1>1. o.price \in Nat /\ o.max \in Nat /\ 9 * o.price \in Nat /\ 11 * o.price \in Nat
      /\ 10 * o.max \in Nat
  BY OrderFields
<1>2. BackLimit(o) \in Nat /\ (BackLimit(o) = 0 \/ GreatestTick(BackLimit(o), 9 * o.price))
  BY <1>1, FloorRounds DEF BackLimit
<1>3. /\ ceil \in Nat
      /\ 11 * o.price > 1000 /\ 11 * o.price <= 10 * Cap => LeastTick(ceil, 11 * o.price)
      /\ 11 * o.price > 10 * Cap => ceil = Cap
  BY <1>1, CeilRounds
<1>4. floor \in Nat /\ (floor = 0 \/ GreatestTick(floor, 10 * o.max))
  BY <1>1, FloorRounds
<1>5. LayLimit(o) = IF o.max > 0 /\ ceil > o.max THEN floor ELSE ceil
  BY DEF LayLimit
<1> HIDE DEF ceil, floor
<1>6. ASSUME o.price >= 101, LayLimit(o) # 0, o.max > 0, ceil > o.max
      PROVE  /\ GreatestTick(LayLimit(o), 10 * o.max)
             /\ LayLimit(o) <= o.max
             /\ 11 * o.price <= 10 * Cap => 10 * LayLimit(o) < 11 * o.price
  <2>1. LayLimit(o) = floor /\ GreatestTick(floor, 10 * o.max)
    BY <1>4, <1>5, <1>6
  <2>2. 10 * floor <= 10 * o.max
    BY <2>1 DEF GreatestTick
  <2>3. floor <= o.max
    BY <2>2, <1>1, <1>4
  <2>4. ASSUME 11 * o.price <= 10 * Cap PROVE 10 * floor < 11 * o.price
    <3> SUFFICES ASSUME 10 * floor >= 11 * o.price PROVE FALSE
      BY <1>1, <1>4
    <3>1. LeastTick(ceil, 11 * o.price)
      BY <1>1, <1>3, <1>6, <2>4
    <3>2. floor >= (11 * o.price + 9) \div 10
      BY <1>1, <1>4
    <3>3. floor <= ceil - 1
      BY <1>1, <1>3, <1>4, <1>6, <2>3
    <3>4. IsTick(floor)
      BY <2>1 DEF GreatestTick
    <3> QED BY <1>1, <1>3, <1>4, <3>1, <3>2, <3>3, <3>4 DEF LeastTick
  <2> QED BY <2>1, <2>3, <2>4
<1>7. ASSUME o.price >= 101, LayLimit(o) # 0, ~(o.max > 0 /\ ceil > o.max)
      PROVE  /\ LayLimit(o) = ceil
             /\ o.max > 0 => LayLimit(o) <= o.max
             /\ IsTick(ceil)
             /\ 11 * o.price <= 10 * Cap => LeastTick(ceil, 11 * o.price)
             /\ 11 * o.price > 10 * Cap => ceil = Cap
  <2>1. 11 * o.price > 1000
    BY <1>1, <1>7
  <2>2. LayLimit(o) = ceil
    BY <1>5, <1>7
  <2>3. 11 * o.price <= 10 * Cap => LeastTick(ceil, 11 * o.price)
    BY <1>3, <2>1
  <2>4. 11 * o.price > 10 * Cap => ceil = Cap
    BY <1>3
  <2>5. IsTick(ceil)
    <3>1. CASE 11 * o.price <= 10 * Cap
      BY <2>3, <3>1 DEF LeastTick
    <3>2. CASE 11 * o.price > 10 * Cap
      BY <2>4, <3>2, CapIsLast
    <3> QED BY <3>1, <3>2, <1>1 DEF Cap
  <2>6. o.max > 0 => ceil <= o.max
    BY <1>1, <1>3, <1>7
  <2> QED BY <2>2, <2>3, <2>4, <2>5, <2>6
<1>8. LayLimit(o) \in Nat
  BY <1>3, <1>4, <1>5
<1>9. ASSUME o.price >= 101, LayLimit(o) # 0, o.max > 0, ceil > o.max
      PROVE  IsTick(LayLimit(o))
  BY <1>6, <1>9 DEF GreatestTick
<1>10. (o.max > 0 /\ ceil > o.max) \/ ~(o.max > 0 /\ ceil > o.max)
  OBVIOUS
<1>11. ASSUME o.price >= 101, LayLimit(o) # 0
       PROVE  /\ IsTick(LayLimit(o))
              /\ o.max > 0 => LayLimit(o) <= o.max
              /\ IF 11 * o.price > 10 * Cap THEN LayLimit(o) = Cap \/ LayLimit(o) <= o.max
                 ELSE \/ LeastTick(LayLimit(o), 11 * o.price)
                      \/ /\ o.max > 0
                         /\ GreatestTick(LayLimit(o), 10 * o.max)
                         /\ 10 * LayLimit(o) < 11 * o.price
  <2>1. 11 * o.price > 10 * Cap \/ 11 * o.price <= 10 * Cap
    BY <1>1 DEF Cap
  <2>2. CASE o.max > 0 /\ ceil > o.max
    BY <1>6, <1>9, <1>11, <2>1, <2>2
  <2>3. CASE ~(o.max > 0 /\ ceil > o.max)
    BY <1>7, <1>11, <2>1, <2>3
  <2> QED BY <2>2, <2>3
<1> QED BY <1>2, <1>8, <1>11

\* Sizes are natural numbers.
LEMMA SizeTypes ==
  ASSUME NEW o \in Orders
  PROVE  /\ LaySize(o) \in Nat
         /\ o.price >= 101 => BackSize(o) \in Nat
         /\ GetLiability(o.metro, TRUE, o.mbl, o.stake) * o.unit \in Nat
<1> DEFINE x == o.stake * o.unit
<1>1. x \in Nat
  BY OrderFields
<1>2. LaySize(o) \in Nat
  <2> HIDE DEF x
  <2>1. Round(x, 1000) \in Nat
    BY <1>1, RoundType
  <2> QED BY <2>1 DEF LaySize, x
<1>3. ASSUME o.price >= 101 PROVE BackSize(o) \in Nat
  <2>1. 10 * o.stake * o.unit \in Nat /\ o.price - 100 \in Nat /\ o.price - 100 > 0
    BY <1>3, OrderFields
  <2>2. Round(10 * o.stake * o.unit, o.price - 100) \in Nat
    BY <2>1, RoundType
  <2> QED BY <2>2 DEF BackSize
<1>4. GetLiability(o.metro, TRUE, o.mbl, o.stake) \in Nat
  BY OrderFields DEF GetLiability
<1>5. GetLiability(o.metro, TRUE, o.mbl, o.stake) * o.unit \in Nat
  <2> DEFINE lia == GetLiability(o.metro, TRUE, o.mbl, o.stake)
  <2> HIDE DEF lia
  <2>1. lia \in Nat => lia * o.unit \in Nat
    BY OrderFields
  <2> QED BY <1>4, <2>1 DEF lia
<1> QED BY <1>2, <1>3, <1>5

(***************************************************************************)
(* The inductive invariant.  A request is what its order determines, so    *)
(* what the lemmas say of every order holds of every request.              *)
(***************************************************************************)
LayRequest ==
  Laid =>
    /\ InRange(order) /\ LayLimit(order) # 0 /\ LayLimit(order) >= order.price
    /\ request.limit = LayLimit(order)

BackRequest ==
  Backed =>
    /\ InRange(order) /\ BackLimit(order) # 0 /\ BackLimit(order) >= order.min
    /\ request.limit = BackLimit(order)

\* A refusal is for a size or for a limit; a lay was skipped for a reason.
Refusal ==
  /\ Laid => request.size = LaySize(order)
  /\ Backed => request.size = BackSize(order)
  /\ request.at = "refused" =>
       /\ Laid \/ Backed
       /\ request.size <= 0 \/ request.limit < 101

LaySkipped ==
  order.side = "betfair-lay" /\ request.at = "skipped" =>
    ~(Staked(order) /\ order.bound /\ order.found) \/ ~Lays(order)

IInv == TypeOK /\ LayRequest /\ BackRequest /\ Refusal /\ LaySkipped

LEMMA Invariance == Spec => []IInv
<1>1. Init => IInv
  BY DEF Init, IInv, TypeOK, LayRequest, BackRequest, Refusal, LaySkipped, Laid, Backed, Pending
<1>2. IInv /\ [Next]_vars => IInv'
  <2> SUFFICES ASSUME IInv, [Next]_vars PROVE IInv'
    OBVIOUS
  <2>0. order \in Orders /\ InRange(order) => order.price >= 101
    BY DEF InRange
  <2>a. order \in Orders
    BY DEF IInv, TypeOK
  <2>1. CASE PlaceBetmatic
    <3>1. GetLiability(order.metro, TRUE, order.mbl, order.stake) * order.unit \in Nat
      BY <2>a, SizeTypes
    <3>2. TypeOK'
      BY <2>1, <2>a, <3>1 DEF PlaceBetmatic, TypeOK, Pending
    <3>3. order' = order /\ order.side = "betmatic-win" /\ request'.at = "sent"
      BY <2>1 DEF PlaceBetmatic, Pending
    <3> QED BY <3>2, <3>3 DEF IInv, LayRequest, BackRequest, Refusal, LaySkipped, Laid, Backed
  <2>2. CASE PlaceLay
    <3>1. LayLimit(order) \in Nat /\ LaySize(order) \in Nat
      BY <2>a, Limits, SizeTypes
    <3>2. TypeOK'
      BY <2>2, <2>a, <3>1 DEF PlaceLay, Sent, TypeOK
    <3>3. order' = order /\ request'.limit = LayLimit(order) /\ order.side = "betfair-lay"
          /\ InRange(order) /\ LayLimit(order) # 0 /\ LayLimit(order) >= order.price
      BY <2>2 DEF PlaceLay, Sent, Lays
    <3>4. LayRequest'
      BY <3>3 DEF LayRequest, Laid, InRange, LayLimit
    <3>5. BackRequest'
      BY <3>3 DEF BackRequest, Backed
    <3>6. Refusal' /\ LaySkipped'
      <4>1. request' = Sent(LayLimit(order), LaySize(order)) /\ order.side = "betfair-lay"
        BY <2>2 DEF PlaceLay
      <4>2. LaySize(order)' = LaySize(order)
        BY <3>3 DEF LaySize
      <4>3. request'.at \in {"sent", "refused"} /\ request'.size = LaySize(order)
            /\ (request'.at = "refused" => request'.size <= 0 \/ request'.limit < 101)
        BY <4>1 DEF Sent
      <4> QED BY <3>3, <4>1, <4>2, <4>3 DEF Refusal, LaySkipped, Laid, Backed
    <3> QED BY <3>2, <3>4, <3>5, <3>6 DEF IInv
  <2>3. CASE PlaceBack
    <3>1. BackLimit(order) \in Nat /\ BackSize(order) \in Nat
      BY <2>3, <2>a, <2>0, Limits, SizeTypes DEF PlaceBack, Backs
    <3>2. TypeOK'
      BY <2>3, <2>a, <3>1 DEF PlaceBack, Sent, TypeOK
    <3>3. order' = order /\ request'.limit = BackLimit(order) /\ order.side = "betfair-back"
          /\ InRange(order) /\ BackLimit(order) # 0 /\ BackLimit(order) >= order.min
      BY <2>3 DEF PlaceBack, Sent, Backs
    <3>4. BackRequest'
      BY <3>3 DEF BackRequest, Backed, InRange, BackLimit
    <3>5. LayRequest'
      BY <3>3 DEF LayRequest, Laid
    <3>6. Refusal' /\ LaySkipped'
      <4>1. request' = Sent(BackLimit(order), BackSize(order)) /\ order.side = "betfair-back"
        BY <2>3 DEF PlaceBack
      <4>2. BackSize(order)' = BackSize(order)
        BY <3>3 DEF BackSize
      <4>3. request'.at \in {"sent", "refused"} /\ request'.size = BackSize(order)
            /\ (request'.at = "refused" => request'.size <= 0 \/ request'.limit < 101)
        BY <4>1 DEF Sent
      <4> QED BY <3>3, <4>1, <4>2, <4>3 DEF Refusal, LaySkipped, Laid, Backed
    <3> QED BY <3>2, <3>4, <3>5, <3>6 DEF IInv
  <2>4. CASE Skip
    <3>1. order' = order /\ request' = Skipped
      BY <2>4 DEF Skip
    <3>2. LaySkipped'
      BY <2>4 DEF Skip, LaySkipped, Staked, Lays, InRange, LayLimit
    <3> QED BY <3>1, <3>2, <2>a DEF IInv, TypeOK, Skipped, Pending, LayRequest, BackRequest,
       Refusal, Laid, Backed
  <2>5. CASE UNCHANGED vars
    BY <2>5 DEF vars, IInv, TypeOK, LayRequest, BackRequest, Refusal, LaySkipped, Laid, Backed,
       InRange,
                LayLimit, BackLimit, LaySize, BackSize, Staked, Lays
  <2> QED BY <2>1, <2>2, <2>3, <2>4, <2>5 DEF Next
<1> QED BY <1>1, <1>2, PTL DEF Spec

LEMMA LimitsFollow == IInv => LimitIsTick /\ LimitFair
<1> SUFFICES ASSUME IInv PROVE LimitIsTick /\ LayLimitFair /\ BackLimitFair
  BY DEF LimitFair
<1>1. order \in Orders /\ order.price \in Nat
  BY OrderFields DEF IInv, TypeOK
<1>2. ASSUME Laid
      PROVE  /\ IsTick(request.limit)
             /\ LayLimitFair
  <2>1. order.price >= 101 /\ LayLimit(order) # 0 /\ LayLimit(order) >= order.price
        /\ request.limit = LayLimit(order)
    BY <1>2 DEF IInv, LayRequest, InRange
  <2> QED BY <1>1, <2>1, Limits DEF LayLimitFair
<1>3. ASSUME Backed
      PROVE  /\ IsTick(request.limit)
             /\ BackLimitFair
  <2>1. /\ BackLimit(order) # 0 /\ BackLimit(order) >= order.min
        /\ request.limit = BackLimit(order)
    BY <1>3 DEF IInv, BackRequest
  <2>2. GreatestTick(BackLimit(order), 9 * order.price)
    BY <1>1, <2>1, Limits
  <2> QED BY <2>1, <2>2 DEF BackLimitFair, GreatestTick
<1> QED BY <1>2, <1>3 DEF LimitIsTick, LayLimitFair, BackLimitFair

\* Uncapped, the limit of a lay is never under its price: rounding up from 1.1 times a price
\* of the ladder stays at or above it, up to the cap.
LEMMA NotLost == IInv => LayNotLost
<1> SUFFICES ASSUME IInv, order.side = "betfair-lay", order.max = 0, InRange(order),
                    request.at = "skipped", Staked(order) /\ order.bound /\ order.found
             PROVE  FALSE
  BY DEF LayNotLost
<1>1. ~Lays(order)
  BY DEF IInv, LaySkipped
<1>2. order.price \in Nat /\ order.price <= Cap /\ order.price >= 101
  BY OrderFields DEF IInv, TypeOK, InRange
<1> DEFINE ceil == CeilToBetfairTick(11 * order.price)
<1>3. LayLimit(order) = ceil
  BY DEF LayLimit
<1>4. 11 * order.price \in Nat /\ 11 * order.price > 1000
  BY <1>2
<1>5. /\ ceil \in Nat
      /\ 11 * order.price <= 10 * Cap => LeastTick(ceil, 11 * order.price)
      /\ 11 * order.price > 10 * Cap => ceil = Cap
  BY <1>4, CeilRounds
<1> HIDE DEF ceil
<1>6. ceil >= order.price
  <2>1. LeastTick(ceil, 11 * order.price) => 10 * ceil >= 11 * order.price
    BY DEF LeastTick
  <2> QED BY <1>2, <1>5, <2>1 DEF Cap
<1>7. Lays(order)
  BY <1>2, <1>3, <1>5, <1>6 DEF Lays
<1> QED BY <1>1, <1>7

\* A limit is at least the price of a lay, or a tick: 1.01 or more.  So what is refused is
\* refused for its size, and a back has a dollar at least.
LEMMA RefusedIsDust == IInv => OnlyDustRefused
<1> SUFFICES ASSUME IInv, request.at = "refused"
             PROVE  Laid /\ order.stake * order.unit < 500
  BY DEF OnlyDustRefused
<1>1. order \in Orders /\ order.price \in Nat
  BY OrderFields DEF IInv, TypeOK
<1>2. request.size <= 0 \/ request.limit < 101
  BY DEF IInv, Refusal
<1>3. CASE Laid
  <2>1. request.size = LaySize(order) /\ request.limit >= 101
    <3>1. InRange(order) /\ LayLimit(order) >= order.price /\ request.limit = LayLimit(order)
      BY <1>3 DEF IInv, LayRequest
    <3>2. LayLimit(order) \in Nat
      BY <1>1, Limits
    <3> QED BY <1>1, <1>3, <3>1, <3>2 DEF IInv, Refusal, InRange
  <2>2. request.limit \in Nat
    BY DEF IInv, TypeOK
  <2>3. LaySize(order) <= 0
    BY <1>2, <2>1, <2>2
  <2> DEFINE x == order.stake * order.unit
  <2>4. x \in Nat
    BY <1>1, OrderFields
  <2>5. 100 * Round(x, 1000) <= 0
    BY <2>3 DEF LaySize
  <2> HIDE DEF x
  <2>6. x < 500
    BY <2>4, <2>5 DEF Round
  <2> QED BY <1>3, <2>6 DEF x
<1>4. CASE Backed
  <2>1. /\ BackLimit(order) # 0 /\ request.limit = BackLimit(order)
        /\ request.size = BackSize(order) /\ order.price >= 101
    BY <1>4 DEF IInv, BackRequest, Refusal, InRange
  <2>2. BackSize(order) \in Nat
    BY <1>1, <2>1, SizeTypes
  <2>3. BackSize(order) >= 100
    <3>1. \A n \in Int : (IF n < 100 THEN 100 ELSE n) >= 100
      OBVIOUS
    <3>2. 10 * order.stake * order.unit \in Nat /\ order.price - 100 \in Nat /\ order.price - 100 > 0
      BY <1>1, <2>1, OrderFields
    <3>3. Round(10 * order.stake * order.unit, order.price - 100) \in Nat
      BY <3>2, RoundType
    <3> QED BY <3>1, <3>3 DEF BackSize
  <2>4. BackLimit(order) \in Nat /\ BackLimit(order) >= 101
    <3>1. IsTick(BackLimit(order)) /\ BackLimit(order) \in Nat
      BY <1>1, <2>1, Limits DEF GreatestTick
    <3>2. BackLimit(order) > 100
      BY <3>1 DEF IsTick
    <3> QED BY <3>1, <3>2
  <2> QED BY <1>2, <2>1, <2>2, <2>3, <2>4
<1> QED BY <1>3, <1>4 DEF IInv, Refusal

-----------------------------------------------------------------------------
(* The order and its request have their types, for every book, scope and stake. *)
THEOREM TypeCorrect == Spec => []TypeOK
<1>1. IInv => TypeOK
  BY DEF IInv
<1> QED BY <1>1, Invariance, PTL

(* No order goes out at a price off the ladder: engine/place.go hands the client only  *)
(* what the tick helpers returned, whatever the book.                                  *)
THEOREM LimitIsTickInv == Spec => []LimitIsTick
  BY Invariance, LimitsFollow, PTL

(* The limit of every order is the tick next to what placeBetfair means, on the side   *)
(* the scope's odds ask for: the cap never lets a lay through above the maximum, nor   *)
(* the check a back under the minimum.                                                 *)
THEOREM LimitFairInv == Spec => []LimitFair
  BY Invariance, LimitsFollow, PTL

(* Rounding loses no lay: one that no maximum caps and whose price the scope admits is *)
(* never skipped by placeBetfair's last check.                                         *)
THEOREM LayNotLostInv == Spec => []LayNotLost
  BY Invariance, NotLost, PTL

(* BSPBetRequest.Validate refuses only lays of less than half a dollar, for every      *)
(* price, stake and unit.                                                              *)
THEOREM OnlyDustRefusedInv == Spec => []OnlyDustRefused
  BY Invariance, RefusedIsDust, PTL
=============================================================================
