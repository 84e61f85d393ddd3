-------------------------- MODULE PoolRounds_proofs --------------------------
(***************************************************************************)
(* Proofs about the rounds of a pool, for every ruleset that the loader    *)
(* accepts and every input a caller may send.  TypeOK is inductive by      *)
(* itself, and the bounds of the boost are with it; what a row promises    *)
(* follows from the types of the state it was made in.                     *)
(***************************************************************************)
EXTENDS PoolRounds, CommonFacts

-----------------------------------------------------------------------------
(* Products.                                                               *)

LEMMA ProductNat ==
  ASSUME NEW a \in Nat, NEW b \in Nat
  PROVE  a * b \in Nat
  OBVIOUS

LEMMA ProductPositive ==
  ASSUME NEW a \in Nat \ {0}, NEW b \in Nat \ {0}
  PROVE  a * b \in Nat \ {0}
  OBVIOUS

LEMMA ProductOrder ==
  ASSUME NEW a \in Nat, NEW b \in Int, NEW c \in Int, b <= c
  PROVE  a * b <= a * c
  OBVIOUS

-----------------------------------------------------------------------------
(* The boost.                                                              *)

Boost == [num : Nat, den : Nat \ {0}]

LEMMA FadedFraction ==
  ASSUME NEW u \in Nat, NEW dir \in {-1, 0, 1}
  PROVE  /\ Faded(u, dir)[1] \in Nat
         /\ Faded(u, dir)[2] \in Nat \ {0}
         /\ Faded(u, dir)[1] <= Faded(u, dir)[2]
<1> DEFINE lo == ULow + dir * Hyst
           hi == UHigh + dir * Hyst
<1>1. lo \in Int /\ hi \in Int
  BY PoolAssumption
<1>2. Faded(u, dir) = IF u <= lo THEN <<0, 1>> ELSE IF u >= hi THEN <<1, 1>>
                      ELSE <<u - lo, hi - lo>>
  BY DEF Faded
<1> HIDE DEF lo, hi
<1>3. CASE u <= lo
  BY <1>2, <1>3
<1>4. CASE ~(u <= lo) /\ u >= hi
  BY <1>2, <1>4
<1>5. CASE ~(u <= lo) /\ ~(u >= hi)
  BY <1>1, <1>2, <1>5
<1> QED
  BY <1>3, <1>4, <1>5

LEMMA DirectionType ==
  ASSUME TypeOK, NEW u \in Nat
  PROVE  Direction(u) \in {-1, 0, 1}
  BY DEF TypeOK, BoostState, Direction

\* The part of the schedule a round walks to.
Part(in) == IF ThinPlateau /\ Thin(in) THEN <<0, 1>>
            ELSE Faded(in.trail, Direction(in.trail))

Aim(in) == BMax * Part(in)[2] - (BMax - Scale) * Part(in)[1]

LEMMA AimWithin ==
  ASSUME TypeOK, NEW in \in Input
  PROVE  /\ Part(in)[1] \in Nat
         /\ Part(in)[2] \in Nat \ {0}
         /\ Part(in)[1] <= Part(in)[2]
         /\ Aim(in) \in Int
         /\ Scale * Part(in)[2] <= Aim(in)
         /\ Aim(in) <= BMax * Part(in)[2]
<1>1. in.trail \in Nat
  BY DEF Input
<1>2. /\ Part(in)[1] \in Nat
      /\ Part(in)[2] \in Nat \ {0}
      /\ Part(in)[1] <= Part(in)[2]
  BY <1>1, DirectionType, FadedFraction DEF Part
<1> DEFINE f1 == Part(in)[1]
           f2 == Part(in)[2]
           fall == BMax - Scale
<1>3. fall \in Nat /\ BMax \in Nat /\ Scale \in Nat
  BY PoolAssumption
<1>4. Aim(in) = BMax * f2 - fall * f1
  BY DEF Aim
<1>5. BMax * f2 - fall * f2 = Scale * f2
  BY <1>2, <1>3
<1> HIDE DEF f1, f2, fall
<1>6. f1 \in Nat /\ f2 \in Nat \ {0} /\ f1 <= f2
  BY <1>2 DEF f1, f2
<1>7. fall * f1 \in Nat /\ fall * f1 <= fall * f2
  BY <1>3, <1>6, ProductNat, ProductOrder
<1>8. BMax * f2 \in Nat /\ fall * f2 \in Nat
  BY <1>3, <1>6, ProductNat
<1>9. Aim(in) \in Int /\ Scale * f2 <= Aim(in) /\ Aim(in) <= BMax * f2
  BY <1>3, <1>4, <1>5, <1>6, <1>7, <1>8
<1> QED
  BY <1>2, <1>9 DEF f1, f2

LEMMA SteppedShape ==
  ASSUME NEW in \in Input
  PROVE  Stepped(in) =
           IF Conditional
           THEN [num |-> (SmoothDen - SmoothNum) * boost.applied * Part(in)[2]
                           + SmoothNum * Aim(in),
                 den |-> SmoothDen * Part(in)[2]]
           ELSE [num |-> BMax, den |-> 1]
  BY DEF Stepped, Part, Aim

LEMMA SteppedType ==
  ASSUME TypeOK, NEW in \in Input
  PROVE  Stepped(in) \in Boost
<1> DEFINE f2 == Part(in)[2]
           stay == SmoothDen - SmoothNum
<1>1. f2 \in Nat \ {0} /\ Aim(in) \in Int /\ Scale * f2 <= Aim(in)
  BY AimWithin
<1>2. /\ stay \in Nat /\ SmoothNum \in Nat /\ SmoothDen \in Nat \ {0}
      /\ Scale \in Nat /\ BMax \in Nat
  BY PoolAssumption
<1>3. boost.applied \in Nat
  BY DEF TypeOK, BoostState
<1> HIDE DEF f2, stay
<1>4. Aim(in) \in Nat
  BY <1>1, <1>2, ProductNat
<1>5. stay * boost.applied * f2 \in Nat /\ SmoothNum * Aim(in) \in Nat
  BY <1>1, <1>2, <1>3, <1>4, ProductNat
<1>6. SmoothDen * f2 \in Nat \ {0}
  BY <1>1, <1>2, ProductPositive
<1>7. stay * boost.applied * f2 + SmoothNum * Aim(in) \in Nat
  BY <1>5
<1>8. CASE Conditional
  <2>1. Stepped(in) = [num |-> stay * boost.applied * f2 + SmoothNum * Aim(in),
                       den |-> SmoothDen * f2]
    BY <1>8, SteppedShape DEF f2, stay
  <2> QED
    BY <2>1, <1>6, <1>7 DEF Boost
<1>9. CASE ~Conditional
  BY <1>2, <1>9, SteppedShape DEF Boost
<1> QED
  BY <1>8, <1>9

\* A weighted mean of two boosts within bounds is within them.
LEMMA SteppedWithin ==
  ASSUME TypeOK, BoostWithinBounds, NEW in \in Input
  PROVE  /\ Scale * Stepped(in).den <= Stepped(in).num
         /\ Stepped(in).num <= BMax * Stepped(in).den
<1> DEFINE f2 == Part(in)[2]
           stay == SmoothDen - SmoothNum
           a == boost.applied
<1>1. f2 \in Nat \ {0} /\ Aim(in) \in Int /\ Scale * f2 <= Aim(in) /\ Aim(in) <= BMax * f2
  BY AimWithin
<1>2. /\ stay \in Nat /\ SmoothNum \in Nat /\ SmoothDen \in Nat
      /\ Scale \in Nat /\ BMax \in Nat /\ Scale <= BMax
      /\ stay + SmoothNum = SmoothDen
  BY PoolAssumption
<1>3. a \in Nat /\ Scale <= a /\ a <= BMax
  BY DEF TypeOK, BoostState, BoostWithinBounds
<1>4. CASE Conditional
  <2>1. Stepped(in) = [num |-> stay * a * f2 + SmoothNum * Aim(in),
                       den |-> SmoothDen * f2]
    BY <1>4, SteppedShape
  <2> HIDE DEF f2, stay, a
  <2>2. /\ SmoothNum * (Scale * f2) <= SmoothNum * Aim(in)
        /\ SmoothNum * Aim(in) <= SmoothNum * (BMax * f2)
    BY <1>1, <1>2, ProductOrder
  <2>3. stay * f2 \in Nat
    BY <1>1, <1>2, ProductNat
  <2>4. /\ (stay * f2) * Scale <= (stay * f2) * a
        /\ (stay * f2) * a <= (stay * f2) * BMax
    BY <1>2, <1>3, <2>3, ProductOrder
  <2>5. /\ (stay * f2) * a = stay * a * f2
        /\ (stay * f2) * Scale + SmoothNum * (Scale * f2) = Scale * ((stay + SmoothNum) * f2)
        /\ (stay * f2) * BMax + SmoothNum * (BMax * f2) = BMax * ((stay + SmoothNum) * f2)
    BY <1>1, <1>2, <1>3
  <2>6. /\ Scale * (SmoothDen * f2) <= stay * a * f2 + SmoothNum * Aim(in)
        /\ stay * a * f2 + SmoothNum * Aim(in) <= BMax * (SmoothDen * f2)
    <3> DEFINE x1 == (stay * f2) * Scale
               x2 == SmoothNum * (Scale * f2)
               y1 == stay * a * f2
               y2 == SmoothNum * Aim(in)
               z1 == (stay * f2) * BMax
               z2 == SmoothNum * (BMax * f2)
    <3>1. x1 \in Int /\ x2 \in Int /\ y1 \in Int /\ y2 \in Int /\ z1 \in Int /\ z2 \in Int
      BY <1>1, <1>2, <1>3
    <3>2. x1 <= y1 /\ y1 <= z1 /\ x2 <= y2 /\ y2 <= z2
      BY <2>2, <2>4, <2>5
    <3>3. x1 + x2 = Scale * (SmoothDen * f2) /\ z1 + z2 = BMax * (SmoothDen * f2)
      BY <1>2, <2>5
    <3> HIDE DEF x1, x2, y1, y2, z1, z2
    <3>4. x1 + x2 <= y1 + y2 /\ y1 + y2 <= z1 + z2
      BY <3>1, <3>2
    <3> QED
      BY <3>3, <3>4 DEF y1, y2
  <2> QED
    BY <2>1, <2>6
<1>5. CASE ~Conditional
  BY <1>2, <1>5, SteppedShape
<1> QED
  BY <1>4, <1>5

LEMMA StepBoostType ==
  ASSUME TypeOK, NEW in \in Input
  PROVE  StepBoost(in) \in BoostState
<1>1. Stepped(in).num \in Nat /\ Stepped(in).den \in Nat \ {0}
  BY SteppedType DEF Boost
<1>2. HalfEven(Stepped(in).num, Stepped(in).den) \in Nat
  BY <1>1, HalfEvenNat
<1>3. in.trail \in Nat
  BY DEF Input
<1> QED
  BY <1>2, <1>3, DirectionType DEF StepBoost, BoostState

-----------------------------------------------------------------------------
(* Reserve, supply, cap and posted base.                                   *)

LEMMA HeldType ==
  ASSUME TypeOK
  PROVE  Held \in Boost
  BY DEF TypeOK, BoostState, Held, Boost

LEMMA CheapestBoxIs ==
  ASSUME NEW boxes \in SUBSET (Nat \X Nat), boxes # {}
  PROVE  /\ CheapestBox(boxes) \in {x[2] : x \in boxes}
         /\ CheapestBox(boxes) \in Nat
<1> DEFINE S == {x[2] : x \in boxes}
<1>1. S \in SUBSET Nat /\ S # {}
  OBVIOUS
<1>2. PICK r \in S : \A y \in S : r <= y
  BY <1>1, LeastOf
<1>3. r \in S /\ \A x \in boxes : r <= x[2]
  BY <1>2
<1>4. CheapestBox(boxes) \in S
  BY <1>3 DEF CheapestBox
<1> QED
  BY <1>1, <1>4

LEMMA FloorReserveNat ==
  ASSUME NEW q \in FloorQuote, NEW b \in Boost
  PROVE  FloorReserve(q, b) \in Nat
<1> DEFINE n == q.cents * b.num + q.fixed * Scale * b.den
           d == Scale * b.den * (100 - q.fee)
<1>1. /\ q.cents \in Nat /\ q.fixed \in Nat /\ q.fee \in 0..99
      /\ b.num \in Nat /\ b.den \in Nat \ {0} /\ Scale \in Nat \ {0}
  BY PoolAssumption DEF FloorQuote, Boost
<1>2. q.cents * b.num \in Nat /\ q.fixed * Scale \in Nat
  BY <1>1, ProductNat
<1>3. q.fixed * Scale * b.den \in Nat
  BY <1>1, <1>2, ProductNat
<1>4. 100 * n \in Nat
  BY <1>2, <1>3
<1>5. Scale * b.den \in Nat \ {0} /\ 100 - q.fee \in Nat \ {0}
  BY <1>1, ProductPositive
<1>6. d \in Nat \ {0}
  BY <1>5, ProductPositive
<1>7. FloorReserve(q, b) = Ceil(100 * n, d)
  BY DEF FloorReserve
<1> HIDE DEF n, d
<1> QED
  BY <1>4, <1>6, <1>7, CeilReaches

LEMMA ReserveNat ==
  ASSUME NEW q \in Quote, NEW b \in Boost
  PROVE  Reserve(q, b) \in Nat
<1>1. CASE q \in RequestQuote
  BY <1>1 DEF RequestQuote, Reserve
<1>2. CASE q \in FloorQuote
  <2>1. q.source = "floor"
    BY <1>2 DEF FloorQuote
  <2>2. Reserve(q, b) = FloorReserve(q, b)
    BY <2>1 DEF Reserve
  <2> QED
    BY <1>2, <2>2, FloorReserveNat
<1>3. CASE q \in TierQuote
  <2>1. q.source = "tiers" /\ q.boxes \in SUBSET (Nat \X Nat) /\ q.boxes # {}
    BY <1>3 DEF TierQuote
  <2>2. Reserve(q, b) = CheapestBox(q.boxes)
    BY <2>1 DEF Reserve
  <2> QED
    BY <2>1, <2>2, CheapestBoxIs
<1> QED
  BY <1>1, <1>2, <1>3 DEF Quote

LEMMA TiersAreFinite ==
  ASSUME NEW q \in Quote, q.source = "tiers"
  PROVE  q.boxes \in SUBSET (Nat \X Nat) /\ IsFiniteSet(q.boxes) /\ q.boxes # {}
  BY DEF Quote, RequestQuote, FloorQuote, TierQuote

LEMMA SupplyNat ==
  ASSUME NEW q \in Quote, NEW price \in Nat
  PROVE  SupplyAt(q, price) \in Nat
<1>1. CASE q.source = "tiers"
  <2>1. IsFiniteSet({x \in q.boxes : x[2] <= price})
    BY <1>1, TiersAreFinite, FS_Subset
  <2>2. Cardinality({x \in q.boxes : x[2] <= price}) \in Nat
    BY <2>1, FS_CardinalityType
  <2> QED
    BY <1>1, <2>2 DEF SupplyAt
<1>2. CASE q.source # "tiers"
  BY <1>2 DEF Quote, RequestQuote, FloorQuote, TierQuote, SupplyAt
<1> QED
  BY <1>1, <1>2

LEMMA CorridorCapIs ==
  ASSUME NEW reserve \in Nat, NEW median \in Nat \cup {NoMedian}
  PROVE  CorridorCap(reserve, median) \in Nat /\ CorridorCap(reserve, median) >= reserve
<1> DEFINE spike == Kappa * reserve
           shocked == HalfEven(LambdaNum * median, LambdaDen)
<1>1. spike \in Nat
  BY PoolAssumption, ProductNat
<1>2. CASE median = NoMedian
  BY <1>1, <1>2 DEF CorridorCap, AtLeast
<1>3. CASE median # NoMedian
  <2>1. LambdaNum * median \in Nat /\ LambdaDen \in Nat \ {0}
    BY <1>3, PoolAssumption, ProductNat
  <2>2. shocked \in Nat
    BY <2>1, HalfEvenNat
  <2>3. CorridorCap(reserve, median) = AtLeast(AtLeast(spike, shocked), reserve)
    BY <1>3 DEF CorridorCap
  <2> HIDE DEF spike, shocked
  <2> QED
    BY <1>1, <2>2, <2>3 DEF AtLeast
<1> QED
  BY <1>2, <1>3

LEMMA PostedIs ==
  ASSUME TypeOK, NEW in \in Input, NEW reserve \in Nat, NEW degraded \in BOOLEAN
  PROVE  Posted(in, reserve, degraded) \in Nat /\ Posted(in, reserve, degraded) >= reserve
  BY DEF TypeOK, Posted, AtLeast

LEMMA RowIs ==
  ASSUME TypeOK, NEW in \in Input, NEW reserve \in Nat, NEW degraded \in BOOLEAN
  PROVE  LET r == Row(in, reserve, degraded)
         IN /\ r \in PoolRow
            /\ r.in = in /\ r.reserve = reserve /\ r.degraded = degraded
            /\ r.posted = Posted(in, reserve, degraded)
            /\ r.posted >= r.reserve
            /\ r.cap >= r.reserve
            /\ r.supply = SupplyAt(in.quote, r.posted)
<1> DEFINE p == Posted(in, reserve, degraded)
           c == CorridorCap(reserve, in.median)
           v == SupplyAt(in.quote, p)
<1>1. in.quote \in Quote /\ in.median \in Nat \cup {NoMedian}
  BY DEF Input
<1>2. p \in Nat /\ p >= reserve
  BY PostedIs
<1>3. c \in Nat /\ c >= reserve
  BY <1>1, CorridorCapIs
<1>4. v \in Nat
  BY <1>1, <1>2, SupplyNat
<1>5. Row(in, reserve, degraded) =
        [in |-> in, reserve |-> reserve, posted |-> p, cap |-> c, supply |-> v,
         degraded |-> degraded]
  BY DEF Row
<1> HIDE DEF p, c, v
<1> QED
  BY <1>2, <1>3, <1>4, <1>5 DEF PoolRow, p, v

-----------------------------------------------------------------------------
(* The controller.                                                         *)

LEMMA ClampWithin ==
  ASSUME NEW v \in Int, NEW lo \in Nat, NEW hi \in Nat, lo <= hi
  PROVE  /\ Clamp(v, lo, hi) \in Nat
         /\ lo <= Clamp(v, lo, hi) /\ Clamp(v, lo, hi) <= hi
         /\ Clamp(v, lo, hi) = v \/ (v < lo /\ Clamp(v, lo, hi) = lo)
              \/ (v > hi /\ Clamp(v, lo, hi) = hi)
  BY DEF Clamp

Gap(demand, supply) ==
  (IF demand < supply THEN demand ELSE supply) * TargetDen - TargetNum * supply

Room(demand, supply) ==
  IF Gap(demand, supply) < 0 THEN TargetNum * supply ELSE (TargetDen - TargetNum) * supply

LEMMA RoomPositive ==
  ASSUME NEW demand \in Nat, NEW supply \in Nat \ {0}
  PROVE  Gap(demand, supply) \in Int /\ Room(demand, supply) \in Nat \ {0}
<1>1. TargetNum \in Nat \ {0} /\ TargetDen \in Nat /\ TargetDen - TargetNum \in Nat \ {0}
  BY PoolAssumption
<1>2. TargetNum * supply \in Nat \ {0} /\ (TargetDen - TargetNum) * supply \in Nat \ {0}
  BY <1>1, ProductPositive
<1>3. (IF demand < supply THEN demand ELSE supply) * TargetDen \in Nat
  BY <1>1, ProductNat
<1> QED
  BY <1>2, <1>3 DEF Gap, Room

\* The exact next base is a fraction.
StepDen(demand, supply) == DeltaDen * Room(demand, supply)
StepNum(b, demand, supply) == b * (StepDen(demand, supply) + DeltaNum * Gap(demand, supply))

LEMMA StepBaseIs ==
  ASSUME NEW b \in Nat, NEW demand \in Nat, NEW supply \in Nat \ {0},
         NEW reserve \in Nat, NEW cap \in Nat, cap >= reserve
  PROVE  /\ HalfEven(StepNum(b, demand, supply), StepDen(demand, supply)) \in Int
         /\ StepBase(b, demand, supply, reserve, cap)
              = Clamp(HalfEven(StepNum(b, demand, supply), StepDen(demand, supply)), reserve, cap)
<1> DEFINE room == Room(demand, supply)
           gap == Gap(demand, supply)
           n == b * (DeltaDen * room + DeltaNum * gap)
           d == DeltaDen * room
<1>1. gap \in Int /\ room \in Nat \ {0}
  BY RoomPositive
<1>2. DeltaNum \in Nat /\ DeltaDen \in Nat \ {0}
  BY PoolAssumption
<1>3. StepBase(b, demand, supply, reserve, cap) = Clamp(HalfEven(n, d), reserve, AtLeast(cap, reserve))
  BY DEF StepBase, Gap, Room
<1>4. AtLeast(cap, reserve) = cap
  BY DEF AtLeast
<1> HIDE DEF room, gap
<1>5. d \in Nat \ {0}
  BY <1>1, <1>2, ProductPositive
<1>6. n \in Int
  BY <1>1, <1>2
<1> HIDE DEF n, d
<1>7. HalfEven(n, d) \in Int
  BY <1>5, <1>6, HalfEvenInt
<1>8. n = StepNum(b, demand, supply) /\ d = StepDen(demand, supply)
  BY DEF n, d, gap, room, StepNum, StepDen
<1> QED
  BY <1>3, <1>4, <1>7, <1>8

LEMMA UpdateBaseIs ==
  ASSUME NEW in \in Input, NEW posted \in Nat, NEW reserve \in Nat, NEW cap \in Nat,
         NEW supply \in Nat, posted >= reserve, cap >= reserve
  PROVE  LET b == UpdateBase(in, posted, reserve, cap, supply)
         IN /\ b \in Nat
            /\ b >= reserve
            /\ ~Thin(in) /\ supply > 0 => b <= cap
<1>1. in.demand \in Nat
  BY DEF Input
<1>2. CASE Thin(in)
  BY <1>2 DEF UpdateBase
<1>3. CASE ~Thin(in) /\ supply = 0
  BY <1>3 DEF UpdateBase, AtLeast
<1>4. CASE ~Thin(in) /\ supply # 0
  <2>1. UpdateBase(in, posted, reserve, cap, supply)
          = StepBase(posted, in.demand, supply, reserve, cap)
    BY <1>4 DEF UpdateBase
  <2>2. PICK v \in Int : StepBase(posted, in.demand, supply, reserve, cap) = Clamp(v, reserve, cap)
    <3>1. supply \in Nat \ {0}
      BY <1>4
    <3> QED
      BY <1>1, <3>1, StepBaseIs
  <2>3. /\ Clamp(v, reserve, cap) \in Nat
        /\ reserve <= Clamp(v, reserve, cap) /\ Clamp(v, reserve, cap) <= cap
    BY ClampWithin
  <2>4. UpdateBase(in, posted, reserve, cap, supply) = Clamp(v, reserve, cap)
    BY <2>1, <2>2
  <2> QED
    BY <2>3, <2>4
<1> QED
  BY <1>2, <1>3, <1>4

-----------------------------------------------------------------------------
(* The ema.                                                                *)

LEMMA LaggedNat ==
  ASSUME TypeOK
  PROVE  Lagged \in Nat
  BY DEF TypeOK, Lagged

LEMMA UpdateEmaWithin ==
  ASSUME TypeOK, NEW posted \in Nat
  PROVE  /\ UpdateEma(posted) \in Nat
         /\ \A lo \in Nat : lo <= posted /\ lo <= Lagged => lo <= UpdateEma(posted)
         /\ \A hi \in Nat : posted <= hi /\ Lagged <= hi => UpdateEma(posted) <= hi
<1> DEFINE l == Lagged
           keep == AlphaDen - AlphaNum
           n == AlphaNum * posted + keep * l
<1>1. /\ AlphaNum \in Nat /\ AlphaDen \in Nat \ {0} /\ keep \in Nat /\ l \in Nat
      /\ AlphaNum + keep = AlphaDen
  BY PoolAssumption, LaggedNat
<1>2. UpdateEma(posted) = HalfEven(n, AlphaDen)
  BY DEF UpdateEma
<1> HIDE DEF l, keep
<1>3. AlphaNum * posted \in Nat /\ keep * l \in Nat /\ n \in Nat
  BY <1>1, ProductNat
<1>4. UpdateEma(posted) \in Nat
  BY <1>1, <1>2, <1>3, HalfEvenNat
<1>5. ASSUME NEW lo \in Nat, lo <= posted, lo <= l
      PROVE  lo * AlphaDen <= n
  <2>1. AlphaNum * lo <= AlphaNum * posted /\ keep * lo <= keep * l
    BY <1>1, <1>5, ProductOrder
  <2>2. lo * AlphaDen = AlphaNum * lo + keep * lo
    BY <1>1
  <2>3. AlphaNum * lo \in Nat /\ keep * lo \in Nat
    BY <1>1, ProductNat
  <2> QED
    BY <1>3, <2>1, <2>2, <2>3
<1>6. ASSUME NEW hi \in Nat, posted <= hi, l <= hi
      PROVE  n <= hi * AlphaDen
  <2>1. AlphaNum * posted <= AlphaNum * hi /\ keep * l <= keep * hi
    BY <1>1, <1>6, ProductOrder
  <2>2. hi * AlphaDen = AlphaNum * hi + keep * hi
    BY <1>1
  <2>3. AlphaNum * hi \in Nat /\ keep * hi \in Nat
    BY <1>1, ProductNat
  <2> QED
    BY <1>3, <2>1, <2>2, <2>3
<1> HIDE DEF n
<1>7. \A lo \in Nat : lo <= posted /\ lo <= l => lo <= HalfEven(n, AlphaDen)
  <2> TAKE lo \in Nat
  <2> HAVE lo <= posted /\ lo <= l
  <2>1. lo * AlphaDen <= n
    BY <1>5
  <2>2. \E hi \in Int : n <= hi * AlphaDen
    <3>1. n <= n * AlphaDen
      BY <1>1, <1>3
    <3> QED
      BY <1>3, <3>1
  <2> QED
    BY <1>1, <1>3, <2>1, <2>2, HalfEvenBetween
<1>8. \A hi \in Nat : posted <= hi /\ l <= hi => HalfEven(n, AlphaDen) <= hi
  <2> TAKE hi \in Nat
  <2> HAVE posted <= hi /\ l <= hi
  <2>1. n <= hi * AlphaDen
    BY <1>6
  <2>2. 0 * AlphaDen <= n
    BY <1>1, <1>3
  <2> QED
    BY <1>1, <1>3, <2>1, <2>2, HalfEvenBetween
<1> QED
  BY <1>2, <1>4, <1>7, <1>8 DEF l

-----------------------------------------------------------------------------
(* What a round does, in one place.                                        *)

LEMMA RoundIs ==
  ASSUME TypeOK, NEW in \in Inputs, Round(in)
  PROVE  /\ row' \in PoolRow /\ row'.in = in /\ row'.degraded = FALSE
         /\ row'.posted >= row'.reserve /\ row'.cap >= row'.reserve
         /\ row'.supply = SupplyAt(in.quote, row'.posted)
         /\ base' \in Nat /\ base' >= row'.reserve
         /\ ~Thin(in) /\ row'.supply > 0 => base' <= row'.cap
         /\ base' = UpdateBase(in, row'.posted, row'.reserve, row'.cap, row'.supply)
         /\ boost' = StepBoost(in)
         /\ ema' = UpdateEma(row'.posted)
         /\ row'.reserve = Reserve(in.quote, Stepped(in))
<1>1. in \in Input /\ in.quote \in Quote
  BY PoolAssumption DEF Input
<1>2. Reserve(in.quote, Stepped(in)) \in Nat
  BY <1>1, SteppedType, ReserveNat
<1>3. /\ row' \in PoolRow /\ row'.in = in /\ row'.degraded = FALSE
      /\ row'.reserve = Reserve(in.quote, Stepped(in))
      /\ row'.posted >= row'.reserve /\ row'.cap >= row'.reserve
      /\ row'.supply = SupplyAt(in.quote, row'.posted)
  BY <1>1, <1>2, RowIs DEF Round
<1>4. row'.posted \in Nat /\ row'.reserve \in Nat /\ row'.cap \in Nat /\ row'.supply \in Nat
  BY <1>3 DEF PoolRow
<1>5. base' = UpdateBase(in, row'.posted, row'.reserve, row'.cap, row'.supply)
  BY DEF Round
<1>6. /\ base' \in Nat /\ base' >= row'.reserve
      /\ ~Thin(in) /\ row'.supply > 0 => base' <= row'.cap
  BY <1>1, <1>3, <1>4, <1>5, UpdateBaseIs
<1> QED
  BY <1>3, <1>5, <1>6 DEF Round

LEMMA DegradedRoundIs ==
  ASSUME TypeOK, NEW in \in Inputs, DegradedRound(in)
  PROVE  /\ row' \in PoolRow /\ row'.in = in /\ row'.degraded = TRUE
         /\ row'.posted >= row'.reserve
         /\ row'.supply = SupplyAt(in.quote, row'.posted)
         /\ base' = row'.posted
         /\ boost' = boost
         /\ ema' = Lagged
         /\ row'.reserve = Reserve(in.quote, Held)
<1>1. in \in Input /\ in.quote \in Quote
  BY PoolAssumption DEF Input
<1>2. Reserve(in.quote, Held) \in Nat
  BY <1>1, HeldType, ReserveNat
<1>3. /\ row' \in PoolRow /\ row'.in = in /\ row'.degraded = TRUE
      /\ row'.reserve = Reserve(in.quote, Held)
      /\ row'.posted >= row'.reserve
      /\ row'.supply = SupplyAt(in.quote, row'.posted)
  BY <1>1, <1>2, RowIs DEF DegradedRound
<1> QED
  BY <1>3 DEF DegradedRound

-----------------------------------------------------------------------------
(* Type correctness.                                                       *)

LEMMA InitType ==
  Init => TypeOK
<1> SUFFICES ASSUME Init PROVE TypeOK
  OBVIOUS
<1>1. base \in Nat
  BY PoolAssumption DEF Init
<1>2. boost \in BoostState
  BY PoolAssumption DEF Init, BoostState
<1>3. row \in PoolRow
  BY DEF Init, NoRow, PoolRow, Input, Quote, RequestQuote
<1> QED
  BY <1>1, <1>2, <1>3 DEF Init, TypeOK

LEMMA NextType ==
  TypeOK /\ [Next]_vars => TypeOK'
<1> SUFFICES ASSUME TypeOK, [Next]_vars PROVE TypeOK'
  OBVIOUS
<1>1. ASSUME NEW in \in Inputs, Round(in) PROVE TypeOK'
  <2>1. /\ row' \in PoolRow /\ base' \in Nat
        /\ boost' = StepBoost(in) /\ ema' = UpdateEma(row'.posted)
    BY <1>1, RoundIs
  <2>2. boost' \in BoostState
    BY <2>1, PoolAssumption, StepBoostType
  <2>3. ema' \in Nat
    BY <2>1, UpdateEmaWithin DEF PoolRow
  <2> QED
    BY <2>1, <2>2, <2>3 DEF TypeOK
<1>2. ASSUME NEW in \in Inputs, DegradedRound(in) PROVE TypeOK'
  <2>1. row' \in PoolRow /\ base' = row'.posted /\ boost' = boost /\ ema' = Lagged
    BY <1>2, DegradedRoundIs
  <2> QED
    BY <2>1, LaggedNat DEF TypeOK, PoolRow
<1>3. CASE UNCHANGED vars
  BY <1>3 DEF TypeOK, vars
<1> QED
  BY <1>1, <1>2, <1>3 DEF Next

\* The memory a caller keeps for a pool, and the row it is answered, always have
\* their types: prices and supplies of any length of rounds stay natural.
THEOREM TypeCorrect == Spec => []TypeOK
  BY InitType, NextType, PTL DEF Spec

-----------------------------------------------------------------------------
(* The reserve and the corridor.                                           *)

LEMMA NextReserve ==
  TypeOK /\ ReserveHolds /\ [Next]_vars => ReserveHolds'
<1> SUFFICES ASSUME TypeOK, ReserveHolds, [Next]_vars PROVE ReserveHolds'
  OBVIOUS
<1>1. ASSUME NEW in \in Inputs, Round(in) PROVE ReserveHolds'
  BY <1>1, RoundIs DEF ReserveHolds
<1>2. ASSUME NEW in \in Inputs, DegradedRound(in) PROVE ReserveHolds'
  BY <1>2, DegradedRoundIs DEF ReserveHolds
<1>3. CASE UNCHANGED vars
  BY <1>3 DEF ReserveHolds, vars
<1> QED
  BY <1>1, <1>2, <1>3 DEF Next

\* The two checks of _price_round that raise "internal" never do.
THEOREM ReserveSafe == Spec => []ReserveHolds
<1>1. Init => ReserveHolds
  BY PoolAssumption DEF Init, NoRow, ReserveHolds
<1> QED
  BY <1>1, NextReserve, TypeCorrect, PTL DEF Spec

LEMMA NextCorridor ==
  TypeOK /\ WithinCorridor /\ [Next]_vars => WithinCorridor'
<1> SUFFICES ASSUME TypeOK, WithinCorridor, [Next]_vars PROVE WithinCorridor'
  OBVIOUS
<1>1. ASSUME NEW in \in Inputs, Round(in) PROVE WithinCorridor'
  BY <1>1, RoundIs DEF WithinCorridor, Thin
<1>2. ASSUME NEW in \in Inputs, DegradedRound(in) PROVE WithinCorridor'
  BY <1>2, DegradedRoundIs DEF WithinCorridor
<1>3. CASE UNCHANGED vars
  BY <1>3 DEF WithinCorridor, Thin, vars
<1> QED
  BY <1>1, <1>2, <1>3 DEF Next

\* Every round in which the controller stepped ends in the corridor it used.
THEOREM CorridorSafe == Spec => []WithinCorridor
<1>1. Init => WithinCorridor
  BY DEF Init, NoRow, WithinCorridor
<1> QED
  BY <1>1, NextCorridor, TypeCorrect, PTL DEF Spec

-----------------------------------------------------------------------------
(* Boxes with their own reserves.                                          *)

LEMMA TiersOffered ==
  ASSUME NEW q \in Quote, NEW b \in Boost, NEW posted \in Nat,
         q.source = "tiers", posted >= Reserve(q, b)
  PROVE  /\ SupplyAt(q, posted) = Cardinality({x \in q.boxes : x[2] <= posted})
         /\ SupplyAt(q, posted) > 0
<1> DEFINE S == {x \in q.boxes : x[2] <= posted}
<1>1. q.boxes \in SUBSET (Nat \X Nat) /\ IsFiniteSet(q.boxes) /\ q.boxes # {}
  BY TiersAreFinite
<1>2. Reserve(q, b) = CheapestBox(q.boxes)
  BY DEF Reserve
<1>3. CheapestBox(q.boxes) \in {x[2] : x \in q.boxes}
  BY <1>1, CheapestBoxIs
<1>4. PICK x \in q.boxes : x[2] = Reserve(q, b)
  BY <1>2, <1>3
<1>5. S # {}
  BY <1>1, <1>4
<1>6. IsFiniteSet(S)
  BY <1>1, FS_Subset
<1>7. SupplyAt(q, posted) = Cardinality(S)
  BY DEF SupplyAt
<1> HIDE DEF S
<1>8. Cardinality(S) \in Nat /\ Cardinality(S) # 0
  BY <1>5, <1>6, FS_CardinalityType, FS_EmptySet
<1> QED
  BY <1>7, <1>8 DEF S

LEMMA NextTiers ==
  TypeOK /\ NoBoxBelowItsReserve /\ [Next]_vars => NoBoxBelowItsReserve'
<1> SUFFICES ASSUME TypeOK, NoBoxBelowItsReserve, [Next]_vars PROVE NoBoxBelowItsReserve'
  OBVIOUS
<1>1. ASSUME NEW in \in Inputs, NEW b \in Boost,
             row' \in PoolRow, row'.in = in, row'.reserve = Reserve(in.quote, b),
             row'.posted >= row'.reserve, row'.supply = SupplyAt(in.quote, row'.posted)
      PROVE  NoBoxBelowItsReserve'
  <2>1. in.quote \in Quote /\ row'.posted \in Nat
    BY <1>1, PoolAssumption DEF Input, PoolRow
  <2>2. ASSUME in.quote.source = "tiers"
        PROVE  /\ row'.supply = Cardinality({x \in in.quote.boxes : x[2] <= row'.posted})
               /\ row'.supply > 0
    BY <1>1, <2>1, <2>2, TiersOffered
  <2>3. row'.supply \in Nat
    BY <1>1 DEF PoolRow
  <2> QED
    BY <1>1, <2>2, <2>3 DEF NoBoxBelowItsReserve
<1>2. ASSUME NEW in \in Inputs, Round(in) PROVE NoBoxBelowItsReserve'
  <2>1. Stepped(in) \in Boost
    BY PoolAssumption, SteppedType
  <2> QED
    BY <1>1, <1>2, <2>1, RoundIs
<1>3. ASSUME NEW in \in Inputs, DegradedRound(in) PROVE NoBoxBelowItsReserve'
  BY <1>1, <1>3, HeldType, DegradedRoundIs
<1>4. CASE UNCHANGED vars
  BY <1>4 DEF NoBoxBelowItsReserve, vars
<1> QED
  BY <1>2, <1>3, <1>4 DEF Next

\* A host is never offered below the reserve of its box, and the reserve of a
\* pool with boxes is low enough for one of them to be offered.
THEOREM TiersSafe == Spec => []NoBoxBelowItsReserve
<1>1. Init => NoBoxBelowItsReserve
  BY DEF Init, NoRow, NoBoxBelowItsReserve
<1> QED
  BY <1>1, NextTiers, TypeCorrect, PTL DEF Spec

-----------------------------------------------------------------------------
(* The boost and the ema.                                                  *)

LEMMA StepBoostWithin ==
  ASSUME TypeOK, BoostWithinBounds, NEW in \in Input
  PROVE  Scale <= StepBoost(in).applied /\ StepBoost(in).applied <= BMax
<1>1. Stepped(in).num \in Int /\ Stepped(in).den \in Nat \ {0}
  BY SteppedType DEF Boost
<1>2. Scale * Stepped(in).den <= Stepped(in).num /\ Stepped(in).num <= BMax * Stepped(in).den
  BY SteppedWithin
<1>3. Scale \in Int /\ BMax \in Int
  BY PoolAssumption
<1>4. StepBoost(in).applied = HalfEven(Stepped(in).num, Stepped(in).den)
  BY DEF StepBoost
<1> QED
  BY <1>1, <1>2, <1>3, <1>4, HalfEvenBetween

LEMMA NextBoost ==
  TypeOK /\ BoostWithinBounds /\ [Next]_vars => BoostWithinBounds'
<1> SUFFICES ASSUME TypeOK, BoostWithinBounds, [Next]_vars PROVE BoostWithinBounds'
  OBVIOUS
<1>1. ASSUME NEW in \in Inputs, Round(in) PROVE BoostWithinBounds'
  <2>1. Scale <= StepBoost(in).applied /\ StepBoost(in).applied <= BMax
    BY PoolAssumption, StepBoostWithin
  <2>2. StepBoost(in).applied \in Nat
    BY PoolAssumption, StepBoostType DEF BoostState
  <2>3. Scale \in Nat
    BY PoolAssumption
  <2>4. boost' = StepBoost(in)
    BY <1>1, RoundIs
  <2> QED
    BY <2>1, <2>2, <2>3, <2>4 DEF BoostWithinBounds
<1>2. ASSUME NEW in \in Inputs, DegradedRound(in) PROVE BoostWithinBounds'
  BY <1>2, DegradedRoundIs DEF BoostWithinBounds
<1>3. CASE UNCHANGED vars
  BY <1>3 DEF BoostWithinBounds, vars
<1> QED
  BY <1>1, <1>2, <1>3 DEF Next

\* A caller that sends back the boost it was answered never makes it leave the
\* range of the ruleset, although each answer is rounded.
THEOREM BoostBounded == Spec => []BoostWithinBounds
<1>1. Init => BoostWithinBounds
  BY PoolAssumption DEF Init, BoostWithinBounds
<1> QED
  BY <1>1, NextBoost, TypeCorrect, PTL DEF Spec

\* Clear of both ends of the schedule, wherever the direction has shifted them.
LEMMA FadedClear ==
  ASSUME NEW u \in Nat, NEW dir \in {-1, 0, 1}
  PROVE  /\ u + Hyst <= ULow => Faded(u, dir) = <<0, 1>>
         /\ u >= UHigh + Hyst /\ u > ULow + Hyst => Faded(u, dir) = <<1, 1>>
<1> DEFINE lo == ULow + dir * Hyst
           hi == UHigh + dir * Hyst
<1>1. /\ lo \in Int /\ ULow - Hyst <= lo /\ lo <= ULow + Hyst
      /\ hi \in Int /\ hi <= UHigh + Hyst
  BY PoolAssumption
<1>2. Faded(u, dir) = IF u <= lo THEN <<0, 1>> ELSE IF u >= hi THEN <<1, 1>>
                      ELSE <<u - lo, hi - lo>>
  BY DEF Faded
<1> HIDE DEF lo, hi
<1>3. ULow \in Nat /\ UHigh \in Nat /\ Hyst \in Nat
  BY PoolAssumption
<1> QED
  BY <1>1, <1>2, <1>3

\* A step towards an end of the range does not pass below, or above, where the
\* boost was: rounding takes it no further than a boost that is already exact.
LEMMA StepBoostHeads ==
  ASSUME TypeOK, BoostWithinBounds, Conditional, NEW in \in Input
  PROVE  /\ Part(in) = <<0, 1>> => StepBoost(in).applied >= boost.applied
         /\ Part(in) = <<1, 1>> => StepBoost(in).applied <= boost.applied
<1> DEFINE a == boost.applied
           s == Stepped(in)
           stay == SmoothDen - SmoothNum
<1>1. a \in Int /\ Scale <= a /\ a <= BMax
  BY DEF TypeOK, BoostState, BoostWithinBounds
<1>2. /\ stay \in Nat /\ SmoothNum \in Nat /\ SmoothDen \in Nat \ {0}
      /\ Scale \in Nat /\ BMax \in Nat
      /\ stay + SmoothNum = SmoothDen
  BY PoolAssumption
<1>3. /\ s.num \in Int /\ s.den \in Nat \ {0}
      /\ Scale * s.den <= s.num /\ s.num <= BMax * s.den
  BY SteppedType, SteppedWithin DEF Boost
<1>4. StepBoost(in).applied = HalfEven(s.num, s.den)
  BY DEF StepBoost
<1>5. s = [num |-> stay * a * Part(in)[2] + SmoothNum * Aim(in),
           den |-> SmoothDen * Part(in)[2]]
  BY SteppedShape
<1>6. Aim(in) = BMax * Part(in)[2] - (BMax - Scale) * Part(in)[1]
  BY DEF Aim
<1> HIDE DEF a, s, stay
<1>7. stay * a + SmoothNum * a = a * SmoothDen
  BY <1>1, <1>2
<1>8. CASE Part(in) = <<0, 1>>
  <2>1. s.num = stay * a + SmoothNum * BMax /\ s.den = SmoothDen
    BY <1>1, <1>2, <1>5, <1>6, <1>8
  <2>2. SmoothNum * a <= SmoothNum * BMax
    BY <1>1, <1>2, ProductOrder
  <2>3. stay * a \in Int /\ SmoothNum * a \in Int /\ SmoothNum * BMax \in Int
    BY <1>1, <1>2
  <2>4. a * s.den <= s.num
    BY <1>7, <2>1, <2>2, <2>3
  <2>5. StepBoost(in).applied >= a
    BY <1>1, <1>2, <1>3, <1>4, <2>4, HalfEvenBetween
  <2> QED
    BY <1>8, <2>5 DEF a
<1>9. CASE Part(in) = <<1, 1>>
  <2>1. s.num = stay * a + SmoothNum * Scale /\ s.den = SmoothDen
    BY <1>1, <1>2, <1>5, <1>6, <1>9
  <2>2. SmoothNum * Scale <= SmoothNum * a
    BY <1>1, <1>2, ProductOrder
  <2>3. stay * a \in Int /\ SmoothNum * a \in Int /\ SmoothNum * Scale \in Int
    BY <1>1, <1>2
  <2>4. s.num <= a * s.den
    BY <1>7, <2>1, <2>2, <2>3
  <2>5. StepBoost(in).applied <= a
    BY <1>1, <1>2, <1>3, <1>4, <2>4, HalfEvenBetween
  <2> QED
    BY <1>9, <2>5 DEF a
<1> QED
  BY <1>8, <1>9

\* Whatever the ruleset and however the boost was rounded before, a pool that is
\* clear of the schedule is never taken away from the plateau it is on the way
\* to, also where the direction is still that of an earlier round.
THEOREM BoostHeads == Spec => BoostHeadsForThePlateau
<1>1. ASSUME TypeOK, BoostWithinBounds, [Next]_vars, vars' # vars,
             ~row'.degraded, Conditional
      PROVE  LET u == row'.in.trail
                 thin == ThinPlateau /\ Thin(row'.in)
             IN /\ thin \/ u + Hyst <= ULow => boost'.applied >= boost.applied
                /\ ~thin /\ u >= UHigh + Hyst /\ u > ULow + Hyst =>
                     boost'.applied <= boost.applied
  <2>1. PICK in \in Inputs : Round(in) \/ DegradedRound(in)
    BY <1>1 DEF Next
  <2>2. Round(in)
    BY <1>1, <2>1, DegradedRoundIs
  <2>3. row'.in = in /\ boost' = StepBoost(in)
    BY <1>1, <2>2, RoundIs
  <2>4. in \in Input /\ in.trail \in Nat
    BY PoolAssumption DEF Input
  <2>5. Direction(in.trail) \in {-1, 0, 1}
    BY <1>1, <2>4, DirectionType
  <2> DEFINE thin == ThinPlateau /\ Thin(in)
  <2>6. thin \/ in.trail + Hyst <= ULow => Part(in) = <<0, 1>>
    BY <2>4, <2>5, FadedClear DEF Part
  <2>7. ~thin /\ in.trail >= UHigh + Hyst /\ in.trail > ULow + Hyst => Part(in) = <<1, 1>>
    BY <2>4, <2>5, FadedClear DEF Part
  <2>8. /\ Part(in) = <<0, 1>> => StepBoost(in).applied >= boost.applied
        /\ Part(in) = <<1, 1>> => StepBoost(in).applied <= boost.applied
    BY <1>1, <2>4, StepBoostHeads
  <2> QED
    BY <2>3, <2>6, <2>7, <2>8
<1>2. TypeOK /\ BoostWithinBounds /\ [Next]_vars =>
        [~row'.degraded /\ Conditional =>
           LET u == row'.in.trail
               thin == ThinPlateau /\ Thin(row'.in)
           IN /\ thin \/ u + Hyst <= ULow => boost'.applied >= boost.applied
              /\ ~thin /\ u >= UHigh + Hyst /\ u > ULow + Hyst =>
                   boost'.applied <= boost.applied]_vars
  BY <1>1
<1> QED
  BY <1>2, TypeCorrect, BoostBounded, PTL DEF Spec, BoostHeadsForThePlateau

\* A boost on its way to 1 gets there in whole units of the answer, until half a
\* unit is more than the part of the way that a round takes.
LEMMA FadeStep ==
  ASSUME TypeOK, BoostWithinBounds, Conditional, SmoothNum > 0,
         NEW in \in Input, Part(in) = <<1, 1>>
  PROVE  IF Faint THEN StepBoost(in).applied - Scale \in 0..(SmoothDen \div (2 * SmoothNum))
         ELSE StepBoost(in).applied < boost.applied
<1> DEFINE a == boost.applied
           over == a - Scale
           s == Stepped(in)
           v == StepBoost(in).applied
           stay == SmoothDen - SmoothNum
           double == 2 * SmoothNum
           rest == SmoothDen \div double
<1>1. over \in Nat /\ a \in Int /\ a = over + Scale
  BY PoolAssumption DEF TypeOK, BoostState, BoostWithinBounds
<1>2. /\ stay \in Nat /\ SmoothNum \in Nat /\ SmoothDen \in Nat \ {0}
      /\ Scale \in Nat /\ BMax \in Nat
      /\ stay = SmoothDen - SmoothNum
      /\ double \in Nat \ {0} /\ double = 2 * SmoothNum
  BY PoolAssumption
<1>3. v \in Nat /\ Scale <= v /\ v <= a
  BY StepBoostType, StepBoostWithin, StepBoostHeads DEF BoostState
<1>4. v = HalfEven(s.num, s.den)
  BY DEF StepBoost
<1>5. s.num = stay * a + SmoothNum * Scale /\ s.den = SmoothDen
  <2>1. s = [num |-> stay * a * Part(in)[2] + SmoothNum * Aim(in),
             den |-> SmoothDen * Part(in)[2]]
    BY SteppedShape
  <2>2. Aim(in) = BMax * Part(in)[2] - (BMax - Scale) * Part(in)[1]
    BY DEF Aim
  <2> HIDE DEF a, s, stay
  <2> QED
    BY <1>1, <1>2, <2>1, <2>2
<1>6. Faint <=> over \in 0..rest
  BY DEF Faint
<1>7. rest \in Int /\ SmoothDen < double * (rest + 1)
  <2> HIDE DEF double
  <2>1. SmoothDen \in Int
    BY <1>2
  <2>2. /\ rest \in Int /\ SmoothDen % double \in 0..(double - 1)
        /\ SmoothDen = double * rest + (SmoothDen % double)
    BY <1>2, <2>1, Division
  <2> HIDE DEF rest
  <2> QED
    BY <1>2, <2>2
<1>8. CASE over \in 0..rest
  <2>1. v - Scale \in 0..rest
    <3> HIDE DEF v, a, over, rest
    <3> QED
      BY <1>1, <1>2, <1>3, <1>7, <1>8
  <2> QED
    BY <1>6, <1>8, <2>1
<1>9. CASE over \notin 0..rest
  <2> HIDE DEF v, a, over, rest, s, stay, double
  <2>1. over >= rest + 1
    BY <1>1, <1>7, <1>9
  <2>2. double * (rest + 1) <= double * over
    BY <1>1, <1>2, <1>7, <2>1, ProductOrder
  <2>3. SmoothDen < double * over
    <3>1. double * (rest + 1) \in Int /\ double * over \in Int
      BY <1>1, <1>2, <1>7
    <3> QED
      BY <1>2, <1>7, <2>2, <3>1
  <2>4. 2 * s.num = 2 * a * SmoothDen - double * over
    BY <1>1, <1>2, <1>5
  <2>5. s.num \in Int
    BY <1>1, <1>2, <1>5
  <2>6. 2 * s.num < 2 * a * SmoothDen - SmoothDen
    <3> DEFINE x == 2 * a * SmoothDen
               y == double * over
    <3>1. x \in Int /\ y \in Int /\ SmoothDen \in Int
      BY <1>1, <1>2
    <3>2. 2 * s.num = x - y /\ SmoothDen < y
      BY <2>3, <2>4
    <3> HIDE DEF x, y
    <3>3. x - y < x - SmoothDen
      BY <3>1, <3>2
    <3> QED
      BY <3>2, <3>3 DEF x
  <2>7. v < a
    BY <1>1, <1>2, <1>4, <1>5, <2>5, <2>6, HalfEvenMoves
  <2> QED
    BY <1>6, <1>9, <2>7 DEF v, a
<1> QED
  BY <1>8, <1>9

\* A round of a pool in use takes from its boost, until what is left is what
\* rounding may leave; and what is left then does not grow again.
UseTakesBoost ==
  [][Used' => IF Faint THEN Faint' ELSE boost'.applied < boost.applied]_vars

\* What BoostFades rests on, for every ruleset whose schedule has a width and
\* whose boost moves at all: no rounding stops the boost above the mark, so it
\* is below the mark after as many rounds in a row as it has units.
THEOREM UseAlwaysTakesBoost ==
  ASSUME Conditional, ULow < UHigh, SmoothNum > 0
  PROVE  Spec => UseTakesBoost
<1>1. ASSUME TypeOK, BoostWithinBounds, [Next]_vars, vars' # vars, Used'
      PROVE  IF Faint THEN Faint' ELSE boost'.applied < boost.applied
  <2>1. ~row'.degraded /\ ~Thin(row'.in) /\ row'.in.trail >= UHigh + Hyst
    BY <1>1 DEF Used, Thin
  <2>2. PICK in \in Inputs : Round(in)
    BY <1>1, <2>1, DegradedRoundIs DEF Next
  <2>3. row'.in = in /\ boost' = StepBoost(in)
    BY <1>1, <2>2, RoundIs
  <2>4. in \in Input /\ in.trail \in Nat
    BY PoolAssumption DEF Input
  <2>5. in.trail > ULow + Hyst
    BY <2>1, <2>3, <2>4, PoolAssumption
  <2>6. Part(in) = <<1, 1>>
    BY <1>1, <2>1, <2>3, <2>4, <2>5, DirectionType, FadedClear DEF Part
  <2>7. IF Faint THEN StepBoost(in).applied - Scale \in 0..(SmoothDen \div (2 * SmoothNum))
        ELSE StepBoost(in).applied < boost.applied
    BY <1>1, <2>4, <2>6, FadeStep
  <2> QED
    BY <2>3, <2>7 DEF Faint
<1>2. TypeOK /\ BoostWithinBounds /\ [Next]_vars =>
        [Used' => IF Faint THEN Faint' ELSE boost'.applied < boost.applied]_vars
  BY <1>1
<1> QED
  BY <1>2, TypeCorrect, BoostBounded, PTL DEF Spec, UseTakesBoost

LEMMA StepEma ==
  ASSUME TypeOK, [Next]_vars, vars' # vars
  PROVE  LET lo == IF Lagged < row'.posted THEN Lagged ELSE row'.posted
             hi == IF Lagged < row'.posted THEN row'.posted ELSE Lagged
         IN ema' >= lo /\ ema' <= hi
<1>1. Lagged \in Nat
  BY LaggedNat
<1>2. ASSUME NEW in \in Inputs, Round(in)
      PROVE  /\ row'.posted \in Nat /\ ema' \in Nat
             /\ \A lo \in Nat : lo <= row'.posted /\ lo <= Lagged => lo <= ema'
             /\ \A hi \in Nat : row'.posted <= hi /\ Lagged <= hi => ema' <= hi
  <2>1. row' \in PoolRow /\ ema' = UpdateEma(row'.posted)
    BY <1>2, RoundIs
  <2>2. row'.posted \in Nat
    BY <2>1 DEF PoolRow
  <2> QED
    BY <2>1, <2>2, UpdateEmaWithin
<1>3. ASSUME NEW in \in Inputs, DegradedRound(in)
      PROVE  row'.posted \in Nat /\ ema' = Lagged
  BY <1>3, DegradedRoundIs DEF PoolRow
<1> QED
  BY <1>1, <1>2, <1>3 DEF Next

\* The price the pain levels look at never leaves the prices it follows.
THEOREM EmaBounded == Spec => EmaFollowsThePrice
<1>1. TypeOK /\ [Next]_vars =>
        [LET lo == IF Lagged < row'.posted THEN Lagged ELSE row'.posted
             hi == IF Lagged < row'.posted THEN row'.posted ELSE Lagged
         IN ema' >= lo /\ ema' <= hi]_vars
  BY StepEma
<1> QED
  BY <1>1, TypeCorrect, PTL DEF Spec, EmaFollowsThePrice

-----------------------------------------------------------------------------
(* The controller is not stuck where a step is more than half a cent.      *)

LEMMA FullPoolSteps ==
  ASSUME NEW b \in Nat, NEW demand \in Nat, NEW supply \in Nat \ {0},
         NEW reserve \in Nat, NEW cap \in Nat, cap >= reserve,
         2 * DeltaNum * b > DeltaDen, demand >= supply
  PROVE  \/ StepBase(b, demand, supply, reserve, cap) > b
         \/ StepBase(b, demand, supply, reserve, cap) = cap
<1> DEFINE room == Room(demand, supply)
           gap == Gap(demand, supply)
           d == DeltaDen * room
           n == b * (DeltaDen * room + DeltaNum * gap)
<1>1. /\ DeltaNum \in Nat /\ DeltaDen \in Nat \ {0} /\ TargetNum \in Nat
      /\ TargetDen \in Nat /\ TargetDen - TargetNum \in Nat \ {0}
  BY PoolAssumption
<1>2. gap = (TargetDen - TargetNum) * supply
  BY <1>1 DEF Gap
<1>3. gap \in Nat \ {0}
  BY <1>1, <1>2, ProductPositive
<1>4. room = gap
  BY <1>2, <1>3 DEF Room
<1>5. PICK v \in Int : /\ v = HalfEven(n, d)
                       /\ StepBase(b, demand, supply, reserve, cap) = Clamp(v, reserve, cap)
  <2>1. n = StepNum(b, demand, supply) /\ d = StepDen(demand, supply)
    BY DEF StepNum, StepDen
  <2> HIDE DEF n, d
  <2>2. HalfEven(n, d) \in Int
    BY <2>1, StepBaseIs
  <2>3. StepBase(b, demand, supply, reserve, cap) = Clamp(HalfEven(n, d), reserve, cap)
    BY <2>1, StepBaseIs
  <2> QED
    BY <2>2, <2>3
<1> HIDE DEF room, gap
<1>6. d \in Nat \ {0} /\ n \in Int
  BY <1>1, <1>3, <1>4, ProductPositive
<1>7. 2 * n = 2 * b * d + (2 * DeltaNum * b) * room
  BY <1>1, <1>3, <1>4
<1>8. DeltaDen * room < (2 * DeltaNum * b) * room
  BY <1>1, <1>3, <1>4
<1>9. 2 * n > 2 * b * d + d
  <2> DEFINE x == 2 * b * d
             y == (2 * DeltaNum * b) * room
  <2>1. x \in Int /\ y \in Int /\ DeltaDen * room \in Int
    BY <1>1, <1>3, <1>4, <1>6
  <2>2. 2 * n = x + y /\ d < y
    BY <1>7, <1>8
  <2> HIDE DEF x, y
  <2>3. x + y > x + d
    BY <1>6, <2>1, <2>2
  <2> QED
    BY <2>2, <2>3 DEF x
<1> HIDE DEF n, d
<1>10. v > b
  BY <1>5, <1>6, <1>9, HalfEvenMoves
<1> QED
  BY <1>5, <1>10 DEF Clamp

LEMMA EmptyPoolSteps ==
  ASSUME NEW b \in Nat, NEW supply \in Nat \ {0},
         NEW reserve \in Nat, NEW cap \in Nat, cap >= reserve,
         2 * DeltaNum * b > DeltaDen
  PROVE  \/ StepBase(b, 0, supply, reserve, cap) < b
         \/ StepBase(b, 0, supply, reserve, cap) = reserve
<1> DEFINE room == Room(0, supply)
           gap == Gap(0, supply)
           d == DeltaDen * room
           n == b * (DeltaDen * room + DeltaNum * gap)
<1>1. /\ DeltaNum \in Nat /\ DeltaDen \in Nat \ {0} /\ TargetNum \in Nat \ {0}
      /\ TargetDen \in Nat
  BY PoolAssumption
<1>2. gap = 0 - TargetNum * supply /\ TargetNum * supply \in Nat \ {0}
  BY <1>1, ProductPositive DEF Gap
<1>3. gap \in Int /\ gap < 0
  BY <1>2
<1>4. room = 0 - gap /\ room \in Nat \ {0}
  BY <1>2, <1>3 DEF Room
<1>5. PICK v \in Int : /\ v = HalfEven(n, d)
                       /\ StepBase(b, 0, supply, reserve, cap) = Clamp(v, reserve, cap)
  <2>1. n = StepNum(b, 0, supply) /\ d = StepDen(0, supply)
    BY DEF StepNum, StepDen
  <2> HIDE DEF n, d
  <2>2. HalfEven(n, d) \in Int
    BY <2>1, StepBaseIs
  <2>3. StepBase(b, 0, supply, reserve, cap) = Clamp(HalfEven(n, d), reserve, cap)
    BY <2>1, StepBaseIs
  <2> QED
    BY <2>2, <2>3
<1> HIDE DEF room, gap
<1>6. d \in Nat \ {0} /\ n \in Int
  BY <1>1, <1>3, <1>4, ProductPositive
<1>7. 2 * n = 2 * b * d - (2 * DeltaNum * b) * room
  <2>1. gap = 0 - room
    BY <1>3, <1>4
  <2> QED
    BY <1>1, <1>4, <2>1
<1>8. DeltaDen * room < (2 * DeltaNum * b) * room
  BY <1>1, <1>4
<1>9. 2 * n < 2 * b * d - d
  <2> DEFINE x == 2 * b * d
             y == (2 * DeltaNum * b) * room
  <2>1. x \in Int /\ y \in Int
    BY <1>1, <1>4, <1>6
  <2>2. 2 * n = x - y /\ d < y
    BY <1>7, <1>8
  <2> HIDE DEF x, y
  <2>3. x - y < x - d
    BY <1>6, <2>1, <2>2
  <2> QED
    BY <2>2, <2>3 DEF x
<1> HIDE DEF n, d
<1>10. v < b
  BY <1>5, <1>6, <1>9, HalfEvenMoves
<1> QED
  BY <1>5, <1>10 DEF Clamp

LEMMA StepMoves ==
  ASSUME TypeOK, [Next]_vars, vars' # vars
  PROVE  ~row'.degraded /\ ~Thin(row'.in) /\ row'.supply > 0
           /\ 2 * DeltaNum * row'.posted > DeltaDen =>
             /\ row'.in.demand >= row'.supply => base' > row'.posted \/ base' = row'.cap
             /\ row'.in.demand = 0 => base' < row'.posted \/ base' = row'.reserve
<1> SUFFICES ASSUME ~row'.degraded, ~Thin(row'.in), row'.supply > 0,
                    2 * DeltaNum * row'.posted > DeltaDen
             PROVE  /\ row'.in.demand >= row'.supply => base' > row'.posted \/ base' = row'.cap
                    /\ row'.in.demand = 0 => base' < row'.posted \/ base' = row'.reserve
  OBVIOUS
<1>1. PICK in \in Inputs : Round(in)
  BY DegradedRoundIs DEF Next
<1>2. /\ row' \in PoolRow /\ row'.in = in /\ row'.cap >= row'.reserve
      /\ base' = UpdateBase(in, row'.posted, row'.reserve, row'.cap, row'.supply)
  BY <1>1, RoundIs
<1>3. /\ row'.posted \in Nat /\ row'.reserve \in Nat /\ row'.cap \in Nat
      /\ row'.supply \in Nat \ {0} /\ in.demand \in Nat
  BY <1>2, PoolAssumption DEF PoolRow, Input
<1>4. base' = StepBase(row'.posted, in.demand, row'.supply, row'.reserve, row'.cap)
  BY <1>2, <1>3 DEF UpdateBase
<1>5. ASSUME in.demand >= row'.supply PROVE base' > row'.posted \/ base' = row'.cap
  BY <1>2, <1>3, <1>4, <1>5, FullPoolSteps
<1>6. ASSUME in.demand = 0 PROVE base' < row'.posted \/ base' = row'.reserve
  BY <1>2, <1>3, <1>4, <1>6, EmptyPoolSteps
<1> QED
  BY <1>2, <1>5, <1>6

\* Above the prices at which a full step rounds to nothing, an overfull pool
\* always gets dearer until its cap and an idle one cheaper until its reserve.
THEOREM ControllerSafe == Spec => ControllerMoves
<1>1. TypeOK /\ [Next]_vars =>
        [~row'.degraded /\ ~Thin(row'.in) /\ row'.supply > 0
           /\ 2 * DeltaNum * row'.posted > DeltaDen =>
             /\ row'.in.demand >= row'.supply => base' > row'.posted \/ base' = row'.cap
             /\ row'.in.demand = 0 => base' < row'.posted \/ base' = row'.reserve]_vars
  BY StepMoves
<1> QED
  BY <1>1, TypeCorrect, PTL DEF Spec, ControllerMoves

\* A round of an overfull pool leaves it dearer than it was, or at its cap.
BusyClimbs == [][Busy' => base' > base \/ AtCap']_vars

\* What BusyPoolReachesItsCap rests on: the price never rests below the cap, for
\* any corridor and any reserve, also where they move from round to round.
THEOREM BusyAlwaysClimbs == Spec => BusyClimbs
<1>1. ASSUME TypeOK, [Next]_vars, vars' # vars, Busy'
      PROVE  base' > base \/ AtCap'
  <2>1. /\ ~row'.degraded /\ ~Thin(row'.in) /\ row'.supply > 0
        /\ row'.in.demand >= row'.supply /\ 2 * DeltaNum * row'.posted > DeltaDen
    BY <1>1 DEF Busy, Thin
  <2>2. base' > row'.posted \/ base' = row'.cap
    BY <1>1, <2>1, StepMoves
  <2>3. PICK in \in Inputs : Round(in)
    BY <1>1, <2>1, DegradedRoundIs DEF Next
  <2>4. row'.in = in /\ base' \in Nat /\ row' \in PoolRow
    BY <1>1, <2>3, RoundIs
  <2>5. row'.posted = AtLeast(base, row'.reserve)
    BY <2>1, <2>3, <2>4 DEF Round, Row, Posted
  <2>6. row'.posted \in Nat /\ row'.reserve \in Nat /\ base \in Nat
    BY <1>1, <2>4 DEF TypeOK, PoolRow
  <2>7. row'.posted >= base
    BY <2>5, <2>6 DEF AtLeast
  <2> QED
    BY <2>2, <2>4, <2>6, <2>7 DEF AtCap
<1>2. TypeOK /\ [Next]_vars => [Busy' => base' > base \/ AtCap']_vars
  BY <1>1
<1> QED
  BY <1>2, TypeCorrect, PTL DEF Spec, BusyClimbs

-----------------------------------------------------------------------------
(* What a host nets.                                                       *)

LEMMA FloorReserveCovers ==
  ASSUME NEW q \in FloorQuote, NEW b \in Boost
  PROVE  FloorReserve(q, b) * (Scale * b.den * (100 - q.fee))
           >= 100 * (q.cents * b.num + q.fixed * Scale * b.den)
<1> DEFINE n == q.cents * b.num + q.fixed * Scale * b.den
           d == Scale * b.den * (100 - q.fee)
<1>1. /\ q.cents \in Nat /\ q.fixed \in Nat /\ q.fee \in 0..99
      /\ b.num \in Nat /\ b.den \in Nat \ {0} /\ Scale \in Nat \ {0}
  BY PoolAssumption DEF FloorQuote, Boost
<1>2. q.cents * b.num \in Nat /\ q.fixed * Scale \in Nat
  BY <1>1, ProductNat
<1>3. q.fixed * Scale * b.den \in Nat
  BY <1>1, <1>2, ProductNat
<1>4. 100 * n \in Nat
  BY <1>2, <1>3
<1>5. Scale * b.den \in Nat \ {0} /\ 100 - q.fee \in Nat \ {0}
  BY <1>1, ProductPositive
<1>6. d \in Nat \ {0}
  BY <1>5, ProductPositive
<1>7. FloorReserve(q, b) = Ceil(100 * n, d)
  BY DEF FloorReserve
<1> HIDE DEF n, d
<1>8. Ceil(100 * n, d) * d >= 100 * n
  BY <1>4, <1>6, CeilReaches
<1> QED
  BY <1>7, <1>8 DEF n, d

Nets(in, b, reserve) ==
  in.quote.source = "floor" =>
    reserve * (Scale * b.den * (100 - in.quote.fee))
      >= 100 * (in.quote.cents * b.num + in.quote.fixed * Scale * b.den)

LEMMA ReserveNets ==
  ASSUME NEW in \in Input, NEW b \in Boost
  PROVE  Nets(in, b, Reserve(in.quote, b))
<1> SUFFICES ASSUME in.quote.source = "floor"
             PROVE  Nets(in, b, Reserve(in.quote, b))
  BY DEF Nets
<1>1. in.quote \in FloorQuote
  BY DEF Input, Quote, RequestQuote, FloorQuote, TierQuote
<1>2. Reserve(in.quote, b) = FloorReserve(in.quote, b)
  BY DEF Reserve
<1> QED
  BY <1>1, <1>2, FloorReserveCovers DEF Nets

\* Whatever the floor, the boost and the fees, the reserve of every round is
\* enough for the host to net the boosted floor.
THEOREM HostsNetTheirFloor == Spec => HostNetsTheFloor
<1>1. ASSUME TypeOK, [Next]_vars, vars' # vars, NEW in \in Inputs, row'.in = in
      PROVE  Nets(in, IF row'.degraded THEN Held ELSE Stepped(in), row'.reserve)
  <2>1. in \in Input
    BY PoolAssumption
  <2>2. Stepped(in) \in Boost
    BY <1>1, <2>1, SteppedType
  <2>3. Held \in Boost
    BY <1>1, HeldType
  <2>4. /\ Nets(in, Stepped(in), Reserve(in.quote, Stepped(in)))
        /\ Nets(in, Held, Reserve(in.quote, Held))
    BY <2>1, <2>2, <2>3, ReserveNets
  <2>5. CASE \E other \in Inputs : Round(other)
    <3>1. row'.degraded = FALSE /\ row'.reserve = Reserve(in.quote, Stepped(in))
      BY <1>1, <2>5, RoundIs
    <3> QED
      BY <2>4, <3>1
  <2>6. CASE \E other \in Inputs : DegradedRound(other)
    <3>1. row'.degraded = TRUE /\ row'.reserve = Reserve(in.quote, Held)
      BY <1>1, <2>6, DegradedRoundIs
    <3> QED
      BY <2>4, <3>1
  <2> QED
    BY <1>1, <2>5, <2>6 DEF Next
<1>2. TypeOK /\ [Next]_vars =>
        [\A in \in Inputs : row'.in = in /\ in.quote.source = "floor" =>
           LET q == in.quote
               b == IF row'.degraded THEN Held ELSE Stepped(in)
           IN row'.reserve * (Scale * b.den * (100 - q.fee))
                >= 100 * (q.cents * b.num + q.fixed * Scale * b.den)]_vars
  BY <1>1 DEF Nets
<1> QED
  BY <1>2, TypeCorrect, PTL DEF Spec, HostNetsTheFloor
=============================================================================
