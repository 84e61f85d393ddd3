----------------------------- MODULE PoolRounds -----------------------------
(***************************************************************************)
(* The price of one pool from round to round: boost.py, controller.py and  *)
(* the pool half of engine.py (_prepare_pool and the pool rows of          *)
(* _price_round).                                                          *)
(*                                                                         *)
(* The service stores nothing.  The memory of a pool (base, boost, ema) is *)
(* the caller's, who returns with every round what the last round answered *)
(* and prices the round locally, degraded, when no answer came.  What the  *)
(* clearing does to a pool is the demand it meets: any number of hours.    *)
(*                                                                         *)
(* Money is in cents, utilization in units of 1 / Percent, the boost in    *)
(* units of 1 / Scale: the decimal places in which it travels.             *)
(***************************************************************************)
EXTENDS Money, Quotes

CONSTANTS
  Scale,                      \* units of a boost of 1 (the code: 10^8)
  BMax, ULow, UHigh, Hyst,    \* boost schedule and its hysteresis
  SmoothNum, SmoothDen,       \* boost smoothing
  MinHosts, ThinPlateau,      \* fewer hosts make a pool thin
  Conditional,                \* boost mode: conditional or static
  TargetNum, TargetDen,       \* target utilization
  DeltaNum, DeltaDen,         \* controller step
  Kappa,                      \* spike cap over the reserve
  LambdaNum, LambdaDen,       \* spike cap over the day-ahead median
  AlphaNum, AlphaDen,         \* smoothing of the ema
  Inputs,                     \* what a caller may send for a pool
  StartBases                  \* bases a pool may start with

NoTrail == -1
NoMedian == -1
NoEma == -1

Input == [hosts : Nat, trail : Nat, quote : Quote,
          median : Nat \cup {NoMedian}, demand : Nat]

ASSUME PoolAssumption ==
  /\ Scale \in Nat \ {0} /\ BMax \in Nat /\ BMax >= Scale
  /\ ULow \in Nat /\ UHigh \in Nat /\ ULow <= UHigh /\ Hyst \in Nat
  /\ SmoothNum \in Nat /\ SmoothDen \in Nat \ {0} /\ SmoothNum <= SmoothDen
  /\ MinHosts \in Nat /\ ThinPlateau \in BOOLEAN /\ Conditional \in BOOLEAN
  /\ TargetNum \in Nat \ {0} /\ TargetDen \in Nat /\ TargetNum < TargetDen
  /\ DeltaNum \in Nat /\ DeltaDen \in Nat \ {0} /\ DeltaNum <= DeltaDen
  /\ Kappa \in Nat \ {0}
  /\ LambdaNum \in Nat /\ LambdaDen \in Nat \ {0}
  /\ AlphaNum \in Nat /\ AlphaDen \in Nat \ {0} /\ AlphaNum <= AlphaDen
  /\ Inputs \subseteq Input
  /\ StartBases \subseteq Nat

VARIABLES
  base,   \* next_base_cents of the last round
  boost,  \* the boost object: applied, direction, last utilization seen
  ema,    \* next_ema_cents of the last round
  row     \* what the last round did: its input and the prices it answered

vars == <<base, boost, ema, row>>

-----------------------------------------------------------------------------
(* The boost.                                                              *)

\* Slip: the move itself taken for the direction.
Direction_Move(u) == IF boost.trail = NoTrail THEN boost.dir ELSE u - boost.trail

\* A move of more than half the hysteresis sets the direction.
Direction(u) ==
  IF boost.trail = NoTrail THEN boost.dir
  ELSE IF 2 * (u - boost.trail) > Hyst THEN 1
  ELSE IF 2 * (boost.trail - u) > Hyst THEN -1
  ELSE boost.dir

\* How far the schedule has faded from BMax to 1, as a fraction: the ends of
\* the schedule shift with the direction.
Faded(u, dir) ==
  LET lo == ULow + dir * Hyst
      hi == UHigh + dir * Hyst
  IN IF u <= lo THEN <<0, 1>>
     ELSE IF u >= hi THEN <<1, 1>>
     ELSE <<u - lo, hi - lo>>

Thin(in) == in.hosts < MinHosts

\* Slip: the plateau of thin pools forgotten.
Stepped_NoPlateau(in) ==
  LET f == Faded(in.trail, Direction(in.trail))
      target == BMax * f[2] - (BMax - Scale) * f[1]
  IN [num |-> (SmoothDen - SmoothNum) * boost.applied * f[2] + SmoothNum * target,
      den |-> SmoothDen * f[2]]

\* The boost of the round, exact: a part of the way to the schedule.
Stepped(in) ==
  LET f == IF ThinPlateau /\ Thin(in) THEN <<0, 1>>
           ELSE Faded(in.trail, Direction(in.trail))
      target == BMax * f[2] - (BMax - Scale) * f[1]
  IN IF Conditional
     THEN [num |-> (SmoothDen - SmoothNum) * boost.applied * f[2] + SmoothNum * target,
           den |-> SmoothDen * f[2]]
     ELSE [num |-> BMax, den |-> 1]

\* As it is answered, rounded, and comes back with the next round.
StepBoost(in) ==
  LET s == Stepped(in)
  IN [applied |-> HalfEven(s.num, s.den),
      dir |-> IF Conditional THEN Direction(in.trail) ELSE 0,
      trail |-> in.trail]

Held == [num |-> boost.applied, den |-> 1]

-----------------------------------------------------------------------------
(* The reserve and the posted base.                                        *)

\* The floor, boosted, grossed up by the fees: the host nets it.
FloorReserve(q, b) ==
  Ceil(100 * (q.cents * b.num + q.fixed * Scale * b.den),
       Scale * b.den * (100 - q.fee))

Reserve(q, b) ==
  CASE q.source = "request" -> q.cents
    [] q.source = "floor" -> FloorReserve(q, b)
    [] OTHER -> CheapestBox(q.boxes)

\* The price in force; a thin pool is pinned at its reserve.
Posted(in, reserve, degraded) ==
  IF degraded \/ ~Thin(in) THEN AtLeast(base, reserve) ELSE reserve

CorridorCap(reserve, median) ==
  LET spike == Kappa * reserve
      shocked == HalfEven(LambdaNum * median, LambdaDen)
  IN AtLeast(IF median # NoMedian THEN AtLeast(spike, shocked) ELSE spike, reserve)

-----------------------------------------------------------------------------
(* The controller.                                                         *)

\* base * (1 + delta * e), e the normalized error gap / room.
StepBase(b, demand, supply, reserve, cap) ==
  LET used == IF demand < supply THEN demand ELSE supply
      gap == used * TargetDen - TargetNum * supply
      room == IF gap < 0 THEN TargetNum * supply ELSE (TargetDen - TargetNum) * supply
  IN Clamp(HalfEven(b * (DeltaDen * room + DeltaNum * gap), DeltaDen * room),
           reserve, AtLeast(cap, reserve))

UpdateBase(in, posted, reserve, cap, supply) ==
  IF Thin(in) THEN reserve
  ELSE IF supply = 0 THEN AtLeast(posted, reserve)
  ELSE StepBase(posted, in.demand, supply, reserve, cap)

Lagged == IF ema = NoEma THEN base ELSE ema

UpdateEma(posted) ==
  HalfEven(AlphaNum * posted + (AlphaDen - AlphaNum) * Lagged, AlphaDen)

-----------------------------------------------------------------------------
(* Rounds.                                                                 *)

\* The row of the answer for the pool.
Row(in, reserve, degraded) ==
  LET posted == Posted(in, reserve, degraded)
  IN [in |-> in, reserve |-> reserve, posted |-> posted,
      cap |-> CorridorCap(reserve, in.median),
      supply |-> SupplyAt(in.quote, posted), degraded |-> degraded]

Round(in) ==
  /\ row' = Row(in, Reserve(in.quote, Stepped(in)), FALSE)
  /\ base' = UpdateBase(in, row'.posted, row'.reserve, row'.cap, row'.supply)
  /\ boost' = StepBoost(in)
  /\ ema' = UpdateEma(row'.posted)

\* Memory held: the price is only lifted to the reserve.
DegradedRound(in) ==
  /\ row' = Row(in, Reserve(in.quote, Held), TRUE)
  /\ base' = row'.posted
  /\ UNCHANGED boost
  /\ ema' = Lagged

\* Before its first round a pool has a base only.
NoRow == [in |-> [hosts |-> 0, trail |-> 0, quote |-> [source |-> "request", cents |-> 0, hours |-> 0],
                  median |-> NoMedian, demand |-> 0],
          reserve |-> 0, posted |-> 0, cap |-> 0, supply |-> 0, degraded |-> TRUE]

Init ==
  /\ base \in StartBases
  /\ boost = [applied |-> BMax, dir |-> 0, trail |-> NoTrail]
  /\ ema = NoEma
  /\ row = NoRow

Next == \E in \in Inputs : Round(in) \/ DegradedRound(in)

\* The caller prices a round every 15 minutes, by itself when it must.
Spec == Init /\ [][Next]_vars /\ WF_vars(Next)
-----------------------------------------------------------------------------
(* Properties.                                                             *)

BoostState == [applied : Nat, dir : {-1, 0, 1}, trail : Nat \cup {NoTrail}]

PoolRow == [in : Input, reserve : Nat, posted : Nat, cap : Nat, supply : Nat,
            degraded : BOOLEAN]

\* Every variable has its type: no price is ever negative.
TypeOK ==
  /\ base \in Nat
  /\ boost \in BoostState
  /\ ema \in Nat \cup {NoEma}
  /\ row \in PoolRow

\* The engine's internal checks never fail: whatever the reserve, the cap, the
\* hosts and the supply do, neither the posted nor the next base is below the
\* reserve of the round.
ReserveHolds == row.posted >= row.reserve /\ base >= row.reserve

\* A round whose controller stepped leaves the base within the corridor, even
\* when the corridor moved under a base that was far above it.
WithinCorridor ==
  ~row.degraded /\ ~Thin(row.in) /\ row.supply > 0 => base <= row.cap

\* No box is offered below its own reserve: all the supply of a pool is of boxes
\* that accept the posted base, and a pool with boxes always offers one.
NoBoxBelowItsReserve ==
  row.in.quote.source = "tiers" =>
    /\ row.supply <= Cardinality({x \in row.in.quote.boxes : x[2] <= row.posted})
    /\ row.supply > 0

\* The applied boost never leaves [1, BMax], however it is smoothed, rounded
\* and sent back.
BoostWithinBounds == boost.applied >= Scale /\ boost.applied <= BMax

\* A host whose box goes at the reserve nets the boosted floor and the fixed fee
\* after the percentage fees: never a fraction of a cent less.
HostNetsTheFloor ==
  [][\A in \in Inputs : row'.in = in /\ in.quote.source = "floor" =>
       LET q == in.quote
           b == IF row'.degraded THEN Held ELSE Stepped(in)
       IN row'.reserve * (Scale * b.den * (100 - q.fee))
            >= 100 * (q.cents * b.num + q.fixed * Scale * b.den)]_vars

\* Once utilization is clear of the shifted schedule, the boost moves only
\* towards the plateau: a thin or quiet pool never loses boost, a busy one
\* never gains any.  (A schedule without width keeps BMax at its only point.)
BoostHeadsForThePlateau ==
  [][~row'.degraded /\ Conditional =>
       LET u == row'.in.trail
           thin == ThinPlateau /\ Thin(row'.in)
       IN /\ thin \/ u + Hyst <= ULow => boost'.applied >= boost.applied
          /\ ~thin /\ u >= UHigh + Hyst /\ u > ULow + Hyst =>
               boost'.applied <= boost.applied]_vars

\* The ema stays between what it was and the price it follows.
EmaFollowsThePrice ==
  [][LET lo == IF Lagged < row'.posted THEN Lagged ELSE row'.posted
         hi == IF Lagged < row'.posted THEN row'.posted ELSE Lagged
     IN ema' >= lo /\ ema' <= hi]_vars

\* Where half a cent is less than the full step, the controller is not stuck: a
\* pool asked for all its hours gets dearer until the cap, one asked for none
\* gets cheaper until the reserve.
ControllerMoves ==
  [][~row'.degraded /\ ~Thin(row'.in) /\ row'.supply > 0
       /\ 2 * DeltaNum * row'.posted > DeltaDen =>
         /\ row'.in.demand >= row'.supply => base' > row'.posted \/ base' = row'.cap
         /\ row'.in.demand = 0 => base' < row'.posted \/ base' = row'.reserve]_vars

Distance(a, b) == IF a < b THEN b - a ELSE a - b

\* An overfull pool, at prices half a cent is less than a step of.
Busy ==
  /\ ~row.degraded /\ ~Thin(row.in)
  /\ row.supply > 0 /\ row.in.demand >= row.supply
  /\ 2 * DeltaNum * row.posted > DeltaDen

AtCap == base = row.cap

\* A pool that stays overfull is priced at its spike cap in the end.
BusyPoolReachesItsCap == <>[]Busy => <>AtCap

Used == ~row.degraded /\ ~Thin(row.in) /\ row.in.trail >= UHigh + Hyst

Faint == boost.applied - Scale \in 0..(SmoothDen \div (2 * SmoothNum))

\* A pool that stays in use loses its boost but for what rounding leaves.
BoostFades == <>[]Used => <>[]Faint

-----------------------------------------------------------------------------
(* What the public summary says and the code does not do.                  *)

\* "Prices move at most 2.5% per 15 minutes": the price of a pool that has its
\* hosts, where neither the reserve nor the cap decides.
MovesAtMostDelta ==
  [][~Thin(row'.in) /\ row'.reserve < base' /\ base' < row'.cap =>
       DeltaDen * Distance(base, base') <= DeltaNum * base]_vars

\* "Prices step toward the pool being 70% busy": an overfull pool gets dearer
\* as long as it is below its cap.
StepsTowardTheTarget ==
  [][~row'.degraded /\ ~Thin(row'.in) /\ row'.supply > 0 /\ row'.in.demand >= row'.supply =>
       base' > row'.posted \/ base' >= row'.cap]_vars

\* "The full boost holds while the pool is at or below 35% busy."
FullBoostHolds ==
  [][~row'.degraded /\ row'.in.trail <= ULow /\ boost.applied = BMax =>
       boost'.applied = BMax]_vars
=============================================================================
