--------------------------------- MODULE Pain ---------------------------------
(***************************************************************************)
(* pricing_core/orders.py, apply_pain: the levels that a renter sets on    *)
(* the rungs of an order, applied before every clearing to the lagged ema  *)
(* of each pool.  The memory they need travels with the order: a round     *)
(* answers with it, and the caller sends it again with the next.           *)
(*                                                                         *)
(* One order, from round to round.  A rung for which nothing is set is     *)
(* treated as the code treats an order without levels: it is kept.         *)
(***************************************************************************)
EXTENDS Integers, FiniteSets, Sequences

CONSTANTS
  Pools,
  Ladders,             \* the orders to look at: the rungs of each
  Emas,                \* the emas that a pool may have
  HystNum, HystDen     \* the hysteresis, a fraction

\* No level is set.
Unset == -1

Levels == Nat \cup {Unset}

PainRung == [pool : Pools, max : Nat, notify : Levels, confirm : Levels,
             fallback : Levels, stop : Levels]

ASSUME PainAssumption ==
  /\ Ladders \subseteq Seq(PainRung)
  /\ Emas \subseteq Nat
  /\ HystNum \in Nat /\ HystDen \in Nat \ {0}

VARIABLES
  ladder,      \* the rungs that the renter has sent
  ema,         \* the ema of each pool
  here,        \* the pools that the last round priced; none before the first
  fallen,      \* fallen_back: the rungs, by number, that have fallen back
  confirmed,   \* the renter has confirmed
  notices,     \* what the last round added to notify_count
  seen         \* the rungs that the clearing sees, with the max of each

vars == <<ladder, ema, here, fallen, confirmed, notices, seen>>

Rungs == DOMAIN ladder

Hit(level, e) == level # Unset /\ e >= level

\* A pool that the round does not price has no ema: zero is taken.
Lagged(e, priced, i) == IF ladder[i].pool \in priced THEN e[ladder[i].pool] ELSE 0

-----------------------------------------------------------------------------
(* apply_pain.  e: the emas; priced: the pools of the round.               *)

Stops(e, priced, i) == Hit(ladder[i].stop, Lagged(e, priced, i))

\* A stop ends the ladder: the rungs before it, and those looked at.
Reached(e, priced) == {i \in Rungs : \A j \in 1..i : ~Stops(e, priced, j)}

LookedAt(e, priced) == {i \in Rungs : \A j \in 1..(i - 1) : ~Stops(e, priced, j)}

Notices(e, priced) ==
  Cardinality({i \in LookedAt(e, priced) : Hit(ladder[i].notify, Lagged(e, priced, i))})

\* Slips: the nearest cent; the part taken for the rest.
Release_Nearest(level) == (2 * level * (HystDen - HystNum) + HystDen) \div (2 * HystDen)
Release_Part(level) == (level * HystNum) \div HystDen

\* A rung that has fallen back returns at this ema or a lower one.
Release(level) == (level * (HystDen - HystNum)) \div HystDen

FallsBack(e, priced, i) ==
  /\ ladder[i].fallback # Unset
  /\ IF i \in fallen THEN Lagged(e, priced, i) > Release(ladder[i].fallback)
     ELSE Lagged(e, priced, i) >= ladder[i].fallback

\* Slip: memory by pool.
Fallen_ByPool(e, priced) ==
  {ladder[i].pool : i \in {j \in Reached(e, priced) : FallsBack(e, priced, j)}}

\* What a stop hides keeps its memory.
Fallen(e, priced) ==
  {i \in Rungs : IF i \in Reached(e, priced) /\ ladder[i].fallback # Unset
                 THEN FallsBack(e, priced, i) ELSE i \in fallen}

Smaller(a, b) == IF b < a THEN b ELSE a

\* Slip: the larger of the two.
Effective_Larger(e, priced, i) ==
  IF Hit(ladder[i].confirm, Lagged(e, priced, i)) /\ ~confirmed
  THEN IF ladder[i].max > ladder[i].confirm THEN ladder[i].max ELSE ladder[i].confirm
  ELSE ladder[i].max

\* Above the confirmation level nothing is bid beyond it unless confirmed.
Effective(e, priced, i) ==
  IF Hit(ladder[i].confirm, Lagged(e, priced, i)) /\ ~confirmed
  THEN Smaller(ladder[i].max, ladder[i].confirm)
  ELSE ladder[i].max

\* No rung is left when the order is dropped.
Seen(e, priced) ==
  [i \in {j \in Reached(e, priced) : ~FallsBack(e, priced, j)} |-> Effective(e, priced, i)]

-----------------------------------------------------------------------------
(* Rounds.                                                                 *)

\* The emas move, and a round prices some pools.
Round(e, priced) ==
  /\ \A p \in Pools \ priced : e[p] = ema[p]
  /\ ema' = e
  /\ here' = priced
  /\ fallen' = Fallen(e, priced)
  /\ notices' = Notices(e, priced)
  /\ seen' = Seen(e, priced)
  /\ UNCHANGED <<ladder, confirmed>>

\* The renter confirms, or takes it back: the caller says so with the memory.
Confirm ==
  /\ confirmed' = ~confirmed
  /\ UNCHANGED <<ladder, ema, here, fallen, notices, seen>>

Init ==
  /\ ladder \in Ladders
  /\ ema \in [Pools -> Emas]
  /\ here = {}
  /\ fallen = {}
  /\ confirmed = FALSE
  /\ notices = 0
  /\ seen = [i \in DOMAIN ladder |-> ladder[i].max]

SomeRound == \E e \in [Pools -> Emas], priced \in (SUBSET Pools) \ {{}} : Round(e, priced)

Next == SomeRound \/ Confirm

\* Rounds never end.
Spec == Init /\ [][Next]_vars /\ WF_vars(SomeRound)

-----------------------------------------------------------------------------
(* Properties.                                                             *)

\* Only rungs that can fall back have fallen; the clearing sees rungs of the
\* ladder, at no more than their max.
TypeOK ==
  /\ ladder \in Ladders
  /\ ema \in [Pools -> Emas]
  /\ here \subseteq Pools
  /\ fallen \subseteq {i \in Rungs : ladder[i].fallback # Unset}
  /\ confirmed \in BOOLEAN
  /\ notices \in 0..Len(ladder)
  /\ DOMAIN seen \subseteq Rungs
  /\ \A i \in DOMAIN seen : seen[i] \in 0..ladder[i].max

\* The ema is at most level * (1 - hysteresis), exactly.
BelowRelease(e, i) == e[ladder[i].pool] * HystDen <= ladder[i].fallback * (HystDen - HystNum)

\* The same round once more changes nothing: a price that rests at a level
\* does not have a rung fall and return in turns.
RepeatedRoundsAgree ==
  [][here' = here /\ ema' = ema => fallen' = fallen /\ DOMAIN seen' = DOMAIN seen]_vars

\* Whatever an order remembers, dearer pools never show the clearing a rung
\* that cheaper ones would hide, nor a higher max.
DearerShowsNoMore ==
  \A priced \in SUBSET Pools, cheap, dear \in [Pools -> Emas] :
    (\A p \in Pools : cheap[p] <= dear[p]) =>
      /\ DOMAIN Seen(dear, priced) \subseteq DOMAIN Seen(cheap, priced)
      /\ \A i \in DOMAIN Seen(dear, priced) :
           Seen(dear, priced)[i] <= Seen(cheap, priced)[i]

\* All emas are low enough for every rung, and stay so.
Low ==
  /\ here = Pools
  /\ \A i \in Rungs : /\ ladder[i].fallback # Unset => BelowRelease(ema, i)
                      /\ ~Stops(ema, here, i)

Whole == DOMAIN seen = Rungs /\ fallen \in {{}}

\* Pain is no dead end: once all pools stay cheap, the whole ladder is back.
LowPricesRestore == <>[]Low => <>[]Whole

-----------------------------------------------------------------------------
(* What the documentation says and the code does not do.                   *)

\* "A fallen-back rung returns only when ema <= threshold * (1 - hysteresis)".
ReturnsOnlyBelowRelease == [][\A i \in fallen \ fallen' : BelowRelease(ema', i)]_vars
=============================================================================
