---------------------------- MODULE MCPoolRounds ----------------------------
(* Small pools for TLC.                                                    *)
EXTENDS PoolRounds

InputOf(hosts, trail, quote, median, demand) ==
  [hosts |-> hosts, trail |-> trail, quote |-> quote, median |-> median, demand |-> demand]

Given(cents, hours) == [source |-> "request", cents |-> cents, hours |-> hours]
Boxes(boxes) == [source |-> "tiers", boxes |-> boxes]
Floor(cents, fee, hours) ==
  [source |-> "floor", cents |-> cents, fee |-> fee, fixed |-> 1, hours |-> hours]

\* Prices: a given reserve that moves, boxes with reserves of their own, a
\* median that lifts the cap, thin pools, no supply, and every kind of demand.
PriceInputs ==
  {InputOf(h, 20, q, m, d) :
     h \in {2, 3}, m \in {NoMedian, 50}, d \in {0, 2, 3, 9},
     q \in {Given(12, 4), Given(24, 4), Given(24, 0), Boxes({<<1, 18>>, <<2, 22>>, <<3, 40>>})}}

PriceStarts == {0, 21, 30}

\* Boost: utilizations around the schedule, a floor with fees; a pool that may
\* stay busy, or idle, for good.
BoostInputs ==
  {InputOf(h, u, Floor(20, 10, 4), NoMedian, 4) : h \in {2, 3}, u \in {20, 44, 70}}
  \cup {InputOf(3, u, Floor(20, 10, 4), NoMedian, 0) : u \in {20, 70}}

\* Utilizations at the first shifted end of the schedule.
EdgeInputs ==
  {InputOf(h, u, Floor(20, 10, 4), NoMedian, 4) : h \in {2, 3}, u \in {20, 34, 70}}

BoostStarts == {30}
=============================================================================
