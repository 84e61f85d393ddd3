-------------------------- MODULE MCDayAheadMarket --------------------------
(* Small day-ahead requests for TLC.                                       *)
EXTENDS DayAheadMarket

RungOf(p, max) == [pool |-> p, max |-> max, will |-> max]

\* Willing to pay less than the reserve in an upgrade.
Shy(p, max) == [pool |-> p, max |-> max, will |-> 3]

Given(cents, hours) == [source |-> "request", cents |-> cents, hours |-> hours]
\* Boxes of two hour units each.
Boxes(reserves) ==
  [source |-> "tiers",
   boxes |-> {<<2 * k + i, reserves[k]>> : k \in DOMAIN reserves, i \in {0, 1}}]

OrderOf(o, org, rungs, hours) ==
  [org |-> org, rungs |-> rungs, hours |-> hours, tip |-> 0, tier |-> 0, lottery |-> 4 - o]

OfferOf(quote, offered) == [quote |-> quote, offered |-> offered]

\* Ladders that climb, and some that have nothing to climb to.
MarketLadders ==
  {<<RungOf(1, 12)>>,
   <<RungOf(1, 9), RungOf(2, 12)>>,
   <<Shy(1, 12), RungOf(2, 12)>>,
   <<RungOf(2, 15), RungOf(1, 15)>>}

\* Three orders of two or three organisations.
MarketBooks ==
  {[o \in Orders |-> OrderOf(o, IF o = 2 THEN g ELSE o, l[o], h[o])] :
     g \in {1, 2}, l \in [Orders -> MarketLadders], h \in [Orders -> {2, 4}]}

\* Pool 1 has boxes of its own reserves, or one reserve; the day-ahead share
\* may cut it.
MarketOffers ==
  {[p \in Pools |-> IF p = 1 THEN OfferOf(q, n) ELSE OfferOf(Given(4, 2), 4)] :
     q \in {Given(4, 6), Boxes(<<4, 10>>), Boxes(<<4, 9, 14>>)},
     n \in {4, 12}}

MarketLimits == {10}

\* Orders with a single rung: nobody has one to move up to.
FlatBooks ==
  {[o \in Orders |-> OrderOf(o, o, <<RungOf(1, m[o])>>, 2)] : m \in [Orders -> {6, 12}]}
=============================================================================
