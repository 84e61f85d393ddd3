------------------------- MODULE MCDayAheadClearing -------------------------
(* Small day-ahead blocks for TLC.                                         *)
EXTENDS DayAheadAllocation

RungOf(p, max) == [pool |-> p, max |-> max, will |-> max]

\* Ladders over two pools, one of them bidding twice at pool 1; a bid of 7 is
\* below the reserve of pool 2.
Ladders ==
  {<<RungOf(1, 12)>>,
   <<RungOf(1, 12), RungOf(2, 15)>>,
   <<RungOf(2, 7), RungOf(1, 15), RungOf(1, 9)>>,
   <<RungOf(2, 15), RungOf(1, 9)>>}

OrderOf(o, org, rungs, hours, tier) ==
  [org |-> org, rungs |-> rungs, hours |-> hours, tip |-> 0, tier |-> tier,
   lottery |-> 4 - o]

\* Three orders of two or three organisations and any hours; the third has
\* the better tier.
BlockBooks ==
  {[o \in Orders |->
      CASE o = 1 -> OrderOf(1, 1, l[1], h[1], 0)
        [] o = 2 -> OrderOf(2, g, l[2], h[2], 0)
        [] OTHER -> OrderOf(3, 3, l[3], h[3], 1)] :
     g \in {1, 2}, l \in [1..3 -> Ladders], h \in [1..3 -> {1, 3}]}

BlockViews ==
  {[p \in Pools |-> [supply |-> s[p], base |-> 0, reserve |-> 4 * p]] :
     s \in {<<4, 2>>, <<2, 4>>, <<2, 0>>}}

BlockLimits == {1, 10}
=============================================================================
