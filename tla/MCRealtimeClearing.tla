------------------------- MODULE MCRealtimeClearing -------------------------
(* Small rounds for TLC.                                                   *)
EXTENDS RealtimeAllocation

RungOf(p, max) == [pool |-> p, max |-> max, will |-> max]

\* Ladders over two pools, one of which costs 10 and the other 20 a cent-hour;
\* a max of 12 cannot afford pool 2.
TwoPoolLadders ==
  {<<RungOf(1, 12)>>,
   <<RungOf(1, 12), RungOf(2, 22)>>,
   <<RungOf(2, 21), RungOf(1, 12)>>,
   <<RungOf(2, 12), RungOf(1, 10)>>}

OrderOf(o, org, rungs, hours, tip, tier) ==
  [org |-> org, rungs |-> rungs, hours |-> hours, tip |-> tip, tier |-> tier,
   lottery |-> 4 - o]

\* Three orders of two or three organisations: the first two of any hours and
\* tip; the third has the better tier.
ContentionBooks ==
  {[o \in Orders |->
      CASE o = 1 -> OrderOf(1, 1, l[1], h[1], t[1], 0)
        [] o = 2 -> OrderOf(2, g, l[2], h[2], t[2], 0)
        [] OTHER -> OrderOf(3, 3, l[3], 2, 1, 1)] :
     g \in {1, 2}, l \in [1..3 -> TwoPoolLadders], h \in [1..2 -> {1, 3}],
     t \in [1..2 -> {0, 2}]}

ContentionViews ==
  {[p \in Pools |-> [supply |-> s[p], base |-> 10 * p, reserve |-> 5 * p]] :
     s \in {<<4, 2>>, <<2, 0>>}}

\* Four orders of four organisations whose ladders chain three pools: a late
\* displacement in pool 3 reaches pool 1, and from there pool 2.
ChainLadders ==
  <<{<<RungOf(1, 12), RungOf(2, 22)>>},
    {<<RungOf(1, 12)>>},
    {<<RungOf(3, 30), RungOf(1, 12)>>},
    {<<RungOf(3, 30)>>, <<RungOf(2, 22), RungOf(3, 30)>>}>>

ChainHours == <<{4}, {1, 2}, {2}, {1, 2}>>

\* Every order of the lotteries: who displaces whom.
Lotteries == {s \in [Orders -> 1..4] : \A o, q \in Orders : s[o] = s[q] => o = q}

ChainBooks ==
  {[o \in Orders |-> [org |-> o, rungs |-> l[o], hours |-> h[o], tip |-> 0,
                      tier |-> 0, lottery |-> t[o]]] :
     l \in {f \in [Orders -> UNION {ChainLadders[o] : o \in Orders}] :
              \A o \in Orders : f[o] \in ChainLadders[o]},
     h \in {f \in [Orders -> 1..4] : \A o \in Orders : f[o] \in ChainHours[o]},
     t \in Lotteries}

ChainViews ==
  {[p \in Pools |-> [supply |-> s[p], base |-> 10 * p, reserve |-> 5 * p]] :
     s \in {<<4, 3, 1>>, <<3, 1, 1>>}}
=============================================================================
