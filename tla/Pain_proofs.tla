----------------------------- MODULE Pain_proofs -----------------------------
(***************************************************************************)
(* Theorems about Pain, for any pools, ladders, emas and hysteresis.       *)
(***************************************************************************)
EXTENDS Pain, CommonFacts

\* A rung is one of a ladder that the renter may send.
LEMMA RungTypes ==
  ASSUME TypeOK, NEW i \in Rungs
  PROVE  ladder[i] \in PainRung
<1>1. ladder \in Seq(PainRung)
  BY PainAssumption DEF TypeOK
<1> QED
  BY <1>1 DEF Rungs

\* What is taken for the ema of a rung's pool is a number of cents.
LEMMA LaggedType ==
  ASSUME TypeOK, NEW e \in [Pools -> Emas], NEW priced \in SUBSET Pools, NEW i \in Rungs
  PROVE  Lagged(e, priced, i) \in Nat
<1>1. ladder[i].pool \in Pools
  BY RungTypes DEF PainRung
<1> QED
  BY <1>1, PainAssumption DEF Lagged

\* The release of a level is a whole number of cents.
LEMMA ReleaseType ==
  ASSUME NEW level \in Nat
  PROVE  Release(level) \in Int
  BY PainAssumption DEF Release

\* A hysteresis puts the release of a level below the level.
LEMMA ReleaseBelow ==
  ASSUME NEW level \in Nat, level > 0, HystNum > 0
  PROVE  Release(level) < level
<1> DEFINE n == level * (HystDen - HystNum)
           q == n \div HystDen
<1>1. level * HystNum > 0
  BY PainAssumption
<1>2. n = level * HystDen - level * HystNum
  BY PainAssumption
<1>3. n \in Int /\ n < level * HystDen
  BY <1>1, <1>2, PainAssumption
<1>4. q \in Int /\ q * HystDen <= n
  <2> HIDE DEF n
  <2>1. q \in Int /\ n % HystDen >= 0 /\ n = HystDen * q + (n % HystDen)
    BY <1>3, Division, PainAssumption
  <2> QED
    BY <2>1, <1>3, PainAssumption
<1>5. q * HystDen < level * HystDen
  <2> HIDE DEF n, q
  <2> QED
    BY <1>3, <1>4, PainAssumption
<1>6. q < level
  <2> HIDE DEF n, q
  <2> QED
    BY <1>4, <1>5, FewerTimes, PainAssumption
<1> QED
  BY <1>6 DEF Release

-----------------------------------------------------------------------------
(* What a round answers.                                                    *)

\* A round sees rungs of the ladder, at prices from zero to their max.
LEMMA EffectiveType ==
  ASSUME TypeOK, NEW e \in [Pools -> Emas], NEW priced \in SUBSET Pools, NEW i \in Rungs
  PROVE  Effective(e, priced, i) \in 0..ladder[i].max
<1>1. ladder[i].max \in Nat /\ ladder[i].confirm \in Levels
  BY RungTypes DEF PainRung
<1>2. CASE Hit(ladder[i].confirm, Lagged(e, priced, i)) /\ ~confirmed
  <2>1. ladder[i].confirm \in Nat
    BY <1>1, <1>2 DEF Hit, Levels
  <2> QED
    BY <1>1, <1>2, <2>1 DEF Effective, Smaller
<1>3. CASE ~(Hit(ladder[i].confirm, Lagged(e, priced, i)) /\ ~confirmed)
  BY <1>1, <1>3 DEF Effective
<1> QED
  BY <1>2, <1>3

\* A round notices at most once for each rung.
LEMMA NoticesType ==
  ASSUME TypeOK, NEW e \in [Pools -> Emas], NEW priced \in SUBSET Pools
  PROVE  Notices(e, priced) \in 0..Len(ladder)
<1> DEFINE noticed == {i \in LookedAt(e, priced) :
                         Hit(ladder[i].notify, Lagged(e, priced, i))}
<1>1. Len(ladder) \in Nat /\ Rungs = 1..Len(ladder)
  BY PainAssumption DEF TypeOK, Rungs
<1>2. noticed \subseteq 1..Len(ladder)
  BY <1>1 DEF LookedAt
<1>3. IsFiniteSet(1..Len(ladder)) /\ Cardinality(1..Len(ladder)) = Len(ladder)
  <2>1. 1 \in Int /\ Len(ladder) \in Int
    BY <1>1
  <2>2. /\ IsFiniteSet(1..Len(ladder))
        /\ Cardinality(1..Len(ladder)) =
             IF 1 > Len(ladder) THEN 0 ELSE Len(ladder) - 1 + 1
    BY <2>1, FS_Interval, Zenon
  <2> QED
    BY <1>1, <2>2
<1>4. IsFiniteSet(noticed) /\ Cardinality(noticed) <= Len(ladder)
  BY <1>2, <1>3, FS_Subset
<1>5. Cardinality(noticed) \in Nat
  BY <1>4, FS_CardinalityType
<1> QED
  BY <1>1, <1>4, <1>5 DEF Notices

\* Every variable of an order's pain keeps its type from round to round: what
\* is remembered names rungs that can fall back, and no max is ever raised.
THEOREM TypeCorrect == Spec => []TypeOK
<1>1. Init => TypeOK
  <2> SUFFICES ASSUME Init PROVE TypeOK
    OBVIOUS
  <2>1. ladder \in Seq(PainRung)
    BY PainAssumption DEF Init
  <2>2. Len(ladder) \in Nat /\ Rungs = 1..Len(ladder)
    BY <2>1 DEF Rungs
  <2>3. \A i \in Rungs : ladder[i].max \in Nat
    <3> SUFFICES ASSUME NEW i \in Rungs PROVE ladder[i].max \in Nat
      OBVIOUS
    <3>1. ladder[i] \in PainRung
      BY <2>1 DEF Rungs
    <3> QED
      BY <3>1 DEF PainRung
  <2>4. DOMAIN seen = Rungs /\ \A i \in Rungs : seen[i] = ladder[i].max
    BY DEF Init, Rungs
  <2>5. \A i \in DOMAIN seen : seen[i] \in 0..ladder[i].max
    BY <2>3, <2>4
  <2>6. notices \in 0..Len(ladder)
    BY <2>2 DEF Init
  <2> QED
    BY <2>4, <2>5, <2>6 DEF Init, TypeOK
<1>2. TypeOK /\ [Next]_vars => TypeOK'
  <2> SUFFICES ASSUME TypeOK, [Next]_vars PROVE TypeOK'
    OBVIOUS
  <2>1. ASSUME NEW e \in [Pools -> Emas], NEW priced \in SUBSET Pools, Round(e, priced)
        PROVE  TypeOK'
    <3>1. ladder' = ladder /\ confirmed' = confirmed /\ Rungs' = Rungs
      BY <2>1 DEF Round, Rungs
    <3>2. fallen' \subseteq {i \in Rungs : ladder[i].fallback # Unset}
      BY <2>1 DEF Round, Fallen, TypeOK
    <3>3. notices' \in 0..Len(ladder)
      BY <2>1, NoticesType DEF Round
    <3>4. DOMAIN seen' \subseteq Rungs /\ \A i \in DOMAIN seen' : seen'[i] = Effective(e, priced, i)
      BY <2>1 DEF Round, Seen, Reached
    <3>5. \A i \in DOMAIN seen' : seen'[i] \in 0..ladder[i].max
      BY <3>4, EffectiveType
    <3> QED
      BY <2>1, <3>1, <3>2, <3>3, <3>4, <3>5 DEF TypeOK, Round
  <2>2. CASE Confirm
    BY <2>2 DEF Confirm, TypeOK, Rungs
  <2>3. CASE UNCHANGED vars
    BY <2>3 DEF vars, TypeOK, Rungs
  <2> QED
    BY <2>1, <2>2, <2>3 DEF Next, SomeRound
<1> QED
  BY <1>1, <1>2, PTL DEF Spec

-----------------------------------------------------------------------------
(* Dearer pools.                                                            *)

\* A dearer pool is at every level that a cheaper one is at.
LEMMA LaggedMonotone ==
  ASSUME TypeOK, NEW priced \in SUBSET Pools,
         NEW cheap \in [Pools -> Emas], NEW dear \in [Pools -> Emas],
         \A p \in Pools : cheap[p] <= dear[p],
         NEW i \in Rungs
  PROVE  Lagged(cheap, priced, i) <= Lagged(dear, priced, i)
<1>1. ladder[i].pool \in Pools
  BY RungTypes DEF PainRung
<1> QED
  BY <1>1 DEF Lagged

\* Whatever falls back, or is capped, at an ema is so at a higher one.
LEMMA LevelsMonotone ==
  ASSUME TypeOK, NEW priced \in SUBSET Pools,
         NEW cheap \in [Pools -> Emas], NEW dear \in [Pools -> Emas],
         \A p \in Pools : cheap[p] <= dear[p],
         NEW i \in Rungs
  PROVE  /\ Stops(cheap, priced, i) => Stops(dear, priced, i)
         /\ FallsBack(cheap, priced, i) => FallsBack(dear, priced, i)
         /\ Effective(dear, priced, i) <= Effective(cheap, priced, i)
<1> DEFINE low == Lagged(cheap, priced, i)
           high == Lagged(dear, priced, i)
<1>1. low \in Nat /\ high \in Nat /\ low <= high
  BY LaggedType, LaggedMonotone
<1>2. /\ ladder[i].max \in Nat
      /\ ladder[i].stop \in Levels /\ ladder[i].confirm \in Levels
      /\ ladder[i].fallback \in Levels
  BY RungTypes DEF PainRung
<1>3. ASSUME NEW level \in Levels, Hit(level, low) PROVE Hit(level, high)
  BY <1>1, <1>3 DEF Hit, Levels, Unset
<1>4. Stops(cheap, priced, i) => Stops(dear, priced, i)
  BY <1>2, <1>3 DEF Stops
<1>5. FallsBack(cheap, priced, i) => FallsBack(dear, priced, i)
  <2> SUFFICES ASSUME FallsBack(cheap, priced, i) PROVE FallsBack(dear, priced, i)
    OBVIOUS
  <2>1. ladder[i].fallback \in Nat /\ Release(ladder[i].fallback) \in Int
    BY <1>2, ReleaseType DEF FallsBack, Levels
  <2> QED
    BY <1>1, <2>1 DEF FallsBack
<1>6. Effective(dear, priced, i) <= Effective(cheap, priced, i)
  <2>1. CASE Hit(ladder[i].confirm, low) /\ ~confirmed
    <3>1. ladder[i].confirm \in Nat
      BY <1>2, <2>1 DEF Hit, Levels
    <3> QED
      BY <1>2, <1>3, <2>1, <3>1 DEF Effective, Smaller
  <2>2. CASE ~(Hit(ladder[i].confirm, low) /\ ~confirmed)
    <3>1. Effective(cheap, priced, i) = ladder[i].max
      BY <2>2 DEF Effective
    <3> QED
      BY <1>2, <3>1, EffectiveType
  <2> QED
    BY <2>1, <2>2
<1> QED
  BY <1>4, <1>5, <1>6

\* Whatever an order remembers, a round at higher emas shows the clearing no
\* rung that one at lower emas would hide, and no higher max.
THEOREM DearerSafe == Spec => []DearerShowsNoMore
<1>1. TypeOK => DearerShowsNoMore
  <2> SUFFICES ASSUME TypeOK, NEW priced \in SUBSET Pools,
                      NEW cheap \in [Pools -> Emas], NEW dear \in [Pools -> Emas],
                      \A p \in Pools : cheap[p] <= dear[p]
               PROVE  /\ DOMAIN Seen(dear, priced) \subseteq DOMAIN Seen(cheap, priced)
                      /\ \A i \in DOMAIN Seen(dear, priced) :
                           Seen(dear, priced)[i] <= Seen(cheap, priced)[i]
    BY DEF DearerShowsNoMore
  <2>1. Len(ladder) \in Nat /\ Rungs = 1..Len(ladder)
    BY PainAssumption DEF TypeOK, Rungs
  <2>2. Reached(dear, priced) \subseteq Reached(cheap, priced)
    <3> SUFFICES ASSUME NEW i \in Rungs, \A j \in 1..i : ~Stops(dear, priced, j), NEW j \in 1..i
                 PROVE  ~Stops(cheap, priced, j)
      BY DEF Reached
    <3>1. j \in Rungs
      BY <2>1
    <3> QED
      BY <3>1, LevelsMonotone
  <2>3. DOMAIN Seen(dear, priced) \subseteq DOMAIN Seen(cheap, priced)
    BY <2>2, LevelsMonotone DEF Seen, Reached
  <2>4. ASSUME NEW i \in DOMAIN Seen(dear, priced)
        PROVE  Seen(dear, priced)[i] <= Seen(cheap, priced)[i]
    <3>1. i \in Rungs
      BY <2>4 DEF Seen, Reached
    <3>2. /\ Seen(dear, priced)[i] = Effective(dear, priced, i)
          /\ Seen(cheap, priced)[i] = Effective(cheap, priced, i)
      BY <2>3, <2>4 DEF Seen
    <3> QED
      BY <3>1, <3>2, LevelsMonotone
  <2> QED
    BY <2>3, <2>4
<1> QED
  BY <1>1, TypeCorrect, PTL

-----------------------------------------------------------------------------
(* Rounds that repeat themselves.                                           *)

\* The memory is what another round at the same emas would make of it.
Settled ==
  here # {} => /\ fallen = Fallen(ema, here)
               /\ DOMAIN seen = DOMAIN Seen(ema, here)

\* Where there is a hysteresis and no level is zero, a rung that has just
\* fallen back is above its release, and one that has just returned is below
\* its level: the round that made it so would leave it so.
LEMMA FallsBackAgain ==
  ASSUME TypeOK, HystNum > 0, NEW i \in Rungs, ladder[i].fallback # 0,
         NEW e \in [Pools -> Emas], NEW priced \in SUBSET Pools,
         Round(e, priced), i \in Reached(e, priced), ladder[i].fallback # Unset
  PROVE  i \in fallen' <=> FallsBack(e, priced, i)'
<1> DEFINE level == ladder[i].fallback
           lag == Lagged(e, priced, i)
<1>1. ladder' = ladder /\ fallen' = Fallen(e, priced)
  BY DEF Round
<1>2. level \in Nat /\ level > 0
  BY RungTypes DEF PainRung, Levels
<1>3. lag \in Nat
  BY LaggedType
<1>4. Release(level) \in Int /\ Release(level) < level
  BY <1>2, ReleaseType, ReleaseBelow
<1>5. i \in fallen' <=> FallsBack(e, priced, i)
  BY <1>1 DEF Fallen
<1>6. FallsBack(e, priced, i) <=> IF i \in fallen THEN lag > Release(level) ELSE lag >= level
  BY DEF FallsBack
<1>7. FallsBack(e, priced, i)' <=> IF i \in fallen' THEN lag > Release(level) ELSE lag >= level
  BY <1>1 DEF FallsBack, Lagged
<1> HIDE DEF level, lag
<1> QED
  BY <1>2, <1>3, <1>4, <1>5, <1>6, <1>7

\* The memory that a round has made is that of the same round once more.
LEMMA RoundSettles ==
  ASSUME TypeOK, HystNum > 0, \A i \in Rungs : ladder[i].fallback # 0,
         NEW e \in [Pools -> Emas], NEW priced \in SUBSET Pools, Round(e, priced)
  PROVE  /\ Fallen(e, priced)' = fallen'
         /\ DOMAIN Seen(e, priced)' = DOMAIN seen'
<1>1. ladder' = ladder /\ Rungs' = Rungs /\ fallen' = Fallen(e, priced)
  BY DEF Round, Rungs
<1>2. Reached(e, priced)' = Reached(e, priced)
  BY <1>1 DEF Reached, Stops, Lagged
<1>3. ASSUME NEW i \in Reached(e, priced)
      PROVE  /\ ladder[i].fallback # Unset => (i \in fallen' <=> FallsBack(e, priced, i)')
             /\ FallsBack(e, priced, i)' <=> FallsBack(e, priced, i)
  <2>1. i \in Rungs
    BY DEF Reached
  <2>2. CASE ladder[i].fallback # Unset
    <3>1. i \in fallen' <=> FallsBack(e, priced, i)'
      BY <2>1, <2>2, FallsBackAgain
    <3>2. i \in fallen' <=> FallsBack(e, priced, i)
      BY <1>1, <2>1, <2>2 DEF Fallen
    <3> QED
      BY <3>1, <3>2
  <2>3. CASE ladder[i].fallback = Unset
    BY <1>1, <2>3 DEF FallsBack
  <2> QED
    BY <2>2, <2>3
<1>4. Fallen(e, priced)' = fallen'
  <2>1. Fallen(e, priced)' =
          {i \in Rungs : IF i \in Reached(e, priced) /\ ladder[i].fallback # Unset
                         THEN FallsBack(e, priced, i)' ELSE i \in fallen'}
    BY <1>1, <1>2 DEF Fallen
  <2>2. fallen' \subseteq Rungs
    BY <1>1 DEF Fallen
  <2> QED
    BY <1>3, <2>1, <2>2
<1>5. DOMAIN Seen(e, priced)' = {i \in Reached(e, priced) : ~FallsBack(e, priced, i)'}
  BY <1>2 DEF Seen
<1>6. DOMAIN seen' = {i \in Reached(e, priced) : ~FallsBack(e, priced, i)}
  BY DEF Round, Seen
<1> QED
  BY <1>3, <1>4, <1>5, <1>6

\* What is remembered is settled in every state.
LEMMA SettledStep ==
  ASSUME TypeOK, Settled, HystNum > 0,
         \A l \in Ladders : \A i \in DOMAIN l : l[i].fallback # 0,
         [Next]_vars
  PROVE  Settled'
<1>1. \A i \in Rungs : ladder[i].fallback # 0
  BY DEF TypeOK, Rungs
<1>2. ASSUME NEW e \in [Pools -> Emas], NEW priced \in SUBSET Pools, Round(e, priced)
      PROVE  Settled'
  <2>1. ema' = e /\ here' = priced
    BY <1>2 DEF Round
  <2>2. Fallen(e, priced)' = fallen' /\ DOMAIN Seen(e, priced)' = DOMAIN seen'
    BY <1>1, <1>2, RoundSettles
  <2>3. Fallen(ema, here)' = Fallen(e, priced)'
    BY <2>1 DEF Fallen, Reached, Stops, FallsBack, Lagged
  <2>4. DOMAIN Seen(ema, here)' = DOMAIN Seen(e, priced)'
    BY <2>1 DEF Seen, Reached, Stops, FallsBack, Lagged
  <2> QED
    BY <2>2, <2>3, <2>4 DEF Settled
<1>3. ASSUME ladder' = ladder, ema' = ema, here' = here, fallen' = fallen, seen' = seen
      PROVE  Settled'
  <2>1. Fallen(ema, here)' = Fallen(ema, here)
    BY <1>3 DEF Fallen, Rungs, Reached, Stops, FallsBack, Lagged
  <2>2. DOMAIN Seen(ema, here)' = DOMAIN Seen(ema, here)
    BY <1>3 DEF Seen, Rungs, Reached, Stops, FallsBack, Lagged
  <2> QED
    BY <1>3, <2>1, <2>2 DEF Settled
<1> QED
  BY <1>2, <1>3 DEF Next, SomeRound, Confirm, vars

\* A round that is repeated at the same emas changes neither the memory nor the
\* ladder that the clearing sees, provided that there is a hysteresis and that
\* no rung falls back at zero cents already.
THEOREM RepeatsSafe ==
  ASSUME HystNum > 0,
         \A l \in Ladders : \A i \in DOMAIN l : l[i].fallback # 0
  PROVE  Spec => RepeatedRoundsAgree
<1>1. Init => Settled
  BY DEF Init, Settled
<1>2. TypeOK /\ Settled /\ [Next]_vars => Settled'
  BY SettledStep
<1>3. Settled /\ [Next]_vars =>
        [here' = here /\ ema' = ema => fallen' = fallen /\ DOMAIN seen' = DOMAIN seen]_vars
  <2> SUFFICES ASSUME Settled, [Next]_vars, here' = here, ema' = ema
               PROVE  fallen' = fallen /\ DOMAIN seen' = DOMAIN seen
    OBVIOUS
  <2>1. ASSUME NEW e \in [Pools -> Emas], NEW priced \in (SUBSET Pools) \ {{}}, Round(e, priced)
        PROVE  fallen' = fallen /\ DOMAIN seen' = DOMAIN seen
    <3>1. e = ema /\ priced = here /\ here # {}
      BY <2>1 DEF Round
    <3>2. fallen' = Fallen(ema, here) /\ seen' = Seen(ema, here)
      BY <2>1, <3>1 DEF Round
    <3> QED
      BY <3>1, <3>2 DEF Settled
  <2> QED
    BY <2>1 DEF Next, SomeRound, Confirm, vars
<1> QED
  BY <1>1, <1>2, <1>3, TypeCorrect, PTL DEF Spec, RepeatedRoundsAgree

-----------------------------------------------------------------------------
(* Low prices.                                                              *)

\* Where there is a hysteresis, an ema below the release of a level, exactly, is
\* neither above the whole number of cents at which a rung returns nor at the
\* level at which it falls.
LEMMA BelowReleaseIs ==
  ASSUME NEW level \in Nat, level > 0, HystNum > 0,
         NEW e \in Nat, e * HystDen <= level * (HystDen - HystNum)
  PROVE  e <= Release(level) /\ e < level
<1> DEFINE n == level * (HystDen - HystNum)
           q == n \div HystDen
<1>1. n \in Int
  BY PainAssumption
<1>2. q \in Int /\ n % HystDen < HystDen /\ n = HystDen * q + (n % HystDen) /\ n % HystDen \in Int
  <2> HIDE DEF n
  <2> QED
    BY <1>1, Division, PainAssumption
<1>3. e * HystDen < (q + 1) * HystDen
  <2> HIDE DEF q
  <2>1. e * HystDen <= n
    OBVIOUS
  <2>2. (q + 1) * HystDen = HystDen * q + HystDen
    BY <1>2, PainAssumption
  <2>3. e * HystDen \in Int
    BY PainAssumption
  <2> HIDE DEF n
  <2> QED
    BY <1>1, <1>2, <2>1, <2>2, <2>3, PainAssumption
<1>4. e < q + 1
  <2> HIDE DEF n, q
  <2> QED
    BY <1>2, <1>3, FewerTimes, PainAssumption
<1>5. e <= q
  <2> HIDE DEF n, q
  <2> QED
    BY <1>2, <1>4
<1>6. Release(level) < level
  BY ReleaseBelow
<1>7. Release(level) = q
  BY DEF Release
<1> HIDE DEF n, q
<1> QED
  BY <1>2, <1>5, <1>6, <1>7

\* A round at low emas leaves no rung fallen and hides none.
Restored == Low => Whole

\* Whatever was remembered before the round.
LEMMA RestoredStep ==
  ASSUME TypeOK, Restored, HystNum > 0,
         \A l \in Ladders : \A i \in DOMAIN l : l[i].fallback # 0,
         [Next]_vars
  PROVE  Restored'
<1>1. ASSUME NEW e \in [Pools -> Emas], NEW priced \in SUBSET Pools, Round(e, priced), Low'
      PROVE  Whole'
  <2>1. ladder' = ladder /\ Rungs' = Rungs /\ ema' = e /\ here' = priced
    BY <1>1 DEF Round, Rungs
  <2>2. priced = Pools
    BY <1>1, <2>1 DEF Low
  <2>3. ASSUME NEW i \in Rungs
        PROVE  /\ ~Stops(e, priced, i)
               /\ ladder[i].fallback # Unset => BelowRelease(e, i)
    BY <1>1, <2>1 DEF Low, Stops, Hit, Lagged, BelowRelease
  <2>4. Reached(e, priced) = Rungs
    <3>1. ladder \in Seq(PainRung)
      BY PainAssumption DEF TypeOK
    <3>2. Len(ladder) \in Nat /\ Rungs = 1..Len(ladder)
      BY <3>1 DEF Rungs
    <3>3. \A i \in Rungs : 1..i \subseteq Rungs
      BY <3>2
    <3> QED
      BY <2>3, <3>3 DEF Reached
  <2>5. ASSUME NEW i \in Rungs
        PROVE  ~FallsBack(e, priced, i)
    <3>1. CASE ladder[i].fallback = Unset
      BY <3>1 DEF FallsBack
    <3>2. CASE ladder[i].fallback # Unset
      <4> DEFINE level == ladder[i].fallback
                 lag == e[ladder[i].pool]
      <4>1. ladder[i].pool \in Pools /\ level \in Nat
        BY <3>2, RungTypes DEF PainRung, Levels
      <4>2. level > 0
        BY <4>1 DEF TypeOK, Rungs
      <4>3. Lagged(e, priced, i) = lag /\ lag \in Nat
        BY <2>2, <4>1, PainAssumption DEF Lagged
      <4>4. lag * HystDen <= level * (HystDen - HystNum)
        BY <2>3, <3>2 DEF BelowRelease
      <4>5. FallsBack(e, priced, i) => IF i \in fallen THEN lag > Release(level) ELSE lag >= level
        BY <4>3 DEF FallsBack
      <4>6. Release(level) \in Int
        BY <4>1, ReleaseType
      <4> HIDE DEF level, lag
      <4>7. lag <= Release(level) /\ lag < level
        BY <4>1, <4>2, <4>3, <4>4, BelowReleaseIs
      <4> QED
        BY <4>1, <4>3, <4>5, <4>6, <4>7
    <3> QED
      BY <3>1, <3>2
  <2>6. DOMAIN seen' = Rungs
    BY <1>1, <2>4, <2>5 DEF Round, Seen
  <2>7. fallen' = {}
    <3>1. fallen' = Fallen(e, priced)
      BY <1>1 DEF Round
    <3>2. \A i \in Rungs : ladder[i].fallback = Unset => i \notin fallen
      BY DEF TypeOK
    <3> QED
      BY <2>4, <2>5, <3>1, <3>2 DEF Fallen
  <2> QED
    BY <2>1, <2>6, <2>7 DEF Whole
<1>2. ASSUME ladder' = ladder, ema' = ema, here' = here, fallen' = fallen, seen' = seen
      PROVE  Restored'
  BY <1>2 DEF Restored, Low, Whole, Rungs, BelowRelease, Stops, Hit, Lagged
<1> QED
  BY <1>1, <1>2 DEF Next, SomeRound, Confirm, vars, Restored

\* No memory outlives a round that prices every pool below the levels: the whole
\* ladder is back at once, so that where prices stay low it stays whole.  There
\* must be a hysteresis, and no rung may fall back at zero cents already.
THEOREM LowRestores ==
  ASSUME HystNum > 0,
         \A l \in Ladders : \A i \in DOMAIN l : l[i].fallback # 0
  PROVE  Spec => []Restored /\ LowPricesRestore
<1>1. Init => Restored
  BY DEF Init, Restored, Whole, Rungs
<1>2. TypeOK /\ Restored /\ [Next]_vars => Restored'
  BY RestoredStep
<1>3. Restored <=> (Low => Whole)
  BY DEF Restored
<1> QED
  BY <1>1, <1>2, <1>3, TypeCorrect, PTL DEF Spec, LowPricesRestore

==============================================================================
