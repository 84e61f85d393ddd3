----------------------- MODULE RealtimeClearing_proofs -----------------------
(***************************************************************************)
(* Theorems of RealtimeClearing, for any books, pools, caps and iteration  *)
(* limit.                                                                  *)
(***************************************************************************)
EXTENDS RealtimeAllocation, CommonFacts

Standing == placed \cup seeking

(***************************************************************************)
(* The inductive invariant: chunks are told apart by their ids, and each   *)
(* stands on a rung its order can afford.  Ids are what makes the rank of  *)
(* the slices a strict order, and a round finite.                          *)
(***************************************************************************)
IdsDistinct == \A c, d \in Standing : c.id = d.id => c = d

IdsGivenOut == \A c \in Standing : c.id <= lastId

OnOpenRungs ==
  \A c \in Standing : c.rung \in OpenRungs(book[c.order], view, FALSE)

Apart == placed \cap seeking = {}

IInv == TypeOK /\ IdsDistinct /\ IdsGivenOut /\ OnOpenRungs /\ Apart

-----------------------------------------------------------------------------
(* Arithmetic and types of the helpers.                                    *)

LEMMA ChunkContext ==
  ASSUME TypeOK, NEW c \in Standing
  PROVE  /\ c \in Chunk
         /\ book[c.order] \in Order
         /\ book[c.order].rungs[c.rung] \in Rung
         /\ PoolOf(book, c) \in Pools
         /\ view[PoolOf(book, c)] \in PoolView
         /\ OrgOf(c) \in Orgs
<1>1. book \in [Orders -> Order] /\ view \in [Pools -> PoolView]
  BY RealtimeAssumption DEF TypeOK
<1>2. c \in Chunk /\ c.rung \in DOMAIN book[c.order].rungs
  BY DEF TypeOK, Standing
<1>3. book[c.order] \in Order
  BY <1>1, <1>2 DEF Chunk
<1>4. book[c.order].rungs \in Seq(Rung) /\ book[c.order].org \in Orgs
  BY <1>3 DEF Order
<1>5. book[c.order].rungs[c.rung] \in Rung
  BY <1>2, <1>4
<1> QED
  BY <1>1, <1>2, <1>3, <1>4, <1>5 DEF Rung, PoolOf, OrgOf

LEMMA TipAtNat ==
  ASSUME TypeOK, NEW c \in Standing
  PROVE  TipAt(c) \in Nat
<1> DEFINE base == view[PoolOf(book, c)].base
           tip == book[c.order].tip
<1>1. base \in Nat /\ tip \in Nat
  BY ChunkContext DEF Order, PoolView
<1>2. base * TipNum \in Nat
  BY <1>1, RealtimeAssumption
<1>3. (base * TipNum) \div TipDen \in Nat
  BY <1>2, DivNat, RealtimeAssumption
<1> QED
  BY <1>1, <1>3 DEF TipAt, CappedTip

LEMMA StandingFinite ==
  ASSUME IInv
  PROVE  IsFiniteSet(Standing)
<1>1. Standing \subseteq Chunk /\ lastId \in Nat
  BY DEF IInv, TypeOK, Standing
<1> DEFINE f == [c \in Standing |-> c.id]
<1>2. f \in Injection(Standing, 0..lastId)
  BY <1>1 DEF IInv, IdsDistinct, IdsGivenOut, Chunk, Injection, IsInjective
<1>3. IsFiniteSet(0..lastId)
  BY <1>1, FS_Interval
<1> QED
  BY <1>2, <1>3, FS_Injection

LEMMA AlwaysFinite == IInv => IsFiniteSet(Standing)
BY StandingFinite

LEMMA UnitsFinite ==
  ASSUME NEW C, IsFiniteSet(C)
  PROVE  /\ IsFiniteSet(Units(C))
         /\ Hours(C) \in Nat
<1>1. IsFiniteSet(1..MaxHours)
  BY FS_Interval, LadderAssumption
<1>2. IsFiniteSet(C \X (1..MaxHours))
  BY <1>1, FS_Product
<1> QED
  BY <1>2, FS_Subset, FS_CardinalityType DEF Units, Hours

-----------------------------------------------------------------------------
(* The rank of chunks, of hour slices, and of slices in two bands is a     *)
(* strict total order.                                                     *)

LEMMA OutranksStrict ==
  ASSUME IInv, NEW c \in Standing, NEW d \in Standing
  PROVE  /\ ~Outranks(c, c)
         /\ c = d \/ Outranks(c, d) \/ Outranks(d, c)
         /\ ~(Outranks(c, d) /\ Outranks(d, c))
         /\ \A e \in Standing : Outranks(c, d) /\ Outranks(d, e) => Outranks(c, e)
<1>1. \A e \in Standing : /\ TipAt(e) \in Nat
                          /\ book[e.order].tier \in Int
                          /\ book[e.order].lottery \in Nat
                          /\ e.order \in Nat /\ e.id \in Nat
  BY TipAtNat, ChunkContext, LadderAssumption DEF IInv, Order, Chunk
<1>2. c.id = d.id => c = d
  BY DEF IInv, IdsDistinct
<1>3. ~Outranks(c, c) /\ ~(Outranks(c, d) /\ Outranks(d, c))
  BY <1>1 DEF Outranks
<1>4. c = d \/ Outranks(c, d) \/ Outranks(d, c)
  BY <1>1, <1>2 DEF Outranks
<1>5. \A e \in Standing : Outranks(c, d) /\ Outranks(d, e) => Outranks(c, e)
  BY <1>1 DEF Outranks
<1> QED
  BY <1>3, <1>4, <1>5

\* The two-band order on the slices of a pool.
LEMMA AheadStrict ==
  ASSUME IInv, NEW C, C \subseteq Standing, NEW p \in Pools,
         NEW s \in Slices(C, p), NEW t \in Slices(C, p)
  PROVE  /\ ~Ahead(s, s)
         /\ s = t \/ Ahead(s, t) \/ Ahead(t, s)
         /\ \A r \in Slices(C, p) : Ahead(s, t) /\ Ahead(t, r) => Ahead(s, r)
<1> DEFINE Unit(r) == <<r.chunk, r.hour>>
<1>1. \A r \in Slices(C, p) : /\ r.chunk \in Standing
                              /\ r.hour \in Nat
                              /\ r.band \in {0, 1}
                              /\ Unit(r)[1] = r.chunk /\ Unit(r)[2] = r.hour
  <2>1. \A u \in Units(C) : u[1] \in Standing /\ u[2] \in Nat
    BY LadderAssumption DEF Units
  <2>2. \A u \in Units(C) : Band(u, Units(C), p) \in {0, 1}
    BY DEF Band
  <2> QED
    BY <2>1, <2>2 DEF Slices
<1>2. \A q, r \in Slices(C, p) : q.chunk = r.chunk /\ q.hour = r.hour => q = r
  <2>1. \A u, v \in Units(C) : u[1] = v[1] /\ u[2] = v[2] => u = v
    BY DEF Units
  <2> QED
    BY <2>1 DEF Slices
<1> HIDE DEF Unit
<1>3. ~HourBefore(Unit(s), Unit(s))
  BY <1>1, OutranksStrict DEF HourBefore
<1>4. Unit(s) = Unit(t) => s = t
  BY <1>1, <1>2
<1>5. s = t \/ HourBefore(Unit(s), Unit(t)) \/ HourBefore(Unit(t), Unit(s))
  <2>1. CASE s.chunk = t.chunk
    BY <1>1, <1>2, <2>1 DEF HourBefore
  <2>2. CASE s.chunk # t.chunk
    BY <1>1, <2>2, OutranksStrict DEF HourBefore
  <2> QED
    BY <2>1, <2>2
<1>6. ASSUME NEW r \in Slices(C, p),
             HourBefore(Unit(s), Unit(t)), HourBefore(Unit(t), Unit(r))
      PROVE  HourBefore(Unit(s), Unit(r))
  BY <1>1, <1>6, OutranksStrict DEF HourBefore
<1>7. \A q, r \in Slices(C, p) :
        Ahead(q, r) <=> \/ q.band < r.band
                        \/ q.band = r.band /\ HourBefore(Unit(q), Unit(r))
  BY DEF Ahead, Unit
<1> QED
  BY <1>1, <1>3, <1>5, <1>6, <1>7

\* A pool serves min(asked hours, supply) slices.
LEMMA AcceptedCount ==
  ASSUME IInv, NEW C, C \subseteq Standing, NEW p \in Pools
  PROVE  /\ IsFiniteSet(Slices(C, p))
         /\ Cardinality(Accepted(C, p)) =
              IF Hours(C) <= view[p].supply THEN Hours(C) ELSE view[p].supply
<1> DEFINE slices == Slices(C, p)
           before == [s \in slices |-> {t \in slices : Ahead(t, s)}]
           cut == [u \in Units(C) |->
                     [chunk |-> u[1], hour |-> u[2], band |-> Band(u, Units(C), p)]]
<1>1. IsFiniteSet(C)
  BY StandingFinite, FS_Subset
<1>2. IsFiniteSet(Units(C)) /\ Hours(C) = Cardinality(Units(C))
  BY <1>1, UnitsFinite DEF Hours
<1>3. slices = {cut[u] : u \in Units(C)}
  BY DEF Slices
<1>4. cut \in Bijection(Units(C), slices)
  <2>1. cut \in [Units(C) -> slices]
    BY <1>3
  <2>2. \A s \in slices : \E u \in Units(C) : cut[u] = s
    BY <1>3
  <2>3. \A u, v \in Units(C) : cut[u] = cut[v] => u = v
    <3>1. \A u, v \in Units(C) : cut[u] = cut[v] => u[1] = v[1] /\ u[2] = v[2]
      OBVIOUS
    <3> QED
      BY <3>1 DEF Units
  <2> HIDE DEF cut, slices
  <2> QED
    BY <2>1, <2>2, <2>3 DEF Bijection, Injection, Surjection, IsInjective
<1>5. IsFiniteSet(slices) /\ Cardinality(slices) = Hours(C)
  BY <1>2, <1>4, FS_Bijection DEF ExistsBijection
<1>6. StrictOrderBy(slices, before)
  <2>1. before \in [slices -> SUBSET slices]
    OBVIOUS
  <2>2. \A s \in slices : s \notin before[s]
    BY AheadStrict
  <2>3. \A s, t \in slices : s = t \/ s \in before[t] \/ t \in before[s]
    BY AheadStrict
  <2>4. \A s, t \in slices : s \in before[t] => before[s] \subseteq before[t]
    BY AheadStrict
  <2> QED
    BY <2>1, <2>2, <2>3, <2>4 DEF StrictOrderBy
<1>7. view[p].supply \in Nat
  BY RealtimeAssumption DEF IInv, TypeOK, PoolView
<1>8. Accepted(C, p) = {s \in slices : Cardinality(before[s]) < view[p].supply}
  BY DEF Accepted
<1> HIDE DEF slices, before
<1>9. Cardinality({s \in slices : Cardinality(before[s]) < view[p].supply}) =
        IF Cardinality(slices) <= view[p].supply THEN Cardinality(slices) ELSE view[p].supply
  BY <1>5, <1>6, <1>7, ServedCount
<1>10. IsFiniteSet(Slices(C, p))
  BY <1>5 DEF slices
<1> QED
  BY <1>5, <1>8, <1>9, <1>10

-----------------------------------------------------------------------------
(* One pass, described by what is asked and granted in the current state.  *)

AskedAt(p) == At(book, Standing, p)

ServedNow == UNION {Accepted(AskedAt(p), p) : p \in Pools}

OutcomeNow == {<<c, Granted(ServedNow, c)>> : c \in Standing}

Mine(c) == {s \in ServedNow : s.chunk = c}

LEMMA PassEffect ==
  ASSUME ClearPass
  PROVE  /\ placed' = Kept(OutcomeNow)
         /\ seeking' = Descend(book, view, Rest(OutcomeNow), lastId, FALSE)
         /\ lastId' = lastId + Cardinality(Rest(OutcomeNow))
BY DEF ClearPass, OutcomeNow, ServedNow, AskedAt, Standing

\* The slices served to a chunk are slices of its own pool, at most one for
\* each of its hours.
LEMMA MineBounds ==
  ASSUME IInv, NEW c \in Standing
  PROVE  /\ Mine(c) = {s \in Accepted(AskedAt(PoolOf(book, c)), PoolOf(book, c)) : s.chunk = c}
         /\ IsFiniteSet(Mine(c))
         /\ Granted(ServedNow, c) = Cardinality(Mine(c))
         /\ Granted(ServedNow, c) \in 0..c.hours
<1> DEFINE p == PoolOf(book, c)
           mine == {s \in Accepted(AskedAt(p), p) : s.chunk = c}
           f == [s \in mine |-> s.hour]
<1>1. p \in Pools /\ c.hours \in Nat
  BY ChunkContext DEF IInv, Chunk
<1>2. \A q \in Pools : \A s \in Accepted(AskedAt(q), q) :
        PoolOf(book, s.chunk) = q
  <2> SUFFICES ASSUME NEW q \in Pools, NEW s \in Accepted(AskedAt(q), q)
               PROVE  PoolOf(book, s.chunk) = q
    OBVIOUS
  <2>1. PICK u \in Units(AskedAt(q)) :
          s = [chunk |-> u[1], hour |-> u[2], band |-> Band(u, Units(AskedAt(q)), q)]
    BY DEF Accepted, Slices
  <2>2. s.chunk \in AskedAt(q)
    BY <2>1 DEF Units
  <2> QED
    BY <2>2 DEF AskedAt, At
<1>3. Mine(c) = mine
  <2>1. ASSUME NEW s \in Mine(c) PROVE s \in mine
    <3>1. PICK q \in Pools : s \in Accepted(AskedAt(q), q)
      BY DEF Mine, ServedNow
    <3>2. s.chunk = c
      BY DEF Mine
    <3>3. q = p
      BY <1>2, <3>1, <3>2
    <3> QED
      BY <3>1, <3>2, <3>3
  <2>2. ASSUME NEW s \in mine PROVE s \in Mine(c)
    BY <1>1 DEF Mine, ServedNow
  <2> QED
    BY <2>1, <2>2
<1>4. \A s \in mine : s.chunk = c /\ s.hour \in 1..c.hours
  <2> SUFFICES ASSUME NEW s \in mine PROVE s.hour \in 1..c.hours
    OBVIOUS
  <2>1. PICK u \in Units(AskedAt(p)) :
          s = [chunk |-> u[1], hour |-> u[2], band |-> Band(u, Units(AskedAt(p)), p)]
    BY DEF Accepted, Slices
  <2>2. u[1] = c /\ u[2] \in 1..MaxHours /\ u[2] <= u[1].hours
    BY <2>1 DEF Units
  <2> QED
    BY <1>1, <2>1, <2>2, LadderAssumption
<1>5. \A s, t \in mine : s.hour = t.hour => s = t
  <2>1. \A u, v \in Units(AskedAt(p)) : u[1] = v[1] /\ u[2] = v[2] => u = v
    BY DEF Units
  <2> QED
    BY <2>1, <1>4 DEF Accepted, Slices
<1>6. f \in Injection(mine, 1..c.hours)
  BY <1>4, <1>5 DEF Injection, IsInjective
<1>7. IsFiniteSet(1..c.hours) /\ Cardinality(1..c.hours) = c.hours
  BY <1>1, FS_Interval
<1>8. IsFiniteSet(mine) /\ Cardinality(mine) <= c.hours
  BY <1>6, <1>7, FS_Injection
<1>9. Cardinality(mine) \in Nat
  BY <1>8, FS_CardinalityType
<1>10. Granted(ServedNow, c) = Cardinality(Mine(c))
  BY DEF Granted, Mine
<1> QED
  BY <1>1, <1>3, <1>8, <1>9, <1>10

\* What a pass keeps: chunks that stood before, with some of their hours.
LEMMA KeptChunks ==
  ASSUME IInv, NEW k \in Kept(OutcomeNow)
  PROVE  \E c \in Standing :
           /\ k = [c EXCEPT !.hours = Granted(ServedNow, c)]
           /\ Granted(ServedNow, c) > 0
           /\ k \in Chunk
           /\ k.id = c.id /\ k.order = c.order /\ k.rung = c.rung
           /\ k.hours = Granted(ServedNow, c)
<1>1. PICK c \in Standing : /\ k = [c EXCEPT !.hours = Granted(ServedNow, c)]
                           /\ Granted(ServedNow, c) > 0
  BY DEF Kept, OutcomeNow
<1>2. Granted(ServedNow, c) \in 1..MaxHours
  BY <1>1, MineBounds, ChunkContext, LadderAssumption DEF IInv, Chunk
<1> QED
  BY <1>1, <1>2, ChunkContext DEF IInv, Chunk

\* What a pass turns away: chunks that stood before, with the other hours.
LEMMA RestChunks ==
  ASSUME IInv
  PROVE  /\ \A k \in Rest(OutcomeNow) : k \in Chunk /\ (\E c \in Standing :
               k.id = c.id /\ k.order = c.order /\ k.rung = c.rung)
         /\ \A k, l \in Rest(OutcomeNow) : k.id = l.id => k = l
         /\ IsFiniteSet(Rest(OutcomeNow))
<1>1. ASSUME NEW k \in Rest(OutcomeNow)
      PROVE  \E c \in Standing :
               /\ k = [c EXCEPT !.hours = c.hours - Granted(ServedNow, c)]
               /\ k \in Chunk
               /\ k.id = c.id /\ k.order = c.order /\ k.rung = c.rung
  <2>1. PICK c \in Standing : /\ k = [c EXCEPT !.hours = c.hours - Granted(ServedNow, c)]
                             /\ Granted(ServedNow, c) < c.hours
    BY DEF Rest, OutcomeNow
  <2>2. c.hours - Granted(ServedNow, c) \in 1..MaxHours
    BY <2>1, MineBounds, ChunkContext, LadderAssumption DEF IInv, Chunk
  <2> QED
    BY <2>1, <2>2, ChunkContext DEF IInv, Chunk
<1>2. \A k, l \in Rest(OutcomeNow) : k.id = l.id => k = l
  BY <1>1 DEF IInv, IdsDistinct
<1>3. \A k \in Rest(OutcomeNow) : k.id \in 0..lastId
  BY <1>1 DEF IInv, IdsGivenOut, TypeOK, Chunk
<1>4. IsFiniteSet(Rest(OutcomeNow))
  <2> DEFINE f == [k \in Rest(OutcomeNow) |-> k.id]
  <2>1. f \in [Rest(OutcomeNow) -> 0..lastId]
    BY <1>3
  <2>2. \A k, l \in Rest(OutcomeNow) : f[k] = f[l] => k = l
    BY <1>2
  <2>3. f \in Injection(Rest(OutcomeNow), 0..lastId)
    BY <2>1, <2>2, Fun_IsInj
  <2>4. lastId \in Nat
    BY DEF IInv, TypeOK
  <2>5. IsFiniteSet(0..lastId)
    BY <2>4, FS_Interval
  <2> QED
    BY <2>3, <2>5, FS_Injection
<1> QED
  BY <1>1, <1>2, <1>4

\* The chunks turned away are numbered apart, in the order in which they are walked.
LEMMA WalkedApart ==
  ASSUME IInv
  PROVE  LET C == Rest(OutcomeNow)
         IN /\ IsFiniteSet(C) /\ Cardinality(C) \in Nat
            /\ \A c \in C : Cardinality(WalkedUpTo(book, C, c)) \in 1..Cardinality(C)
            /\ \A c, d \in C :
                 Cardinality(WalkedUpTo(book, C, c)) = Cardinality(WalkedUpTo(book, C, d)) => c = d
<1> DEFINE C == Rest(OutcomeNow)
           n == Cardinality(C)
           upto == [c \in C |-> WalkedUpTo(book, C, c)]
<1>1. IsFiniteSet(C) /\ n \in Nat
  BY RestChunks, FS_CardinalityType
<1>2. \A c \in C : PoolOf(book, c) \in Nat /\ c.id \in Nat
  <2> SUFFICES ASSUME NEW c \in C PROVE PoolOf(book, c) \in Nat /\ c.id \in Nat
    OBVIOUS
  <2>1. PICK b \in Standing : c.order = b.order /\ c.rung = b.rung
    BY RestChunks
  <2>2. PoolOf(book, c) = PoolOf(book, b)
    BY <2>1 DEF PoolOf
  <2> QED
    BY <2>2, RestChunks, ChunkContext, LadderAssumption DEF IInv, Chunk
<1>3. /\ \A c \in C : Cardinality(upto[c]) \in 1..n
      /\ \A c, d \in C : Cardinality(upto[c]) = Cardinality(upto[d]) => c = d
  <2>1. upto \in [C -> SUBSET C]
    BY DEF WalkedUpTo
  <2>2. \A c, d \in C : c \in upto[d] \/ d \in upto[c]
    BY <1>2 DEF WalkedUpTo
  <2>3. \A c, d \in C : c \in upto[d] /\ d \in upto[c] => c = d
    BY <1>2, RestChunks DEF WalkedUpTo
  <2>4. \A c, d \in C : c \in upto[d] => upto[c] \subseteq upto[d]
    BY <1>2 DEF WalkedUpTo
  <2> HIDE DEF C, upto
  <2> QED
    BY <1>1, <2>1, <2>2, <2>3, <2>4, NumberInjective
<1> QED
  BY <1>1, <1>3

\* Descended chunks get fresh, distinct ids and stand on rungs their orders
\* can afford.
LEMMA DescendChunks ==
  ASSUME IInv
  PROVE  LET below == Descend(book, view, Rest(OutcomeNow), lastId, FALSE)
             n == Cardinality(Rest(OutcomeNow))
         IN /\ n \in Nat
            /\ below \subseteq Chunk
            /\ \A d \in below : /\ d.id \in (lastId + 1)..(lastId + n)
                               /\ d.rung \in OpenRungs(book[d.order], view, FALSE)
            /\ \A d, e \in below : d.id = e.id => d = e
<1> DEFINE C == Rest(OutcomeNow)
           n == Cardinality(C)
           below == Descend(book, view, C, lastId, FALSE)
           upto == [c \in C |-> WalkedUpTo(book, C, c)]
           Next1(c) == Best(RungsBelow(book[c.order], c.rung, view, FALSE))
<1>1. IsFiniteSet(C) /\ n \in Nat
  BY WalkedApart
<1>3. /\ \A c \in C : Cardinality(upto[c]) \in 1..n
      /\ \A c, d \in C : Cardinality(upto[c]) = Cardinality(upto[d]) => c = d
  BY WalkedApart
<1>4. ASSUME NEW d \in below
      PROVE  \E c \in C : \E r \in Next1(c) :
               d = [id |-> lastId + Cardinality(upto[c]), order |-> c.order,
                    rung |-> r, hours |-> c.hours]
  BY DEF Descend
<1>5. \A c \in C : \A r, s \in Next1(c) : r = s
  <2> SUFFICES ASSUME NEW c \in C, NEW r \in Next1(c), NEW s \in Next1(c) PROVE r = s
    OBVIOUS
  <2>1. r \in Nat /\ s \in Nat
    <3>1. c \in Chunk /\ book[c.order] \in Order
      BY RestChunks, RealtimeAssumption DEF IInv, TypeOK, Chunk
    <3>2. book[c.order].rungs \in Seq(Rung)
      BY <3>1 DEF Order
    <3>3. r \in DOMAIN book[c.order].rungs /\ s \in DOMAIN book[c.order].rungs
      BY DEF Best, RungsBelow, OpenRungs
    <3> QED
      BY <3>2, <3>3
  <2>2. r <= s /\ s <= r
    BY DEF Best
  <2> QED
    BY <2>1, <2>2
<1>6. ASSUME NEW d \in below
      PROVE  /\ d \in Chunk
             /\ d.id \in (lastId + 1)..(lastId + n)
             /\ d.rung \in OpenRungs(book[d.order], view, FALSE)
  <2>1. PICK c \in C : \E r \in Next1(c) :
          d = [id |-> lastId + Cardinality(upto[c]), order |-> c.order,
               rung |-> r, hours |-> c.hours]
    BY <1>4
  <2>10. PICK r \in Next1(c) :
          d = [id |-> lastId + Cardinality(upto[c]), order |-> c.order,
               rung |-> r, hours |-> c.hours]
    BY <2>1
  <2>2. c \in Chunk /\ book[c.order] \in Order
    BY RestChunks, RealtimeAssumption DEF IInv, TypeOK, Chunk
  <2>3. r \in OpenRungs(book[c.order], view, FALSE)
    BY DEF Best, RungsBelow
  <2>4. r \in Nat \ {0}
    BY <2>2, <2>3 DEF OpenRungs, Order
  <2>5. lastId \in Nat /\ Cardinality(upto[c]) \in 1..n
    BY <1>3 DEF IInv, TypeOK
  <2>6. lastId + Cardinality(upto[c]) \in (lastId + 1)..(lastId + n)
    BY <2>5, <1>1
  <2>7. lastId + Cardinality(upto[c]) \in Nat
    BY <2>5, <1>1
  <2> QED
    BY <2>10, <2>2, <2>3, <2>4, <2>6, <2>7 DEF Chunk
<1>7. ASSUME NEW d \in below, NEW e \in below, d.id = e.id
      PROVE  d = e
  <2>1. PICK c \in C : \E r \in Next1(c) :
          d = [id |-> lastId + Cardinality(upto[c]), order |-> c.order,
               rung |-> r, hours |-> c.hours]
    BY <1>4
  <2>2. PICK b \in C : \E s \in Next1(b) :
          e = [id |-> lastId + Cardinality(upto[b]), order |-> b.order,
               rung |-> s, hours |-> b.hours]
    BY <1>4
  <2>3. lastId + Cardinality(upto[c]) = lastId + Cardinality(upto[b])
    BY <1>7, <2>1, <2>2
  <2>4. Cardinality(upto[c]) = Cardinality(upto[b])
    BY <2>3, <1>3, <1>1 DEF IInv, TypeOK
  <2>5. c = b
    BY <2>4, <1>3
  <2> QED
    BY <2>1, <2>2, <2>5, <1>5
<1> QED
  BY <1>1, <1>6, <1>7

-----------------------------------------------------------------------------
(* The invariant is inductive.                                             *)

LEMMA InitInv == Init => IInv
<1> SUFFICES ASSUME Init PROVE IInv
  OBVIOUS
<1> DEFINE upto == [o \in Orders |-> EnteredUpTo(book, o)]
           First(o) == Best(OpenRungs(book[o], view, FALSE))
<1>1. book \in [Orders -> Order] /\ view \in [Pools -> PoolView]
  BY RealtimeAssumption DEF Init
<1>2. \A o \in Orders : o \in Nat /\ book[o].lottery \in Nat
  BY <1>1, LadderAssumption DEF Order
<1>3. /\ \A o \in Orders : Cardinality(upto[o]) \in 1..Cardinality(Orders)
      /\ \A o, q \in Orders : Cardinality(upto[o]) = Cardinality(upto[q]) => o = q
  <2>1. upto \in [Orders -> SUBSET Orders]
    BY DEF EnteredUpTo
  <2>2. /\ \A o, q \in Orders : o \in upto[q] \/ q \in upto[o]
        /\ \A o, q \in Orders : o \in upto[q] /\ q \in upto[o] => o = q
        /\ \A o, q \in Orders : o \in upto[q] => upto[o] \subseteq upto[q]
    BY <1>2 DEF EnteredUpTo
  <2> HIDE DEF upto
  <2> QED
    BY <2>1, <2>2, NumberInjective, LadderAssumption
<1>4. Cardinality(Orders) \in Nat
  BY FS_CardinalityType, LadderAssumption
<1>5. \A o \in Orders : book[o].rungs \in Seq(Rung) /\ book[o].hours \in 1..MaxHours
  BY <1>1 DEF Order
<1>6. \A o \in Orders : \A r \in First(o) :
        /\ r \in OpenRungs(book[o], view, FALSE)
        /\ r \in DOMAIN book[o].rungs
        /\ r \in Nat \ {0}
  <2> SUFFICES ASSUME NEW o \in Orders, NEW r \in First(o)
               PROVE  /\ r \in OpenRungs(book[o], view, FALSE)
                      /\ r \in DOMAIN book[o].rungs
                      /\ r \in Nat \ {0}
    OBVIOUS
  <2>1. r \in OpenRungs(book[o], view, FALSE)
    BY DEF Best
  <2>2. r \in DOMAIN book[o].rungs
    BY <2>1 DEF OpenRungs
  <2>3. book[o].rungs \in Seq(Rung)
    BY <1>5
  <2>4. r \in Nat \ {0}
    BY <2>2, <2>3
  <2> QED
    BY <2>1, <2>2, <2>4
<1>7. \A o \in Orders : \A r, s \in First(o) : r = s
  <2> SUFFICES ASSUME NEW o \in Orders, NEW r \in First(o), NEW s \in First(o)
               PROVE  r = s
    OBVIOUS
  <2>1. r <= s /\ s <= r
    BY DEF Best
  <2>2. r \in Nat /\ s \in Nat
    BY <1>6
  <2> QED
    BY <2>1, <2>2
<1>8. ASSUME NEW c \in seeking
      PROVE  \E o \in Orders : \E r \in First(o) :
               c = [id |-> Cardinality(upto[o]), order |-> o, rung |-> r,
                    hours |-> book[o].hours]
  BY DEF Init, FirstChunks
<1>9. ASSUME NEW c \in seeking
      PROVE  /\ c \in Chunk
             /\ c.id <= lastId
             /\ c.rung \in DOMAIN book[c.order].rungs
             /\ c.rung \in OpenRungs(book[c.order], view, FALSE)
  <2>1. PICK o \in Orders : \E r \in First(o) :
               c = [id |-> Cardinality(upto[o]), order |-> o, rung |-> r,
                    hours |-> book[o].hours]
    BY <1>8
  <2>2. PICK r \in First(o) :
               c = [id |-> Cardinality(upto[o]), order |-> o, rung |-> r,
                    hours |-> book[o].hours]
    BY <2>1
  <2>3. Cardinality(upto[o]) \in Nat /\ Cardinality(upto[o]) <= lastId
    BY <1>3, <1>4 DEF Init
  <2> QED
    BY <2>2, <2>3, <1>5, <1>6 DEF Chunk
<1>10. ASSUME NEW c \in seeking, NEW d \in seeking, c.id = d.id
       PROVE  c = d
  <2>1. PICK o \in Orders : \E r \in First(o) :
               c = [id |-> Cardinality(upto[o]), order |-> o, rung |-> r,
                    hours |-> book[o].hours]
    BY <1>8
  <2>2. PICK q \in Orders : \E r \in First(q) :
               d = [id |-> Cardinality(upto[q]), order |-> q, rung |-> r,
                    hours |-> book[q].hours]
    BY <1>8
  <2>3. Cardinality(upto[o]) = Cardinality(upto[q])
    BY <1>10, <2>1, <2>2
  <2>4. o = q
    BY <2>3, <1>3
  <2> QED
    BY <2>1, <2>2, <2>4, <1>7
<1>11. Standing = seeking
  BY DEF Init, Standing
<1>12. TypeOK
  <2>1. placed = {} /\ seeking \subseteq Chunk
    BY <1>9 DEF Init
  <2>2. \A c \in placed \cup seeking : c.rung \in DOMAIN book[c.order].rungs
    BY <1>9, <2>1
  <2>3. passes \in 0..MaxPasses
    BY RealtimeAssumption DEF Init
  <2>4. /\ book \in Books /\ view \in Views /\ phase \in {"passing", "done"}
        /\ lastId \in Nat /\ seen = {} /\ fills = {}
        /\ demand \in [Pools -> Nat] /\ orgCap \in [Pools -> BOOLEAN]
    BY <1>4 DEF Init
  <2> QED
    BY <2>1, <2>2, <2>3, <2>4 DEF TypeOK
<1> QED
  BY <1>9, <1>10, <1>11, <1>12 DEF IInv, IdsDistinct, IdsGivenOut, OnOpenRungs, Apart, Init

LEMMA PassInv ==
  ASSUME IInv, ClearPass
  PROVE  IInv'
<1> DEFINE n == Cardinality(Rest(OutcomeNow))
<1>1. placed' = Kept(OutcomeNow) /\ lastId' = lastId + n
      /\ seeking' = Descend(book, view, Rest(OutcomeNow), lastId, FALSE)
  BY PassEffect
<1>2. n \in Nat /\ lastId \in Nat
  BY DescendChunks DEF IInv, TypeOK
<1>3. \A k \in placed' : \E c \in Standing :
        /\ k = [c EXCEPT !.hours = Granted(ServedNow, c)]
        /\ k \in Chunk
        /\ k.id = c.id /\ k.order = c.order /\ k.rung = c.rung
  BY <1>1, KeptChunks
<1>4. \A d \in seeking' : /\ d \in Chunk
                          /\ d.id \in (lastId + 1)..(lastId + n)
                          /\ d.rung \in OpenRungs(book[d.order], view, FALSE)
  BY <1>1, DescendChunks
<1>5. \A d, e \in seeking' : d.id = e.id => d = e
  BY <1>1, DescendChunks
<1>6. UNCHANGED <<book, view, phase, fills>>
  BY DEF ClearPass
<1>7. \A k \in placed' : k.id <= lastId
  BY <1>3 DEF IInv, IdsGivenOut
<1>12. ASSUME NEW a \in placed', NEW b \in seeking' PROVE a.id # b.id
  <2>1. a.id \in Nat /\ a.id <= lastId
    BY <1>3, <1>7 DEF Chunk
  <2>2. b.id \in (lastId + 1)..(lastId + n)
    BY <1>4
  <2> HIDE DEF n
  <2> QED
    BY <2>1, <2>2, <1>2
<1>8. IdsDistinct'
  <2> SUFFICES ASSUME NEW k \in Standing', NEW l \in Standing', k.id = l.id
               PROVE  k = l
    BY DEF IdsDistinct
  <2>1. CASE k \in placed' /\ l \in placed'
    BY <2>1, <1>3 DEF IInv, IdsDistinct
  <2>2. CASE k \in seeking' /\ l \in seeking'
    BY <2>2, <1>5
  <2> QED
    BY <2>1, <2>2, <1>12 DEF Standing
<1>9. IdsGivenOut'
  <2>1. ASSUME NEW k \in Standing' PROVE k.id <= lastId'
    <3>1. CASE k \in placed'
      <4>1. k.id \in Nat /\ k.id <= lastId
        BY <1>3, <1>7, <3>1 DEF Chunk
      <4> QED
        BY <4>1, <1>1, <1>2
    <3>2. CASE k \in seeking'
      <4>1. k.id \in (lastId + 1)..(lastId + n) /\ lastId' = lastId + n
        BY <1>1, <1>4, <3>2
      <4> HIDE DEF n
      <4> QED
        BY <4>1, <1>2
    <3> QED
      BY <3>1, <3>2 DEF Standing
  <2> QED
    BY <2>1 DEF IdsGivenOut
<1>10. OnOpenRungs'
  <2>1. ASSUME NEW k \in Standing'
        PROVE  k.rung \in OpenRungs(book[k.order], view, FALSE)
    <3>1. CASE k \in placed'
      BY <1>3, <3>1 DEF IInv, OnOpenRungs
    <3>2. CASE k \in seeking'
      BY <1>4, <3>2
    <3> QED
      BY <3>1, <3>2 DEF Standing
  <2>2. book' = book /\ view' = view
    BY <1>6
  <2>3. ASSUME NEW k \in Standing'
        PROVE  (k.rung \in OpenRungs(book[k.order], view, FALSE))'
    BY <2>1, <2>2, <2>3 DEF OpenRungs, Affordable
  <2> QED
    BY <2>3 DEF OnOpenRungs
<1>11. TypeOK'
  <2>1. placed' \subseteq Chunk /\ seeking' \subseteq Chunk
    BY <1>3, <1>4
  <2>2. \A k \in Standing' : k.rung \in DOMAIN book'[k.order].rungs
    BY <1>10 DEF OnOpenRungs, OpenRungs
  <2>3. lastId' \in Nat
    BY <1>1, <1>2
  <2>4. passes' \in 0..MaxPasses
    BY RealtimeAssumption DEF ClearPass, IInv, TypeOK
  <2>5. seen' \subseteq Orders \X (Nat \ {0})
    <3>1. seeking \subseteq Chunk /\ seen \subseteq Orders \X (Nat \ {0})
      BY DEF IInv, TypeOK
    <3>2. \A c \in seeking : <<c.order, c.rung>> \in Orders \X (Nat \ {0})
      BY <3>1 DEF Chunk
    <3> QED
      BY <3>1, <3>2 DEF ClearPass
  <2>6. demand' \in [Pools -> Nat]
    <3>1. \A p \in Pools : Hours(At(book, FirstArrivals, p)) \in Nat
      <4>1. \A p \in Pools : At(book, FirstArrivals, p) \subseteq Standing
        BY DEF At, FirstArrivals, Standing
      <4> QED
        BY <4>1, StandingFinite, FS_Subset, UnitsFinite
    <3>2. demand \in [Pools -> Nat]
      BY DEF IInv, TypeOK
    <3> QED
      BY <3>1, <3>2 DEF ClearPass
  <2>7. orgCap' \in [Pools -> BOOLEAN]
    BY DEF ClearPass, Capped
  <2>8. /\ book' \in Books /\ view' \in Views /\ phase' \in {"passing", "done"}
        /\ fills' \subseteq [id : Nat, order : Orders, rung : Nat \ {0},
                      hours : 1..MaxHours, pay : Nat, tip : Int]
    BY <1>6 DEF IInv, TypeOK
  <2> QED
    BY <2>1, <2>2, <2>3, <2>4, <2>5, <2>6, <2>7, <2>8 DEF TypeOK, Standing
<1>13. Apart'
  BY <1>12 DEF Apart
<1> QED
  BY <1>8, <1>9, <1>10, <1>11, <1>13 DEF IInv

LEMMA SettleInv ==
  ASSUME IInv, Settle
  PROVE  IInv'
<1>1. UNCHANGED <<book, view, passes, placed, seeking, lastId, seen, demand, orgCap>>
  BY DEF Settle
<1>2. \A c \in placed : FillOf(c) \in [id : Nat, order : Orders, rung : Nat \ {0},
                                      hours : 1..MaxHours, pay : Nat, tip : Int]
  <2> SUFFICES ASSUME NEW c \in placed
               PROVE  FillOf(c) \in [id : Nat, order : Orders, rung : Nat \ {0},
                                     hours : 1..MaxHours, pay : Nat, tip : Int]
    OBVIOUS
  <2>1. c \in Standing
    BY DEF Standing
  <2>2. c \in Chunk /\ view[PoolOf(book, c)].base \in Nat
        /\ book[c.order].rungs[c.rung].max \in Nat
    BY <2>1, ChunkContext DEF IInv, PoolView, Rung
  <2>3. TipAt(c) \in Nat
    BY <2>1, TipAtNat DEF IInv
  <2>4. ChargedTip(c) \in Int
    BY <2>2, <2>3 DEF ChargedTip
  <2> QED
    BY <2>2, <2>4 DEF FillOf, Chunk
<1>3. TypeOK'
  <2>1. phase' = "done" /\ fills' \subseteq
          [id : Nat, order : Orders, rung : Nat \ {0}, hours : 1..MaxHours, pay : Nat, tip : Int]
    BY <1>2 DEF Settle
  <2> QED
    BY <1>1, <2>1 DEF IInv, TypeOK
<1>4. (IdsDistinct /\ IdsGivenOut /\ OnOpenRungs /\ Apart)'
  BY <1>1 DEF IInv, IdsDistinct, IdsGivenOut, OnOpenRungs, Apart, Standing, OpenRungs,
              Affordable
<1> QED
  BY <1>3, <1>4 DEF IInv

LEMMA NextInv == IInv /\ [Next]_vars => IInv'
<1> SUFFICES ASSUME IInv, [Next]_vars PROVE IInv'
  OBVIOUS
<1>1. CASE ClearPass
  BY <1>1, PassInv
<1>2. CASE Settle
  BY <1>2, SettleInv
<1>3. CASE UNCHANGED vars
  BY <1>3 DEF vars, IInv, TypeOK, IdsDistinct, IdsGivenOut, OnOpenRungs, Apart,
              Standing, OpenRungs, Affordable
<1> QED
  BY <1>1, <1>2, <1>3 DEF Next

LEMMA Invariant == Spec => []IInv
<1>1. Init => IInv
  BY InitInv
<1>2. IInv /\ [Next]_vars => IInv'
  BY NextInv
<1> QED
  BY <1>1, <1>2, PTL DEF Spec

\* Type correctness: chunks stay well formed through any number of splits and
\* descents, on rungs that exist.
THEOREM TypeCorrect == Spec => []TypeOK
<1>1. IInv => TypeOK
  BY DEF IInv
<1> QED
  BY <1>1, Invariant, PTL

-----------------------------------------------------------------------------
(* Hours in a pass: those of a set of chunks that stand are served or turned *)
(* away, and those turned away come down to the next rung, none lost and     *)
(* none made.                                                                *)

LEMMA UnitsAreCounted ==
  ASSUME NEW C
  PROVE  Units(C) = CountBy(C, [c \in C |-> c.hours], MaxHours)
BY DEF Units, CountBy

LEMMA ServedFinite ==
  ASSUME IInv
  PROVE  IsFiniteSet(ServedNow)
<1> DEFINE f == [p \in Pools |-> Accepted(AskedAt(p), p)]
           parts == {Accepted(AskedAt(p), p) : p \in Pools}
<1>1. \A p \in Pools : IsFiniteSet(f[p])
  <2> SUFFICES ASSUME NEW p \in Pools PROVE IsFiniteSet(Accepted(AskedAt(p), p))
    OBVIOUS
  <2>1. AskedAt(p) \subseteq Standing
    BY DEF AskedAt, At
  <2>2. IsFiniteSet(Slices(AskedAt(p), p))
    BY <2>1, AcceptedCount
  <2>3. Accepted(AskedAt(p), p) \subseteq Slices(AskedAt(p), p)
    BY DEF Accepted
  <2> QED
    BY <2>2, <2>3, FS_Subset
<1>2. f \in [Pools -> parts] /\ \A x \in parts : \E p \in Pools : f[p] = x
  OBVIOUS
<1>3. \A x \in parts : IsFiniteSet(x)
  BY <1>1, <1>2
<1> HIDE DEF f, parts
<1>4. f \in Surjection(Pools, parts)
  BY <1>2, Fun_IsSurj
<1>5. IsFiniteSet(parts)
  BY <1>4, FS_Surjection, LadderAssumption
<1>6. IsFiniteSet(UNION parts)
  BY <1>3, <1>5, FS_UNION
<1> QED
  BY <1>6 DEF ServedNow, parts

\* The parts that a pass makes of the chunks D.
PartsOf(C, D) == {k \in C : \E c \in D : c.id = k.id}

LEMMA GrantedCounts ==
  ASSUME IInv, NEW D, D \subseteq Standing
  PROVE  /\ IsFiniteSet(D)
         /\ IsFiniteSet({s \in ServedNow : s.chunk \in D})
         /\ [c \in D |-> Granted(ServedNow, c)] \in [D -> 0..MaxHours]
         /\ [c \in D |-> c.hours] \in [D -> 0..MaxHours]
         /\ \A c \in D : Granted(ServedNow, c) \in 0..c.hours /\ c \in Chunk
         /\ Cardinality(CountBy(D, [c \in D |-> Granted(ServedNow, c)], MaxHours)) =
              Cardinality({s \in ServedNow : s.chunk \in D})
<1> DEFINE S == {s \in ServedNow : s.chunk \in D}
           g == [c \in D |-> Granted(ServedNow, c)]
           owner == [s \in S |-> s.chunk]
           own == [c \in D |-> {s \in ServedNow : s.chunk = c}]
<1>1. IsFiniteSet(D) /\ IsFiniteSet(S)
  BY StandingFinite, ServedFinite, FS_Subset
<1>2. \A c \in D : Granted(ServedNow, c) \in 0..c.hours /\ c \in Chunk
  BY MineBounds, ChunkContext DEF IInv
<1>3. \A c \in D : c.hours \in 0..MaxHours
  BY <1>2, LadderAssumption DEF Chunk
<1>4. \A c \in D : Granted(ServedNow, c) \in 0..MaxHours
  BY <1>2, <1>3, LadderAssumption
<1>5. g \in [D -> 0..MaxHours] /\ [c \in D |-> c.hours] \in [D -> 0..MaxHours]
  BY <1>3, <1>4
<1>6. owner \in [S -> D]
  OBVIOUS
<1>7. /\ own \in [D -> SUBSET S]
      /\ \A s \in S, c \in D : s \in own[c] <=> owner[s] = c
      /\ \A c \in D : g[c] = Cardinality(own[c])
  BY DEF Granted
<1>8. Cardinality(CountBy(D, g, MaxHours)) = Cardinality(S)
  <2> HIDE DEF S, g, owner, own
  <2> QED
    BY <1>1, <1>5, <1>6, <1>7, CountOwned, LadderAssumption
<1> QED
  BY <1>1, <1>2, <1>5, <1>8

\* What the pools keep of D is what they serve to D.
LEMMA KeptHours ==
  ASSUME IInv, NEW D, D \subseteq Standing
  PROVE  Hours(PartsOf(Kept(OutcomeNow), D)) = Cardinality({s \in ServedNow : s.chunk \in D})
<1> DEFINE g == [c \in D |-> Granted(ServedNow, c)]
           P == {c \in D : Granted(ServedNow, c) > 0}
           E == PartsOf(Kept(OutcomeNow), D)
           name == [c \in P |-> [c EXCEPT !.hours = Granted(ServedNow, c)]]
           k == [e \in E |-> e.hours]
<1>1. \A c \in D : /\ Granted(ServedNow, c) \in 0..c.hours
                   /\ c \in Chunk
  BY GrantedCounts
<1>2. IsFiniteSet(P)
  <2>1. P \subseteq D
    OBVIOUS
  <2> QED
    BY <2>1, GrantedCounts, FS_Subset
<1>3. \A c \in P : /\ name[c] \in E
                   /\ name[c].id = c.id
                   /\ name[c].hours = Granted(ServedNow, c)
  <2> SUFFICES ASSUME NEW c \in P
               PROVE  /\ name[c] \in E
                      /\ name[c].id = c.id
                      /\ name[c].hours = Granted(ServedNow, c)
    OBVIOUS
  <2>1. name[c].id = c.id /\ name[c].hours = Granted(ServedNow, c)
    BY <1>1 DEF Chunk
  <2> DEFINE e == <<c, Granted(ServedNow, c)>>
  <2>2. e \in OutcomeNow /\ e[1] = c /\ e[2] = Granted(ServedNow, c) /\ e[2] > 0
    BY DEF OutcomeNow
  <2>3. name[c] = [e[1] EXCEPT !.hours = e[2]]
    BY <2>2
  <2> HIDE DEF e, name
  <2>4. name[c] \in Kept(OutcomeNow)
    BY <2>2, <2>3 DEF Kept
  <2> QED
    BY <2>1, <2>4 DEF PartsOf
<1>4. \A e \in E : \E c \in P : name[c] = e
  <2> SUFFICES ASSUME NEW e \in E PROVE \E c \in P : name[c] = e
    OBVIOUS
  <2>1. PICK c \in D : c.id = e.id
    BY DEF PartsOf
  <2>2. PICK b \in Standing : /\ e = [b EXCEPT !.hours = Granted(ServedNow, b)]
                             /\ Granted(ServedNow, b) > 0
                             /\ e.id = b.id
    BY KeptChunks DEF PartsOf
  <2>3. b = c
    BY <2>1, <2>2 DEF IInv, IdsDistinct
  <2> QED
    BY <2>2, <2>3
<1>5. name \in [P -> E]
  BY <1>3
<1>6. \A c, d \in P : name[c] = name[d] => c = d
  <2>1. \A c, d \in P : name[c] = name[d] => c.id = d.id
    BY <1>3
  <2> QED
    BY <2>1 DEF IInv, IdsDistinct
<1>7. \A c \in P : k[name[c]] = g[c]
  BY <1>3
<1>8. CountBy(P, g, MaxHours) = CountBy(D, g, MaxHours)
  <2>1. ASSUME NEW u \in CountBy(D, g, MaxHours) PROVE u \in CountBy(P, g, MaxHours)
    <3>1. u \in D \X (1..MaxHours) /\ u[2] <= g[u[1]]
      BY DEF CountBy
    <3>2. u = <<u[1], u[2]>> /\ u[1] \in D /\ u[2] \in 1..MaxHours /\ u[2] <= Granted(ServedNow, u[1])
      BY <3>1
    <3>3. Granted(ServedNow, u[1]) > 0
      BY <3>2, <1>1, LadderAssumption DEF Chunk
    <3> QED
      BY <3>1, <3>2, <3>3 DEF CountBy
  <2> QED
    BY <2>1 DEF CountBy
<1>9. Cardinality(CountBy(E, k, MaxHours)) = Cardinality(CountBy(P, g, MaxHours))
  <2> HIDE DEF P, E, name, k, g
  <2> QED
    BY <1>2, <1>4, <1>5, <1>6, <1>7, CountRenamed, LadderAssumption
<1>10. Hours(E) = Cardinality(CountBy(E, k, MaxHours))
  <2> HIDE DEF E
  <2> QED
    BY UnitsAreCounted DEF Hours
<1> QED
  BY <1>8, <1>9, <1>10, GrantedCounts

\* The rest of D is what they do not serve.
LEMMA RestHours ==
  ASSUME IInv, NEW D, D \subseteq Standing
  PROVE  Hours(D) = Cardinality({s \in ServedNow : s.chunk \in D})
                      + Hours(PartsOf(Rest(OutcomeNow), D))
<1> DEFINE h == [c \in D |-> c.hours]
           a == [c \in D |-> Granted(ServedNow, c)]
           b == [c \in D |-> c.hours - Granted(ServedNow, c)]
           P == {c \in D : Granted(ServedNow, c) < c.hours}
           E == PartsOf(Rest(OutcomeNow), D)
           name == [c \in P |-> [c EXCEPT !.hours = c.hours - Granted(ServedNow, c)]]
           k == [e \in E |-> e.hours]
<1>1. \A c \in D : /\ Granted(ServedNow, c) \in 0..c.hours
                   /\ c \in Chunk
                   /\ c.hours \in Nat /\ c.hours <= MaxHours
  <2>1. \A c \in D : c.hours \in 1..MaxHours /\ c \in Chunk
    BY GrantedCounts, ZenonT(60) DEF Chunk
  <2>2. \A c \in D : Granted(ServedNow, c) \in 0..c.hours
    BY GrantedCounts
  <2> QED
    BY <2>1, <2>2, LadderAssumption
<1>2. IsFiniteSet(P) /\ IsFiniteSet(D)
  <2>1. P \subseteq D
    OBVIOUS
  <2> QED
    BY <2>1, GrantedCounts, FS_Subset
<1>3. \A c \in P : /\ name[c] \in E
                   /\ name[c].id = c.id
                   /\ name[c].hours = c.hours - Granted(ServedNow, c)
  <2> SUFFICES ASSUME NEW c \in P
               PROVE  /\ name[c] \in E
                      /\ name[c].id = c.id
                      /\ name[c].hours = c.hours - Granted(ServedNow, c)
    OBVIOUS
  <2>1. name[c].id = c.id /\ name[c].hours = c.hours - Granted(ServedNow, c)
    BY <1>1 DEF Chunk
  <2> DEFINE e == <<c, Granted(ServedNow, c)>>
  <2>2. e \in OutcomeNow /\ e[1] = c /\ e[2] = Granted(ServedNow, c) /\ e[2] < e[1].hours
    BY DEF OutcomeNow
  <2>3. name[c] = [e[1] EXCEPT !.hours = e[1].hours - e[2]]
    BY <2>2
  <2> HIDE DEF e, name
  <2>4. name[c] \in Rest(OutcomeNow)
    BY <2>2, <2>3 DEF Rest
  <2> QED
    BY <2>1, <2>4 DEF PartsOf
<1>4. \A e \in E : \E c \in P : name[c] = e
  <2> SUFFICES ASSUME NEW e \in E PROVE \E c \in P : name[c] = e
    OBVIOUS
  <2>1. PICK c \in D : c.id = e.id
    BY DEF PartsOf
  <2>2. PICK f \in OutcomeNow : /\ f[2] < f[1].hours
                               /\ e = [f[1] EXCEPT !.hours = f[1].hours - f[2]]
    BY DEF PartsOf, Rest
  <2>3. PICK x \in Standing : f = <<x, Granted(ServedNow, x)>>
    BY DEF OutcomeNow
  <2>4. e = [x EXCEPT !.hours = x.hours - Granted(ServedNow, x)]
        /\ Granted(ServedNow, x) < x.hours
    BY <2>2, <2>3
  <2>5. x \in Chunk
    BY ChunkContext DEF IInv
  <2>6. e.id = x.id
    BY <2>4, <2>5 DEF Chunk
  <2>7. x = c
    BY <2>1, <2>6 DEF IInv, IdsDistinct
  <2> QED
    BY <2>4, <2>7
<1>5. name \in [P -> E]
  BY <1>3
<1>6. \A c, d \in P : name[c] = name[d] => c = d
  <2>1. \A c, d \in P : name[c] = name[d] => c.id = d.id
    BY <1>3
  <2> QED
    BY <2>1 DEF IInv, IdsDistinct
<1>7. \A c \in P : k[name[c]] = b[c]
  BY <1>3
<1>8. CountBy(P, b, MaxHours) = CountBy(D, b, MaxHours)
  <2>1. ASSUME NEW u \in CountBy(D, b, MaxHours) PROVE u \in CountBy(P, b, MaxHours)
    <3>1. u \in D \X (1..MaxHours) /\ u[2] <= b[u[1]]
      BY DEF CountBy
    <3>2. u = <<u[1], u[2]>> /\ u[1] \in D /\ u[2] \in 1..MaxHours
          /\ u[2] <= u[1].hours - Granted(ServedNow, u[1])
      BY <3>1
    <3>3. Granted(ServedNow, u[1]) < u[1].hours
      BY <3>2, <1>1, LadderAssumption
    <3> QED
      BY <3>1, <3>2, <3>3 DEF CountBy
  <2> QED
    BY <2>1 DEF CountBy
<1>9. Cardinality(CountBy(E, k, MaxHours)) = Cardinality(CountBy(P, b, MaxHours))
  <2> HIDE DEF P, E, name, k, b
  <2> QED
    BY <1>2, <1>4, <1>5, <1>6, <1>7, CountRenamed, LadderAssumption
<1>10. /\ Hours(E) = Cardinality(CountBy(E, k, MaxHours))
       /\ Hours(D) = Cardinality(CountBy(D, h, MaxHours))
  <2> HIDE DEF E
  <2> QED
    BY UnitsAreCounted DEF Hours
<1>11. b \in [D -> 0..MaxHours] /\ \A c \in D : h[c] = a[c] + b[c]
  BY <1>1, LadderAssumption
<1>12. h \in [D -> 0..MaxHours] /\ a \in [D -> 0..MaxHours]
  BY GrantedCounts
<1>13. Cardinality(CountBy(D, h, MaxHours)) =
         Cardinality(CountBy(D, a, MaxHours)) + Cardinality(CountBy(D, b, MaxHours))
  <2> HIDE DEF h, a, b
  <2> QED
    BY <1>2, <1>11, <1>12, CountSplit, LadderAssumption
<1> QED
  BY <1>8, <1>9, <1>10, <1>13, GrantedCounts

\* Hours that come down are those turned away from rungs above.
LEMMA DescendHours ==
  ASSUME IInv, NEW o \in Orders, NEW R
  PROVE  Hours({d \in Descend(book, view, Rest(OutcomeNow), lastId, FALSE) :
                  d.order = o /\ d.rung \in R}) =
         Hours({k \in Rest(OutcomeNow) :
                  /\ k.order = o
                  /\ \E r \in R : r \in Best(RungsBelow(book[o], k.rung, view, FALSE))})
<1> DEFINE C == Rest(OutcomeNow)
           Down(k) == Best(RungsBelow(book[k.order], k.rung, view, FALSE))
           D == {k \in C : k.order = o /\ \E r \in R : r \in Best(RungsBelow(book[o], k.rung, view, FALSE))}
           E == {d \in Descend(book, view, C, lastId, FALSE) : d.order = o /\ d.rung \in R}
           num == [k \in C |-> lastId + Cardinality(WalkedUpTo(book, C, k))]
           new == [k \in D |-> [id |-> num[k], order |-> k.order,
                                rung |-> (CHOOSE r \in R : r \in Down(k)), hours |-> k.hours]]
           hD == [k \in D |-> k.hours]
           hE == [k \in E |-> k.hours]
<1>1. /\ IsFiniteSet(C) /\ Cardinality(C) \in Nat /\ lastId \in Nat
      /\ \A k \in C : Cardinality(WalkedUpTo(book, C, k)) \in 1..Cardinality(C)
      /\ \A k, l \in C : Cardinality(WalkedUpTo(book, C, k)) = Cardinality(WalkedUpTo(book, C, l)) => k = l
  BY WalkedApart DEF IInv, TypeOK
<1>2. \A k, l \in C : num[k] = num[l] => k = l
  <2> SUFFICES ASSUME NEW k \in C, NEW l \in C, num[k] = num[l] PROVE k = l
    OBVIOUS
  <2> DEFINE a == Cardinality(WalkedUpTo(book, C, k))
             b == Cardinality(WalkedUpTo(book, C, l))
  <2>1. a \in Nat /\ b \in Nat /\ lastId + a = lastId + b
    BY <1>1
  <2>2. a = b
    <3> HIDE DEF a, b
    <3> QED
      BY <2>1, <1>1
  <2> QED
    BY <2>2, <1>1
<1>3. \A k \in C : \A r, s \in Down(k) : r = s
  <2> SUFFICES ASSUME NEW k \in C, NEW r \in Down(k), NEW s \in Down(k) PROVE r = s
    OBVIOUS
  <2>1. k \in Chunk /\ book[k.order] \in Order
    BY RestChunks, RealtimeAssumption DEF IInv, TypeOK, Chunk
  <2>2. book[k.order].rungs \in Seq(Rung)
    BY <2>1 DEF Order
  <2>3. r \in DOMAIN book[k.order].rungs /\ s \in DOMAIN book[k.order].rungs
    BY DEF Best, RungsBelow, OpenRungs
  <2>4. r \in Nat /\ s \in Nat
    BY <2>2, <2>3
  <2>5. r <= s /\ s <= r
    BY DEF Best
  <2> QED
    BY <2>4, <2>5
<1>4. \A k \in D : /\ (CHOOSE r \in R : r \in Down(k)) \in R
                   /\ (CHOOSE r \in R : r \in Down(k)) \in Down(k)
  OBVIOUS
<1>5. \A e \in E : \E k \in C : \E r \in Down(k) :
        e = [id |-> num[k], order |-> k.order, rung |-> r, hours |-> k.hours]
  BY DEF Descend
<1>6. \A k \in C : \A r \in Down(k) :
        [id |-> num[k], order |-> k.order, rung |-> r, hours |-> k.hours]
           \in Descend(book, view, C, lastId, FALSE)
  <2> SUFFICES ASSUME NEW k \in C, NEW r \in Down(k)
               PROVE  [id |-> num[k], order |-> k.order, rung |-> r, hours |-> k.hours]
                        \in Descend(book, view, C, lastId, FALSE)
    OBVIOUS
  <2> DEFINE Made(c) == {[id |-> lastId + Cardinality(WalkedUpTo(book, C, c)), order |-> c.order,
                          rung |-> x, hours |-> c.hours] :
                            x \in Best(RungsBelow(book[c.order], c.rung, view, FALSE))}
  <2>1. [id |-> num[k], order |-> k.order, rung |-> r, hours |-> k.hours] \in Made(k)
    OBVIOUS
  <2>2. Descend(book, view, C, lastId, FALSE) = UNION {Made(c) : c \in C}
    BY DEF Descend
  <2> HIDE DEF Made, C
  <2> QED
    BY <2>1, <2>2
<1>7. \A k \in D : k \in C /\ k.order = o
  OBVIOUS
<1>8. \A k \in C : k.order = o /\ (\E r \in R : r \in Down(k)) => k \in D
  OBVIOUS
<1>9. \A e : e \in E <=> e \in Descend(book, view, C, lastId, FALSE) /\ e.order = o /\ e.rung \in R
  OBVIOUS
<1> HIDE DEF C, D, E, Down, num
<1>10. new \in [D -> E]
  <2> SUFFICES ASSUME NEW k \in D PROVE new[k] \in E
    OBVIOUS
  <2> DEFINE r == CHOOSE x \in R : x \in Down(k)
  <2>1. r \in R /\ r \in Down(k)
    BY <1>4
  <2>2. new[k] = [id |-> num[k], order |-> k.order, rung |-> r, hours |-> k.hours]
    OBVIOUS
  <2> HIDE DEF r, new
  <2>3. new[k].order = o /\ new[k].rung \in R
    BY <2>1, <2>2, <1>7
  <2> QED
    BY <2>1, <2>2, <2>3, <1>6, <1>7, <1>9
<1>11. \A k, l \in D : new[k] = new[l] => k = l
  <2> SUFFICES ASSUME NEW k \in D, NEW l \in D, new[k] = new[l] PROVE k = l
    OBVIOUS
  <2>1. new[k].id = num[k] /\ new[l].id = num[l]
    OBVIOUS
  <2> QED
    BY <2>1, <1>2, <1>7
<1>12. \A e \in E : \E k \in D : new[k] = e
  <2> SUFFICES ASSUME NEW e \in E PROVE \E k \in D : new[k] = e
    OBVIOUS
  <2>1. PICK k \in C : \E r \in Down(k) :
           e = [id |-> num[k], order |-> k.order, rung |-> r, hours |-> k.hours]
    BY <1>5
  <2>2. PICK r \in Down(k) :
           e = [id |-> num[k], order |-> k.order, rung |-> r, hours |-> k.hours]
    BY <2>1
  <2>3. e.order = k.order /\ e.rung = r /\ e.order = o /\ e.rung \in R
    BY <2>2, <1>9
  <2>4. k \in D
    BY <2>3, <1>8
  <2>5. (CHOOSE x \in R : x \in Down(k)) = r
    BY <2>3, <2>4, <1>3, <1>4
  <2> QED
    BY <2>2, <2>4, <2>5
<1>13. \A k \in D : hE[new[k]] = hD[k]
  BY <1>10
<1>14. IsFiniteSet(D)
  BY <1>1, <1>7, FS_Subset
<1> HIDE DEF new
<1>15. Cardinality(CountBy(E, hE, MaxHours)) = Cardinality(CountBy(D, hD, MaxHours))
  <2> HIDE DEF hE, hD
  <2> QED
    BY <1>10, <1>11, <1>12, <1>13, <1>14, CountRenamed, LadderAssumption
<1>16. Hours(E) = Hours(D)
  BY <1>15, UnitsAreCounted DEF Hours
<1> QED
  BY <1>16 DEF D, E, C

LEMMA HoursOfOne ==
  ASSUME NEW c \in Chunk
  PROVE  Hours({c}) = c.hours
<1> DEFINE f == [i \in 1..c.hours |-> <<c, i>>]
<1>1. c.hours \in 1..MaxHours
  BY DEF Chunk
<1>2. c.hours \in Nat /\ c.hours <= MaxHours
  BY <1>1, LadderAssumption
<1>3. \A u : u \in Units({c}) <=> \E i \in 1..c.hours : u = <<c, i>>
  <2>1. ASSUME NEW u \in Units({c}) PROVE \E i \in 1..c.hours : u = <<c, i>>
    <3>1. u = <<c, u[2]>> /\ u[2] \in 1..MaxHours /\ u[2] <= c.hours
      BY DEF Units
    <3>2. u[2] \in 1..c.hours
      BY <3>1, <1>2, LadderAssumption
    <3> QED
      BY <3>1, <3>2
  <2>2. ASSUME NEW i \in 1..c.hours PROVE <<c, i>> \in Units({c})
    BY <1>2, LadderAssumption DEF Units
  <2> QED
    BY <2>1, <2>2
<1>4. f \in [1..c.hours -> Units({c})] /\ (\A u \in Units({c}) : \E i \in 1..c.hours : f[i] = u)
  BY <1>3
<1>5. \A i, j \in 1..c.hours : f[i] = f[j] => i = j
  OBVIOUS
<1>6. IsFiniteSet(1..c.hours) /\ Cardinality(1..c.hours) = c.hours
  BY <1>2, FS_Interval
<1>7. Cardinality(Units({c})) = Cardinality(1..c.hours)
  <2> DEFINE S == 1..c.hours
             T == Units({c})
  <2>1. /\ f \in [S -> T] /\ IsFiniteSet(S)
        /\ \A x, y \in S : f[x] = f[y] => x = y
        /\ \A z \in T : \E x \in S : f[x] = z
    BY <1>4, <1>5, <1>6
  <2> HIDE DEF f, S, T
  <2>2. Cardinality(T) = Cardinality(S)
    BY <2>1, SameSize
  <2> QED
    BY <2>2 DEF S, T
<1> QED
  BY <1>6, <1>7 DEF Hours

LEMMA HoursApart ==
  ASSUME NEW C, NEW D, IsFiniteSet(C), IsFiniteSet(D), C \cap D = {}
  PROVE  Hours(C \cup D) = Hours(C) + Hours(D)
<1>1. /\ IsFiniteSet(Units(C)) /\ IsFiniteSet(Units(D))
      /\ Hours(C) \in Nat /\ Hours(D) \in Nat
  BY UnitsFinite
<1>2. Units(C \cup D) = Units(C) \cup Units(D) /\ Units(C) \cap Units(D) = {}
  BY DEF Units
<1>3. Cardinality(Units(C) \cup Units(D)) =
        Cardinality(Units(C)) + Cardinality(Units(D)) - Cardinality(Units(C) \cap Units(D))
  BY <1>1, FS_Union
<1>4. Cardinality(Units(C) \cap Units(D)) = 0
  BY <1>2, FS_EmptySet
<1>5. Hours(C \cup D) = Hours(C) + Hours(D) - 0
  BY <1>2, <1>3, <1>4 DEF Hours
<1> QED
  BY <1>1, <1>5

\* The chunks of an order on some of its rungs, and the hours served to them.
On(C, o, R) == {c \in C : c.order = o /\ c.rung \in R}

ServedOn(o, R) ==
  Cardinality({s \in ServedNow : s.chunk.order = o /\ s.chunk.rung \in R})

\* The chunks turned away whose next rung is one of these.
ComingTo(o, R) ==
  {k \in Rest(OutcomeNow) :
     k.order = o /\ \E r \in R : r \in Best(RungsBelow(book[o], k.rung, view, FALSE))}

\* What a pass does to the hours of an order on some of its rungs.
LEMMA RungHours ==
  ASSUME IInv, ClearPass, NEW o \in Orders, NEW R
  PROVE  /\ Hours(On(placed', o, R)) = ServedOn(o, R)
         /\ Hours(On(Standing, o, R)) = ServedOn(o, R) + Hours(On(Rest(OutcomeNow), o, R))
         /\ Hours(On(Standing', o, R)) = ServedOn(o, R) + Hours(ComingTo(o, R))
         /\ ServedOn(o, R) \in Nat
         /\ Hours(On(Rest(OutcomeNow), o, R)) \in Nat
         /\ Hours(ComingTo(o, R)) \in Nat
<1> DEFINE D == On(Standing, o, R)
<1>1. /\ placed' = Kept(OutcomeNow)
      /\ seeking' = Descend(book, view, Rest(OutcomeNow), lastId, FALSE)
      /\ IInv'
  BY PassEffect, PassInv
<1>2. D \subseteq Standing
  BY DEF On
<1>3. {s \in ServedNow : s.chunk \in D} =
        {s \in ServedNow : s.chunk.order = o /\ s.chunk.rung \in R}
  <2>1. \A s \in ServedNow : s.chunk \in Standing
    <3> SUFFICES ASSUME NEW s \in ServedNow PROVE s.chunk \in Standing
      OBVIOUS
    <3>1. PICK p \in Pools : s \in Accepted(AskedAt(p), p)
      BY DEF ServedNow
    <3>2. PICK u \in Units(AskedAt(p)) :
            s = [chunk |-> u[1], hour |-> u[2], band |-> Band(u, Units(AskedAt(p)), p)]
      BY <3>1 DEF Accepted, Slices
    <3> QED
      BY <3>2 DEF Units, AskedAt, At
  <2> QED
    BY <2>1 DEF On
<1>4. PartsOf(Kept(OutcomeNow), D) = On(placed', o, R)
  <2>1. ASSUME NEW k \in Kept(OutcomeNow)
        PROVE  (\E c \in D : c.id = k.id) <=> k.order = o /\ k.rung \in R
    <3>1. PICK c \in Standing : k.id = c.id /\ k.order = c.order /\ k.rung = c.rung
      BY KeptChunks
    <3>2. \A d \in D : d.id = k.id => d = c
      BY <3>1, <1>2 DEF IInv, IdsDistinct
    <3> QED
      BY <3>1, <3>2 DEF On
  <2> QED
    BY <1>1, <2>1 DEF PartsOf, On
<1>5. PartsOf(Rest(OutcomeNow), D) = On(Rest(OutcomeNow), o, R)
  <2>1. ASSUME NEW k \in Rest(OutcomeNow)
        PROVE  (\E c \in D : c.id = k.id) <=> k.order = o /\ k.rung \in R
    <3>1. PICK c \in Standing : k.id = c.id /\ k.order = c.order /\ k.rung = c.rung
      BY RestChunks
    <3>2. \A d \in D : d.id = k.id => d = c
      BY <3>1, <1>2 DEF IInv, IdsDistinct
    <3> QED
      BY <3>1, <3>2 DEF On
  <2> QED
    BY <2>1 DEF PartsOf, On
<1>6. Hours(On(placed', o, R)) = ServedOn(o, R)
  BY <1>2, <1>3, <1>4, KeptHours DEF ServedOn
<1>7. Hours(D) = ServedOn(o, R) + Hours(On(Rest(OutcomeNow), o, R))
  BY <1>2, <1>3, <1>5, RestHours DEF ServedOn
<1>8. Hours(On(seeking', o, R)) = Hours(ComingTo(o, R))
  <2>1. On(seeking', o, R) =
          {d \in Descend(book, view, Rest(OutcomeNow), lastId, FALSE) : d.order = o /\ d.rung \in R}
    BY <1>1 DEF On
  <2> QED
    BY <2>1, DescendHours, ZenonT(60) DEF ComingTo
<1>9. Hours(On(Standing', o, R)) = Hours(On(placed', o, R)) + Hours(On(seeking', o, R))
  <2>1. IsFiniteSet(Standing)'
    BY <1>1, AlwaysFinite, PTL
  <2>2. On(Standing', o, R) = On(placed', o, R) \cup On(seeking', o, R)
    BY DEF On, Standing
  <2>3. On(placed', o, R) \cap On(seeking', o, R) = {}
    BY <1>1 DEF On, IInv, Apart
  <2>4. On(placed', o, R) \subseteq Standing' /\ On(seeking', o, R) \subseteq Standing'
    BY DEF On, Standing
  <2>5. IsFiniteSet(On(placed', o, R)) /\ IsFiniteSet(On(seeking', o, R))
    BY <2>1, <2>4, FS_Subset
  <2> QED
    BY <2>2, <2>3, <2>5, HoursApart
<1>10. /\ Hours(On(Rest(OutcomeNow), o, R)) \in Nat
       /\ Hours(ComingTo(o, R)) \in Nat
  <2>1. On(Rest(OutcomeNow), o, R) \subseteq Rest(OutcomeNow) /\ ComingTo(o, R) \subseteq Rest(OutcomeNow)
    BY DEF On, ComingTo
  <2>2. IsFiniteSet(Rest(OutcomeNow))
    BY RestChunks
  <2> QED
    BY <2>1, <2>2, FS_Subset, UnitsFinite
<1>11. ServedOn(o, R) \in Nat
  <2>1. {s \in ServedNow : s.chunk.order = o /\ s.chunk.rung \in R} \subseteq ServedNow
    OBVIOUS
  <2> QED
    BY <2>1, ServedFinite, FS_Subset, FS_CardinalityType DEF ServedOn
<1> QED
  BY <1>6, <1>7, <1>8, <1>9, <1>10, <1>11

-----------------------------------------------------------------------------
(* What a pool holds after a pass is exactly what it served.               *)

LEMMA ServedAtPool ==
  ASSUME IInv, NEW p \in Pools
  PROVE  {s \in ServedNow : s.chunk \in AskedAt(p)} = Accepted(AskedAt(p), p)
<1>1. ASSUME NEW q \in Pools, NEW s \in Accepted(AskedAt(q), q)
      PROVE  s.chunk \in AskedAt(q)
  <2>1. PICK u \in Units(AskedAt(q)) :
          s = [chunk |-> u[1], hour |-> u[2], band |-> Band(u, Units(AskedAt(q)), q)]
    BY DEF Accepted, Slices
  <2> QED
    BY <2>1 DEF Units
<1>2. \A q \in Pools : AskedAt(p) \cap AskedAt(q) # {} => p = q
  BY DEF AskedAt, At
<1> QED
  BY <1>1, <1>2 DEF ServedNow

LEMMA HeldAfterPass ==
  ASSUME IInv, ClearPass, NEW p \in Pools
  PROVE  HeldAt(p)' = Cardinality(Accepted(AskedAt(p), p))
<1>1. placed' = Kept(OutcomeNow) /\ book' = book
  BY PassEffect DEF ClearPass
<1>2. At(book', placed', p) = PartsOf(Kept(OutcomeNow), AskedAt(p))
  <2>1. ASSUME NEW k \in Kept(OutcomeNow)
        PROVE  PoolOf(book, k) = p <=> \E c \in AskedAt(p) : c.id = k.id
    <3>1. PICK c \in Standing : k.id = c.id /\ k.order = c.order /\ k.rung = c.rung
      BY KeptChunks
    <3>2. PoolOf(book, k) = PoolOf(book, c)
      BY <3>1 DEF PoolOf
    <3>3. \A d \in AskedAt(p) : d.id = k.id => d = c
      BY <3>1 DEF IInv, IdsDistinct, AskedAt, At
    <3> QED
      BY <3>1, <3>2, <3>3 DEF AskedAt, At
  <2> QED
    BY <1>1, <2>1 DEF At, PartsOf
<1>3. AskedAt(p) \subseteq Standing
  BY DEF AskedAt, At
<1>4. Hours(At(book', placed', p)) = Cardinality(Accepted(AskedAt(p), p))
  BY <1>2, <1>3, KeptHours, ServedAtPool
<1> QED
  BY <1>4 DEF HeldAt

LEMMA HeldBounds ==
  ASSUME IInv, NEW p \in Pools
  PROVE  /\ HeldAt(p) \in Nat
         /\ view[p].supply \in Nat
         /\ Hours(AskedAt(p)) \in Nat
         /\ HeldAt(p) <= Hours(AskedAt(p))
         /\ placed = {} => HeldAt(p) = 0
<1>1. IsFiniteSet(Standing) /\ placed \subseteq Standing
  BY StandingFinite DEF Standing
<1>2. IsFiniteSet(AskedAt(p)) /\ IsFiniteSet(At(book, placed, p))
  BY <1>1, FS_Subset DEF AskedAt, At
<1>3. IsFiniteSet(Units(AskedAt(p))) /\ HeldAt(p) \in Nat /\ Hours(AskedAt(p)) \in Nat
  BY <1>2, UnitsFinite DEF HeldAt
<1>4. Units(At(book, placed, p)) \subseteq Units(AskedAt(p))
  BY <1>1 DEF Units, At, AskedAt
<1>5. HeldAt(p) <= Hours(AskedAt(p))
  BY <1>3, <1>4, FS_Subset DEF HeldAt, Hours
<1>6. view[p].supply \in Nat
  BY RealtimeAssumption DEF IInv, TypeOK, PoolView
<1>7. placed = {} => Units(At(book, placed, p)) = {}
  BY DEF Units, At
<1>8. placed = {} => HeldAt(p) = 0
  BY <1>7, FS_EmptySet DEF HeldAt, Hours
<1> QED
  BY <1>3, <1>5, <1>6, <1>8

LEMMA HeldAfterPassIs ==
  ASSUME IInv, ClearPass, NEW p \in Pools
  PROVE  HeldAt(p)' = IF Hours(AskedAt(p)) <= view[p].supply
                      THEN Hours(AskedAt(p)) ELSE view[p].supply
<1>1. AskedAt(p) \subseteq Standing
  BY DEF AskedAt, At
<1> QED
  BY <1>1, HeldAfterPass, AcceptedCount

\* However many passes displace, split and move hours down the ladders, a pool
\* is never sold beyond its supply.
THEOREM SupplySafe == Spec => []SupplyNeverOversold
<1>1. IInv /\ Init => SupplyNeverOversold
  <2> SUFFICES ASSUME IInv, Init, NEW p \in Pools PROVE HeldAt(p) <= view[p].supply
    BY DEF SupplyNeverOversold
  <2> QED
    BY HeldBounds DEF Init
<1>2. IInv /\ SupplyNeverOversold /\ [Next]_vars => SupplyNeverOversold'
  <2> SUFFICES ASSUME IInv, SupplyNeverOversold, [Next]_vars, NEW p \in Pools
               PROVE  HeldAt(p)' <= view'[p].supply
    BY DEF SupplyNeverOversold
  <2>1. CASE ClearPass
    <3>1. view' = view
      BY <2>1 DEF ClearPass
    <3> QED
      BY <2>1, <3>1, HeldAfterPassIs, HeldBounds
  <2>2. CASE Settle \/ UNCHANGED vars
    <3>1. HeldAt(p)' = HeldAt(p) /\ view' = view
      BY <2>2 DEF Settle, vars, HeldAt, At, PoolOf
    <3> QED
      BY <3>1 DEF SupplyNeverOversold
  <2> QED
    BY <2>1, <2>2 DEF Next
<1> QED
  BY <1>1, <1>2, Invariant, PTL DEF Spec

\* A full pool stays full to the end of the round.
THEOREM FullPoolsStayFull == Spec => FullStaysFull
<1>1. IInv /\ [Next]_vars =>
        [\A p \in Pools : HeldAt(p) = view[p].supply => HeldAt(p)' = view[p].supply]_vars
  <2> SUFFICES ASSUME IInv, Next, NEW p \in Pools, HeldAt(p) = view[p].supply
               PROVE  HeldAt(p)' = view[p].supply
    OBVIOUS
  <2>1. CASE ClearPass
    BY <2>1, HeldAfterPassIs, HeldBounds
  <2>2. CASE Settle
    BY <2>2 DEF Settle, HeldAt, At, PoolOf
  <2> QED
    BY <2>1, <2>2 DEF Next
<1> QED
  BY <1>1, Invariant, PTL DEF Spec, FullStaysFull

\* Until a pool is full it has served all its demand.
Unspoilt == \A p \in Pools : HeldAt(p) < view[p].supply => demand[p] <= HeldAt(p)

\* Tips are charged only where no box stands idle.
THEOREM ScarcePoolsAreFull == Spec => []ScarceOnlyWhenFull
<1>1. IInv /\ Init => Unspoilt
  BY HeldBounds DEF Init, Unspoilt
<1>2. IInv /\ Unspoilt /\ [Next]_vars => Unspoilt'
  <2> SUFFICES ASSUME IInv, Unspoilt, [Next]_vars, NEW p \in Pools,
                      HeldAt(p)' < view'[p].supply
               PROVE  demand'[p] <= HeldAt(p)'
    BY DEF Unspoilt
  <2>1. CASE ClearPass
    <3> DEFINE F == At(book, FirstArrivals, p)
               S == At(book, seeking, p)
               P == At(book, placed, p)
    <3>1. view' = view /\ demand'[p] = demand[p] + Hours(F)
      BY <2>1 DEF ClearPass
    <3>2. HeldAt(p)' = Hours(AskedAt(p)) /\ HeldAt(p) < view[p].supply
      BY <2>1, <3>1, HeldAfterPassIs, HeldBounds
    <3>3. demand[p] <= HeldAt(p) /\ demand[p] \in Nat
      BY <3>2 DEF Unspoilt, IInv, TypeOK
    <3>4. IsFiniteSet(S) /\ IsFiniteSet(P) /\ IsFiniteSet(F)
      <4>1. S \subseteq Standing /\ P \subseteq Standing /\ F \subseteq Standing
        BY DEF At, FirstArrivals, Standing
      <4> HIDE DEF S, P, F
      <4> QED
        BY <4>1, StandingFinite, FS_Subset
    <3>5. IsFiniteSet(Units(S)) /\ IsFiniteSet(Units(P))
          /\ Hours(S) \in Nat /\ Hours(P) \in Nat /\ Hours(F) \in Nat
      BY <3>4, UnitsFinite
    <3>6. Units(AskedAt(p)) = Units(P) \cup Units(S)
      BY DEF AskedAt, Standing, At, Units
    <3>7. Units(P) \cap Units(S) = {}
      BY DEF At, Units, IInv, Apart
    <3>8. Hours(AskedAt(p)) = Hours(P) + Hours(S)
      <4> HIDE DEF S, P
      <4>1. Cardinality(Units(P) \cup Units(S)) =
              Cardinality(Units(P)) + Cardinality(Units(S)) - Cardinality(Units(P) \cap Units(S))
        BY <3>5, FS_Union
      <4>2. Cardinality(Units(P) \cap Units(S)) = 0
        BY <3>7, FS_EmptySet
      <4> QED
        BY <3>5, <3>6, <4>1, <4>2 DEF Hours
    <3>9. Hours(F) <= Hours(S)
      <4>1. Units(F) \subseteq Units(S)
        BY DEF Units, At, FirstArrivals
      <4> QED
        BY <3>5, <4>1, FS_Subset DEF Hours
    <3>10. HeldAt(p) = Hours(P)
      BY DEF HeldAt
    <3> HIDE DEF F, S, P
    <3> QED
      BY <3>1, <3>2, <3>3, <3>5, <3>8, <3>9, <3>10
  <2>2. CASE Settle \/ UNCHANGED vars
    <3>1. HeldAt(p)' = HeldAt(p) /\ view' = view /\ demand' = demand
      BY <2>2 DEF Settle, vars, HeldAt, At, PoolOf
    <3> QED
      BY <3>1 DEF Unspoilt
  <2> QED
    BY <2>1, <2>2 DEF Next
<1>3. IInv /\ Unspoilt /\ SupplyNeverOversold => ScarceOnlyWhenFull
  <2> SUFFICES ASSUME IInv, Unspoilt, SupplyNeverOversold, NEW p \in Pools, Scarce(p)
               PROVE  HeldAt(p) = view[p].supply
    BY DEF ScarceOnlyWhenFull
  <2>1. demand[p] \in Nat
    BY DEF IInv, TypeOK
  <2> QED
    BY <2>1, HeldBounds DEF Scarce, Unspoilt, SupplyNeverOversold
<1> QED
  BY <1>1, <1>2, <1>3, Invariant, SupplySafe, PTL DEF Spec

\* No fill undercuts the reserve, and no renter pays more for an hour, tip
\* included, than the rung's max.
THEOREM ChargesSafe == Spec => []ChargesWithinLimits
<1>1. Init => ChargesWithinLimits
  BY DEF Init, ChargesWithinLimits
<1>2. IInv /\ ChargesWithinLimits /\ [Next]_vars => ChargesWithinLimits'
  <2> SUFFICES ASSUME IInv, ChargesWithinLimits, [Next]_vars
               PROVE  ChargesWithinLimits'
    OBVIOUS
  <2>1. CASE Settle
    <3> SUFFICES ASSUME NEW f \in fills'
                 PROVE  /\ f.pay >= view[book[f.order].rungs[f.rung].pool].reserve
                        /\ f.tip >= 0
                        /\ f.pay + f.tip <= book[f.order].rungs[f.rung].max
      BY <2>1 DEF Settle, ChargesWithinLimits
    <3>1. PICK c \in placed : f = FillOf(c) /\ Payable(c)
      BY <2>1 DEF Settle
    <3>2. c \in Standing
      BY DEF Standing
    <3>3. /\ view[PoolOf(book, c)].base \in Nat
          /\ view[PoolOf(book, c)].reserve \in Nat
          /\ book[c.order].rungs[c.rung].max \in Nat
      BY <3>2, ChunkContext DEF IInv, PoolView, Rung
    <3>4. TipAt(c) \in Nat
      BY <3>2, TipAtNat DEF IInv
    <3>5. /\ ChargedTip(c) >= 0
          /\ view[PoolOf(book, c)].base + ChargedTip(c) <= book[c.order].rungs[c.rung].max
      BY <3>1, <3>3, <3>4 DEF ChargedTip, Payable
    <3>6. f.order = c.order /\ f.rung = c.rung /\ f.tip = ChargedTip(c)
          /\ f.pay = view[PoolOf(book, c)].base
      BY <3>1 DEF FillOf
    <3>7. book[f.order].rungs[f.rung].pool = PoolOf(book, c)
      BY <3>6 DEF PoolOf
    <3> QED
      BY <3>1, <3>5, <3>6, <3>7 DEF Payable
  <2>2. CASE ClearPass \/ UNCHANGED vars
    BY <2>2 DEF ClearPass, vars, ChargesWithinLimits
  <2> QED
    BY <2>1, <2>2 DEF Next
<1> QED
  BY <1>1, <1>2, Invariant, PTL DEF Spec

-----------------------------------------------------------------------------
(* No box stays idle after a pool has turned hours away.                   *)

\* A pool that is not asked for more than it has turns nobody away.
LEMMA RoomForAll ==
  ASSUME IInv, ClearPass, NEW p \in Pools, Hours(AskedAt(p)) <= view[p].supply
  PROVE  \A k \in Rest(OutcomeNow) : PoolOf(book, k) # p
<1> DEFINE D == AskedAt(p)
           E == PartsOf(Rest(OutcomeNow), D)
<1>1. D \subseteq Standing
  BY DEF AskedAt, At
<1>2. Hours(D) = Cardinality(Accepted(D, p)) /\ Hours(D) \in Nat
  BY <1>1, AcceptedCount, HeldBounds
<1>3. IsFiniteSet(E) /\ IsFiniteSet(Units(E)) /\ Hours(E) \in Nat
  <2>1. IsFiniteSet(E)
    BY RestChunks, FS_Subset DEF PartsOf
  <2> QED
    BY <2>1, UnitsFinite
<1>4. Hours(D) = Cardinality(Accepted(D, p)) + Hours(E)
  BY <1>1, RestHours, ServedAtPool
<1>5. Hours(E) = 0
  <2> HIDE DEF D, E
  <2> QED
    BY <1>2, <1>3, <1>4
<1>6. Units(E) = {}
  BY <1>3, <1>5, FS_EmptySet DEF Hours
<1>7. ASSUME NEW k \in Rest(OutcomeNow), PoolOf(book, k) = p
      PROVE  FALSE
  <2>1. PICK c \in Standing : k.id = c.id /\ k.order = c.order /\ k.rung = c.rung
    BY RestChunks
  <2>2. c \in D
    BY <1>7, <2>1 DEF AskedAt, At, PoolOf
  <2>3. k \in E
    BY <2>1, <2>2 DEF PartsOf
  <2>4. k.hours \in 1..MaxHours
    BY RestChunks DEF Chunk
  <2>5. 1 \in 1..MaxHours /\ 1 <= k.hours
    BY <2>4, LadderAssumption
  <2>6. <<k, 1>> \in Units(E)
    <3> HIDE DEF E
    <3> QED
      BY <2>3, <2>5 DEF Units
  <2> QED
    BY <2>6, <1>6
<1> QED
  BY <1>7

LEMMA RungContext ==
  ASSUME IInv, NEW o \in Orders, NEW r \in DOMAIN book[o].rungs
  PROVE  r \in Nat \ {0} /\ book[o].rungs[r] \in Rung /\ book[o].rungs[r].pool \in Pools
<1>1. book[o].rungs \in Seq(Rung)
  BY RealtimeAssumption DEF IInv, TypeOK, Order
<1>2. r \in Nat \ {0} /\ book[o].rungs[r] \in Rung
  BY <1>1
<1> QED
  BY <1>2 DEF Rung

LEMMA OpenContext ==
  ASSUME IInv, NEW o \in Orders
  PROVE  /\ OpenRungs(book[o], view, FALSE) \subseteq Nat
         /\ \A r \in OpenRungs(book[o], view, FALSE) :
              r \in DOMAIN book[o].rungs /\ book[o].rungs[r].pool \in Pools
<1>1. \A r \in OpenRungs(book[o], view, FALSE) : r \in DOMAIN book[o].rungs
  BY DEF OpenRungs
<1>2. \A r \in OpenRungs(book[o], view, FALSE) :
        r \in Nat /\ book[o].rungs[r].pool \in Pools
  BY <1>1, RungContext
<1> QED
  BY <1>1, <1>2

\* On the ladder of an order, rungs are numbers and some open rung below is next.
LEMMA NextOpen ==
  ASSUME IInv, NEW o \in Orders, NEW q, NEW r \in OpenRungs(book[o], view, FALSE), q < r,
         q \in Nat
  PROVE  \E s \in Best(RungsBelow(book[o], q, view, FALSE)) : s \in Nat /\ s <= r /\ q < s
<1> DEFINE below == RungsBelow(book[o], q, view, FALSE)
<1>1. OpenRungs(book[o], view, FALSE) \subseteq Nat
  BY OpenContext
<1>2. below \subseteq Nat /\ r \in below
  BY <1>1 DEF RungsBelow
<1>3. PICK s \in below : \A x \in below : s <= x
  <2> HIDE DEF below
  <2> QED
    BY <1>2, LeastOf
<1>4. s \in Best(below)
  BY <1>3 DEF Best
<1>5. s \in Nat /\ s <= r /\ q < s
  BY <1>2, <1>3 DEF RungsBelow
<1> QED
  BY <1>4, <1>5

UpTo(r) == {q \in Nat : q <= r}

DownTo(o, r) == Hours(On(Standing, o, UpTo(r)))

DownToAgrees == \A o \in Orders : \A r \in Nat : HoursDownTo(o, r) = DownTo(o, r)

LEMMA DownToIs == IInv => DownToAgrees
<1> SUFFICES ASSUME IInv, NEW o \in Orders, NEW r \in Nat
             PROVE  HoursDownTo(o, r) = DownTo(o, r)
  BY DEF DownToAgrees
<1>1. \A c \in Standing : c.rung \in Nat
  BY DEF IInv, TypeOK, Standing, Chunk
<1>2. {c \in OfOrder(placed \cup seeking, o) : c.rung <= r} = On(Standing, o, UpTo(r))
  BY <1>1 DEF OfOrder, On, UpTo, Standing
<1> QED
  BY <1>2 DEF HoursDownTo, DownTo

\* Hours leave the rungs down to an open rung r by r alone.
LEMMA DownToStays ==
  ASSUME IInv, ClearPass, NEW o \in Orders, NEW r \in OpenRungs(book[o], view, FALSE),
         \A k \in Rest(OutcomeNow) : k.order = o => k.rung # r
  PROVE  DownTo(o, r)' = DownTo(o, r)
<1> DEFINE p == book[o].rungs[r].pool
           R == UpTo(r)
<1>2. r \in Nat /\ p \in Pools
  BY OpenContext
<1>3. \A k \in Rest(OutcomeNow) : k.order = o => k.rung # r
  OBVIOUS
<1>4. \A k \in Rest(OutcomeNow) : k.rung \in Nat
  BY RestChunks DEF Chunk
<1>5. ASSUME NEW k \in Rest(OutcomeNow), k.order = o
      PROVE  k.rung \in R <=> \E s \in R : s \in Best(RungsBelow(book[o], k.rung, view, FALSE))
  <2>1. ASSUME k.rung \in R
        PROVE  \E s \in R : s \in Best(RungsBelow(book[o], k.rung, view, FALSE))
    <3>1. k.rung < r
      BY <2>1, <1>2, <1>3, <1>4, <1>5 DEF UpTo
    <3> QED
      BY <3>1, <1>4, NextOpen DEF UpTo
  <2>2. ASSUME NEW s \in R, s \in Best(RungsBelow(book[o], k.rung, view, FALSE))
        PROVE  k.rung \in R
    <3>1. s > k.rung /\ s \in Nat /\ s <= r
      BY <2>2 DEF Best, RungsBelow, UpTo
    <3> QED
      BY <3>1, <1>2, <1>4 DEF UpTo
  <2> QED
    BY <2>1, <2>2
<1>6. On(Rest(OutcomeNow), o, R) = ComingTo(o, R)
  BY <1>5 DEF On, ComingTo
<1> HIDE DEF R
<1>7. Hours(On(Standing', o, R)) = Hours(On(Standing, o, R))
  BY <1>6, RungHours
<1> QED
  BY <1>7 DEF R, DownTo

\* A pool that turned an affordable hour away is full from then on.
THEOREM NoBoxStaysIdle == Spec => []NoIdleBoxAfterTurningAway
<1>1. IInv /\ Init => NoIdleBoxAfterTurningAway
  <2> SUFFICES ASSUME IInv, Init, NEW o \in Orders, NEW r \in DOMAIN book[o].rungs,
                      TurnedAway(o, r)
               PROVE  FALSE
    BY DEF NoIdleBoxAfterTurningAway
  <2>1. book[o] \in Order
    BY RealtimeAssumption DEF IInv, TypeOK
  <2>2. OpenRungs(book[o], view, FALSE) \subseteq Nat
    BY OpenContext
  <2>3. r \in OpenRungs(book[o], view, FALSE)
    BY DEF TurnedAway
  <2>4. PICK s \in OpenRungs(book[o], view, FALSE) :
          \A x \in OpenRungs(book[o], view, FALSE) : s <= x
    BY <2>2, <2>3, LeastOf
  <2> DEFINE c == [id |-> Cardinality(EnteredUpTo(book, o)), order |-> o, rung |-> s,
                   hours |-> book[o].hours]
  <2>5. s \in Best(OpenRungs(book[o], view, FALSE))
    BY <2>4 DEF Best
  <2>6. c \in seeking
    <3> DEFINE Made(q) == {[id |-> Cardinality(EnteredUpTo(book, q)), order |-> q, rung |-> x,
                            hours |-> book[q].hours] : x \in Best(OpenRungs(book[q], view, FALSE))}
    <3>1. c \in Made(o)
      BY <2>5
    <3>2. seeking = UNION {Made(q) : q \in Orders}
      BY DEF Init, FirstChunks
    <3> HIDE DEF Made, c
    <3> QED
      BY <3>1, <3>2
  <2>7. c \in Chunk /\ c \in Standing /\ c.order = o /\ c.rung = s /\ c.hours = book[o].hours
    BY <2>6 DEF IInv, TypeOK, Standing
  <2> HIDE DEF c
  <2>8. s \in UpTo(r)
    BY <2>2, <2>3, <2>4 DEF UpTo
  <2>9. {c} \subseteq On(Standing, o, UpTo(r))
    BY <2>7, <2>8 DEF On
  <2>10. Hours({c}) <= DownTo(o, r)
    <3>1. On(Standing, o, UpTo(r)) \subseteq Standing
      BY DEF On
    <3>2. IsFiniteSet(Units(On(Standing, o, UpTo(r))))
      BY <3>1, StandingFinite, FS_Subset, UnitsFinite
    <3>3. Units({c}) \subseteq Units(On(Standing, o, UpTo(r)))
      BY <2>9 DEF Units
    <3> QED
      BY <3>2, <3>3, FS_Subset DEF Hours, DownTo
  <2>11. Hours({c}) = book[o].hours
    BY <2>7, HoursOfOne
  <2>12. HoursDownTo(o, r) = DownTo(o, r)
    BY <2>2, <2>3, DownToIs DEF DownToAgrees
  <2>13. book[o].hours \in Nat /\ DownTo(o, r) \in Nat
    <3>1. On(Standing, o, UpTo(r)) \subseteq Standing
      BY DEF On
    <3>2. DownTo(o, r) \in Nat
      BY <3>1, StandingFinite, FS_Subset, UnitsFinite DEF DownTo
    <3> QED
      BY <3>2, <2>1, LadderAssumption DEF Order
  <2> QED
    BY <2>10, <2>11, <2>12, <2>13 DEF TurnedAway
<1>2. IInv /\ NoIdleBoxAfterTurningAway /\ [Next]_vars => NoIdleBoxAfterTurningAway'
  <2> SUFFICES ASSUME IInv, NoIdleBoxAfterTurningAway, [Next]_vars
               PROVE  NoIdleBoxAfterTurningAway'
    OBVIOUS
  <2>1. CASE ClearPass
    <3>1. book' = book /\ view' = view /\ IInv'
      BY <2>1, PassInv DEF ClearPass
    <3>2. IInv'
      BY <3>1
    <3>3. DownToAgrees' /\ DownToAgrees
      BY <3>2, DownToIs, PTL
    <3> SUFFICES ASSUME NEW o \in Orders, NEW r \in DOMAIN book[o].rungs, NEW p \in Pools,
                        TurnedAway(o, r)', p = book[o].rungs[r].pool
                 PROVE  HeldAt(p)' = view[p].supply
      <4>1. \A o \in Orders : \A r \in DOMAIN book[o].rungs : book[o].rungs[r].pool \in Pools
        BY RungContext
      <4> QED
        BY <3>1, <4>1 DEF NoIdleBoxAfterTurningAway, HeldAt
    <3>4. r \in OpenRungs(book[o], view, FALSE) /\ r \in Nat
      BY <3>1, RungContext DEF TurnedAway, OpenRungs, Affordable
    <3>5. HoursDownTo(o, r)' = DownTo(o, r)' /\ HoursDownTo(o, r) = DownTo(o, r)
      BY <3>3, <3>4 DEF DownToAgrees
    <3>6. HoursDownTo(o, r)' < book[o].hours
      BY <3>1 DEF TurnedAway
    <3>7. CASE Hours(AskedAt(p)) <= view[p].supply
      <4>1. \A k \in Rest(OutcomeNow) : k.order = o => k.rung # r
        BY <2>1, <3>7, RoomForAll DEF PoolOf
      <4>2. HoursDownTo(o, r) < book[o].hours
        BY <2>1, <3>4, <3>5, <3>6, <4>1, DownToStays
      <4>3. TurnedAway(o, r)
        BY <4>2, <3>4 DEF TurnedAway
      <4>4. HeldAt(p) = view[p].supply
        BY <4>3 DEF NoIdleBoxAfterTurningAway
      <4> QED
        BY <2>1, <4>4, HeldAfterPassIs, HeldBounds
    <3>8. CASE ~(Hours(AskedAt(p)) <= view[p].supply)
      BY <2>1, <3>8, HeldAfterPassIs
    <3> QED
      BY <3>7, <3>8
  <2>2. CASE Settle \/ UNCHANGED vars
    <3>1. UNCHANGED <<book, view, placed, seeking>>
      BY <2>2 DEF Settle, vars
    <3>2. \A o, r : /\ TurnedAway(o, r)' = TurnedAway(o, r)
                    /\ HeldAt(book[o].rungs[r].pool)' = HeldAt(book[o].rungs[r].pool)
      BY <3>1 DEF TurnedAway, HoursDownTo, OpenRungs, Affordable, HeldAt, At, PoolOf
    <3> QED
      BY <3>1, <3>2 DEF NoIdleBoxAfterTurningAway
  <2> QED
    BY <2>1, <2>2 DEF Next
<1> QED
  BY <1>1, <1>2, Invariant, PTL DEF Spec

-----------------------------------------------------------------------------
(* A round is deferred acceptance by hours.                                *)

\* The open rung from which hours come down to r, if there is one.
Above(o, r) ==
  {q \in OpenRungs(book[o], view, FALSE) :
     q < r /\ \A s \in OpenRungs(book[o], view, FALSE) : s < r => s <= q}

LEMMA ComingFrom ==
  ASSUME IInv, NEW o \in Orders, NEW r \in DOMAIN book[o].rungs
  PROVE  /\ \A q \in Above(o, r) : r \in OpenRungs(book[o], view, FALSE) =>
              ComingTo(o, {r}) = On(Rest(OutcomeNow), o, {q})
         /\ r \notin OpenRungs(book[o], view, FALSE) \/ Above(o, r) = {} =>
              ComingTo(o, {r}) = {}
<1> DEFINE open == OpenRungs(book[o], view, FALSE)
<1>1. open \subseteq Nat /\ r \in Nat
  BY OpenContext, RungContext
<1>2. \A k \in Rest(OutcomeNow) : k.order = o => k.rung \in open
  <2> SUFFICES ASSUME NEW k \in Rest(OutcomeNow), k.order = o PROVE k.rung \in open
    OBVIOUS
  <2>1. PICK c \in Standing : k.id = c.id /\ k.order = c.order /\ k.rung = c.rung
    BY RestChunks
  <2> QED
    BY <2>1 DEF IInv, OnOpenRungs
<1>3. \A k \in Rest(OutcomeNow) : k.order = o =>
        (r \in Best(RungsBelow(book[o], k.rung, view, FALSE)) <=> r \in open /\ k.rung \in Above(o, r))
  <2> SUFFICES ASSUME NEW q \in open
               PROVE  r \in Best(RungsBelow(book[o], q, view, FALSE)) <=> r \in open /\ q \in Above(o, r)
    BY <1>2
  <2>1. r \in Best(RungsBelow(book[o], q, view, FALSE)) <=>
          r \in open /\ r > q /\ \A s \in open : s > q => r <= s
    BY DEF Best, RungsBelow
  <2>2. q \in Above(o, r) <=> q < r /\ \A s \in open : s < r => s <= q
    BY DEF Above
  <2>3. \A s \in open : s \in Nat
    BY <1>1
  <2>4. q \in open /\ q \in Nat /\ r \in Nat
    BY <1>1
  <2> HIDE DEF open
  <2>5. ASSUME r \in open, r > q, \A s \in open : s > q => r <= s
        PROVE  q < r /\ \A s \in open : s < r => s <= q
    BY <2>3, <2>4, <2>5
  <2>6. ASSUME r \in open, q < r, \A s \in open : s < r => s <= q
        PROVE  r > q /\ \A s \in open : s > q => r <= s
    BY <2>3, <2>4, <2>6
  <2> QED
    BY <2>1, <2>2, <2>5, <2>6
<1>4. \A k \in Rest(OutcomeNow) :
        k \in ComingTo(o, {r}) <=> k.order = o /\ r \in open /\ k.rung \in Above(o, r)
  <2> SUFFICES ASSUME NEW k \in Rest(OutcomeNow)
               PROVE  k \in ComingTo(o, {r}) <=> k.order = o /\ r \in open /\ k.rung \in Above(o, r)
    OBVIOUS
  <2>1. k \in ComingTo(o, {r}) <=>
          k.order = o /\ r \in Best(RungsBelow(book[o], k.rung, view, FALSE))
    BY DEF ComingTo
  <2> QED
    BY <1>3, <2>1
<1>5. \A q, s \in Above(o, r) : q = s
  <2> SUFFICES ASSUME NEW q \in Above(o, r), NEW s \in Above(o, r) PROVE q = s
    OBVIOUS
  <2>1. q <= s /\ s <= q
    BY DEF Above
  <2>2. q \in Nat /\ s \in Nat
    BY <1>1 DEF Above
  <2> QED
    BY <2>1, <2>2
<1>6. ComingTo(o, {r}) \subseteq Rest(OutcomeNow)
  BY DEF ComingTo
<1>7. ASSUME NEW q \in Above(o, r), r \in open
      PROVE  ComingTo(o, {r}) = On(Rest(OutcomeNow), o, {q})
  BY <1>4, <1>5, <1>6, <1>7 DEF On
<1>8. ASSUME r \notin open \/ Above(o, r) = {}
      PROVE  ComingTo(o, {r}) = {}
  BY <1>4, <1>6, <1>8
<1> QED
  BY <1>7, <1>8

LEMMA StandMoves ==
  ASSUME IInv, ClearPass, NEW o \in Orders, NEW r \in DOMAIN book[o].rungs
  PROVE  Hours(On(Standing', o, {r})) =
           IF r \in OpenRungs(book[o], view, FALSE) /\ Above(o, r) # {}
           THEN LET q == CHOOSE s \in Above(o, r) : TRUE
                IN Hours(On(placed', o, {r})) + Hours(On(Standing, o, {q}))
                     - Hours(On(placed', o, {q}))
           ELSE Hours(On(placed', o, {r}))
<1>1. CASE r \in OpenRungs(book[o], view, FALSE) /\ Above(o, r) # {}
  <2> DEFINE q == CHOOSE s \in Above(o, r) : TRUE
             back == Hours(On(Rest(OutcomeNow), o, {q}))
  <2>1. q \in Above(o, r)
    BY <1>1
  <2> HIDE DEF q
  <2>2. ComingTo(o, {r}) = On(Rest(OutcomeNow), o, {q})
    BY <1>1, <2>1, ComingFrom
  <2>3. /\ Hours(On(placed', o, {q})) = ServedOn(o, {q})
        /\ Hours(On(Standing, o, {q})) = ServedOn(o, {q}) + back
        /\ ServedOn(o, {q}) \in Nat /\ back \in Nat
    BY RungHours
  <2>4. /\ Hours(On(placed', o, {r})) = ServedOn(o, {r})
        /\ Hours(On(Standing', o, {r})) = ServedOn(o, {r}) + back
        /\ ServedOn(o, {r}) \in Nat
    BY <2>2, RungHours
  <2> HIDE DEF back
  <2>5. Hours(On(Standing', o, {r})) =
          Hours(On(placed', o, {r})) + Hours(On(Standing, o, {q})) - Hours(On(placed', o, {q}))
    BY <2>3, <2>4
  <2> QED
    BY <1>1, <2>5 DEF q
<1>2. CASE ~(r \in OpenRungs(book[o], view, FALSE) /\ Above(o, r) # {})
  <2>1. ComingTo(o, {r}) = {}
    BY <1>2, ComingFrom
  <2>2. Units(ComingTo(o, {r})) = {}
    BY <2>1 DEF Units
  <2>3. Hours(ComingTo(o, {r})) = 0
    BY <2>2, FS_EmptySet DEF Hours
  <2>4. /\ Hours(On(placed', o, {r})) = ServedOn(o, {r})
        /\ Hours(On(Standing', o, {r})) = ServedOn(o, {r}) + 0
        /\ ServedOn(o, {r}) \in Nat
    BY <2>3, RungHours
  <2>5. Hours(On(Standing', o, {r})) = Hours(On(placed', o, {r}))
    BY <2>4
  <2> QED
    BY <1>2, <2>5
<1> QED
  BY <1>1, <1>2

-----------------------------------------------------------------------------
(* The operators of the promise are those of the round.                    *)

LEMMA SameOpen ==
  ASSUME NEW o
  PROVE  /\ Promise!Open(o) = OpenRungs(book[o], view, FALSE)
         /\ \A r : Promise!RungAbove(o, r) = Above(o, r)
         /\ Promise!Best(Promise!Open(o)) = Best(OpenRungs(book[o], view, FALSE))
<1>1. Promise!Open(o) = OpenRungs(book[o], view, FALSE)
  BY DEF Promise!Open, Promise!OpenRungs, OpenRungs, Promise!Affordable, Affordable
<1> QED
  BY <1>1 DEF Promise!RungAbove, Above, Promise!Best, Best

LEMMA SameSizes == \A S : Promise!Cardinality(S) = Cardinality(S)
BY DEF Promise!Cardinality, Cardinality

LEMMA ByRungIs ==
  ASSUME NEW C, NEW o \in Orders, NEW r \in DOMAIN book[o].rungs
  PROVE  HoursByRung(C)[o][r] = Hours(On(C, o, {r}))
<1>1. {c \in OfOrder(C, o) : c.rung = r} = On(C, o, {r})
  BY DEF OfOrder, On
<1> QED
  BY <1>1 DEF HoursByRung

\* The hours at a pool are the hours of all orders at their rungs there.
LEMMA PoolSum ==
  ASSUME IInv, NEW C, IsFiniteSet(C), NEW p \in Pools, C \subseteq Chunk,
         \A c \in C : c.rung \in DOMAIN book[c.order].rungs
  PROVE  Promise!Cardinality(Promise!AtPool(HoursByRung(C), p)) = Hours(At(book, C, p))
<1> DEFINE H == HoursByRung(C)
           S == Units(At(book, C, p))
           D == {d \in Orders \X Nat : /\ d[2] \in DOMAIN book[d[1]].rungs
                                       /\ book[d[1]].rungs[d[2]].pool = p}
           owner == [u \in S |-> <<u[1].order, u[1].rung>>]
           own == [d \in D |-> Units(On(C, d[1], {d[2]}))]
           h == [d \in D |-> Hours(On(C, d[1], {d[2]}))]
           m == Cardinality(S)
           V == CountBy(D, h, m)
           A == Promise!AtPool(H, p)
           f == [v \in V |-> <<v[1][1], v[1][2], v[2]>>]
<1>1. IsFiniteSet(S) /\ m \in Nat
  <2>1. IsFiniteSet(At(book, C, p))
    BY FS_Subset DEF At
  <2> QED
    BY <2>1, UnitsFinite, FS_CardinalityType
<1>2. \A u \in S : /\ u[1] \in C /\ u[1].order \in Orders /\ u[1].rung \in Nat
                   /\ u[1].rung \in DOMAIN book[u[1].order].rungs
                   /\ book[u[1].order].rungs[u[1].rung].pool = p
  BY DEF Units, At, PoolOf, Chunk
<1>3. owner \in [S -> D]
  BY <1>2
<1>4. \A d \in D : own[d] \subseteq S
  BY DEF Units, On, At, PoolOf
<1>5. own \in [D -> SUBSET S]
  BY <1>4
<1>6. \A u \in S, d \in D : u \in own[d] <=> owner[u] = d
  <2> SUFFICES ASSUME NEW u \in S, NEW d \in D PROVE u \in own[d] <=> owner[u] = d
    OBVIOUS
  <2>1. d = <<d[1], d[2]>>
    OBVIOUS
  <2>2. u \in own[d] <=> u[1].order = d[1] /\ u[1].rung = d[2]
    BY <1>2 DEF Units, On, At
  <2>3. owner[u] = <<u[1].order, u[1].rung>>
    OBVIOUS
  <2>4. <<u[1].order, u[1].rung>> = <<d[1], d[2]>> <=> u[1].order = d[1] /\ u[1].rung = d[2]
    OBVIOUS
  <2> HIDE DEF owner, own
  <2> QED
    BY <2>1, <2>2, <2>3, <2>4, Zenon
<1>7. \A d \in D : h[d] = Cardinality(own[d])
  BY DEF Hours
<1>8. \A d \in D : h[d] \in 0..m
  <2> SUFFICES ASSUME NEW d \in D PROVE Cardinality(own[d]) \in 0..m
    BY <1>7
  <2>1. IsFiniteSet(own[d]) /\ Cardinality(own[d]) <= m
    BY <1>1, <1>4, FS_Subset
  <2>2. Cardinality(own[d]) \in Nat
    BY <2>1, FS_CardinalityType
  <2> HIDE DEF own, m
  <2> QED
    BY <1>1, <2>1, <2>2
<1>9. h \in [D -> 0..m]
  BY <1>8
<1>10. Cardinality(V) = Cardinality(S) /\ IsFiniteSet(V)
  <2> HIDE DEF S, D, owner, own, h, m
  <2> QED
    BY <1>1, <1>3, <1>5, <1>6, <1>7, <1>9, CountOwned
<1>11. \A d \in D : H[d[1]][d[2]] = h[d]
  BY ByRungIs
<1>12. \A x : x \in A <=> \E o \in Orders : \E r \in DOMAIN book[o].rungs :
                            /\ book[o].rungs[r].pool = p
                            /\ \E k \in 1..H[o][r] : x = <<o, r, k>>
  BY DEF Promise!AtPool
<1>13. \A v \in V : /\ v = <<v[1], v[2]>> /\ v[1] \in D /\ v[2] \in 1..m /\ v[2] <= h[v[1]]
                    /\ v[1] = <<v[1][1], v[1][2]>>
  <2>1. \A d \in D : d = <<d[1], d[2]>>
    OBVIOUS
  <2> HIDE DEF D, h, m
  <2>2. \A v \in V : v = <<v[1], v[2]>> /\ v[1] \in D /\ v[2] \in 1..m /\ v[2] <= h[v[1]]
    BY DEF CountBy
  <2> QED
    BY <2>1, <2>2
<1>14. \A d \in D : \A i \in 1..h[d] : <<d, i>> \in V
  <2> SUFFICES ASSUME NEW d \in D, NEW i \in 1..h[d] PROVE <<d, i>> \in V
    OBVIOUS
  <2>1. h[d] \in 0..m /\ m \in Nat
    BY <1>1, <1>8
  <2> HIDE DEF h, m, D
  <2>2. i \in 1..m /\ i <= h[d]
    BY <2>1
  <2> QED
    BY <2>2 DEF CountBy
<1>15. \A o \in Orders : \A r \in DOMAIN book[o].rungs :
         book[o].rungs[r].pool = p => <<o, r>> \in D
  BY RungContext
<1>16. \A v \in V : /\ v[1][1] \in Orders /\ v[1][2] \in DOMAIN book[v[1][1]].rungs
                    /\ book[v[1][1]].rungs[v[1][2]].pool = p
                    /\ v[2] \in 1..h[v[1]]
  <2> SUFFICES ASSUME NEW v \in V
               PROVE  /\ v[1][1] \in Orders /\ v[1][2] \in DOMAIN book[v[1][1]].rungs
                      /\ book[v[1][1]].rungs[v[1][2]].pool = p
                      /\ v[2] \in 1..h[v[1]]
    OBVIOUS
  <2>1. v[1] \in D /\ v[2] \in 1..m /\ v[2] <= h[v[1]]
    BY <1>13
  <2>2. h[v[1]] \in 0..m
    BY <1>8, <2>1
  <2>3. /\ v[1][1] \in Orders /\ v[1][2] \in DOMAIN book[v[1][1]].rungs
        /\ book[v[1][1]].rungs[v[1][2]].pool = p
    BY <2>1
  <2> HIDE DEF D, h, m, V
  <2> QED
    BY <1>1, <2>1, <2>2, <2>3
<1> HIDE DEF H, D, h, m, V, A
<1>17. f \in [V -> A]
  <2> SUFFICES ASSUME NEW v \in V PROVE <<v[1][1], v[1][2], v[2]>> \in A
    OBVIOUS
  <2> DEFINE o == v[1][1]
             r == v[1][2]
             k == v[2]
  <2>1. /\ o \in Orders /\ r \in DOMAIN book[o].rungs /\ book[o].rungs[r].pool = p
        /\ k \in 1..H[o][r]
    BY <1>11, <1>13, <1>16
  <2> HIDE DEF o, r, k
  <2>2. <<o, r, k>> \in A
    BY <2>1, <1>12
  <2> QED
    BY <2>2 DEF o, r, k
<1>18. \A v, w \in V : f[v] = f[w] => v = w
  BY <1>13
<1>19. ASSUME NEW x \in A PROVE \E v \in V : f[v] = x
  <2>1. PICK o \in Orders : \E r \in DOMAIN book[o].rungs :
                              /\ book[o].rungs[r].pool = p
                              /\ \E k \in 1..H[o][r] : x = <<o, r, k>>
    BY <1>12
  <2>2. PICK r \in DOMAIN book[o].rungs : /\ book[o].rungs[r].pool = p
                                          /\ \E k \in 1..H[o][r] : x = <<o, r, k>>
    BY <2>1
  <2>3. PICK k \in 1..H[o][r] : x = <<o, r, k>>
    BY <2>2
  <2>4. <<o, r>> \in D
    BY <1>15, <2>2
  <2>5. H[o][r] = h[<<o, r>>]
    BY <1>11, <2>4
  <2>6. <<<<o, r>>, k>> \in V
    BY <1>14, <2>3, <2>4, <2>5
  <2> QED
    BY <2>3, <2>6
<1>20. IsFiniteSet(V)
  BY <1>10
<1> HIDE DEF f
<1>21. Cardinality(A) = Cardinality(V)
  BY <1>17, <1>18, <1>19, <1>20, SameSize
<1>22. Cardinality(A) = Cardinality(S)
  BY <1>10, <1>21
<1> QED
  BY <1>22, SameSizes DEF A, H, Hours
-----------------------------------------------------------------------------
(* Every step of a round is a step of the promise, or none.                *)

\* A chunk that seeks adds to the hours that stand at its rung.
LEMMA SeekingStands ==
  ASSUME IInv, NEW c \in seeking
  PROVE  HoursByRung(Standing) # HoursByRung(placed)
<1> DEFINE o == c.order
           r == c.rung
<1>1. c \in Chunk /\ o \in Orders /\ r \in DOMAIN book[o].rungs
  BY DEF IInv, TypeOK, Chunk
<1>2. IsFiniteSet(On(placed, o, {r})) /\ IsFiniteSet(On(seeking, o, {r}))
  BY StandingFinite, FS_Subset DEF On, Standing
<1>3. Hours(On(Standing, o, {r})) = Hours(On(placed, o, {r})) + Hours(On(seeking, o, {r}))
  <2>1. On(Standing, o, {r}) = On(placed, o, {r}) \cup On(seeking, o, {r})
    BY DEF On, Standing
  <2>2. On(placed, o, {r}) \cap On(seeking, o, {r}) = {}
    BY DEF On, IInv, Apart
  <2> QED
    BY <1>2, <2>1, <2>2, HoursApart
<1>4. Hours(On(placed, o, {r})) \in Nat /\ Hours(On(seeking, o, {r})) \in Nat
  BY <1>2, UnitsFinite
<1>5. Hours({c}) <= Hours(On(seeking, o, {r}))
  <2>1. Units({c}) \subseteq Units(On(seeking, o, {r}))
    BY DEF Units, On
  <2>2. IsFiniteSet(Units(On(seeking, o, {r})))
    BY <1>2, UnitsFinite
  <2> QED
    BY <2>1, <2>2, FS_Subset DEF Hours
<1>6. Hours({c}) \in Nat /\ Hours({c}) >= 1
  BY <1>1, HoursOfOne, LadderAssumption DEF Chunk
<1> HIDE DEF o, r
<1>7. Hours(On(Standing, o, {r})) # Hours(On(placed, o, {r}))
  BY <1>3, <1>4, <1>5, <1>6
<1>8. HoursByRung(Standing)[o][r] # HoursByRung(placed)[o][r]
  BY <1>1, <1>7, ByRungIs
<1> QED
  BY <1>8

LEMMA PassIsPass ==
  ASSUME IInv, ClearPass
  PROVE  Promise!Pass
<1> DEFINE S0 == HoursByRung(Standing)
           H1 == HoursByRung(placed')
           S1 == HoursByRung(Standing')
           Stand(o, r) ==
             IF r \in Promise!Open(o) /\ Promise!RungAbove(o, r) # {}
             THEN LET q == CHOOSE s \in Promise!RungAbove(o, r) : TRUE
                  IN HoursByRung(placed)'[o][r] + HoursByRung(placed \cup seeking)[o][q]
                       - HoursByRung(placed)'[o][q]
             ELSE HoursByRung(placed)'[o][r]
<1>1. /\ IInv'
      /\ book' = book /\ view' = view /\ phase' = phase /\ fills' = fills
      /\ phase = "passing" /\ seeking # {}
      /\ placed' = Kept(OutcomeNow)
  BY PassInv, PassEffect DEF ClearPass
<1>2. /\ HoursByRung(placed)' = H1
      /\ HoursByRung(placed \cup seeking)' = S1
      /\ HoursByRung(fills)' = HoursByRung(fills)
      /\ HoursByRung(placed \cup seeking) = S0
  BY <1>1 DEF HoursByRung, Standing
<1>3. S0 # HoursByRung(placed)
  BY <1>1, SeekingStands
<1>4. ASSUME NEW o \in Orders, NEW r \in DOMAIN book[o].rungs
      PROVE  H1[o][r] \in 0..S0[o][r]
  <2>1. H1[o][r] = ServedOn(o, {r})
    BY ByRungIs, RungHours, ZenonT(60)
  <2>2. S0[o][r] = ServedOn(o, {r}) + Hours(On(Rest(OutcomeNow), o, {r}))
    BY ByRungIs, RungHours, ZenonT(60)
  <2>3. ServedOn(o, {r}) \in Nat /\ Hours(On(Rest(OutcomeNow), o, {r})) \in Nat
    BY RungHours
  <2> HIDE DEF H1, S0
  <2> QED
    BY <2>1, <2>2, <2>3
<1>5. ASSUME NEW p \in Pools
      PROVE  Promise!Cardinality(Promise!AtPool(H1, p)) =
               Promise!Least(Promise!Cardinality(Promise!AtPool(S0, p)), view[p].supply)
  <2>1. Promise!Cardinality(Promise!AtPool(S0, p)) = Hours(AskedAt(p))
    <3>1. IsFiniteSet(Standing) /\ Standing \subseteq Chunk
      BY StandingFinite DEF IInv, TypeOK, Standing
    <3>2. \A c \in Standing : c.rung \in DOMAIN book[c.order].rungs
      BY DEF IInv, TypeOK, Standing
    <3> QED
      BY <3>1, <3>2, PoolSum DEF AskedAt
  <2>2. Promise!Cardinality(Promise!AtPool(H1, p)) = HeldAt(p)'
    <3>1. IsFiniteSet(Standing)'
      BY <1>1, AlwaysFinite, PTL
    <3>2. IsFiniteSet(placed') /\ placed' \subseteq Chunk
      BY <1>1, <3>1, FS_Subset DEF IInv, TypeOK, Standing
    <3>3. \A c \in placed' : c.rung \in DOMAIN book[c.order].rungs
      BY <1>1 DEF IInv, TypeOK
    <3>4. Promise!Cardinality(Promise!AtPool(HoursByRung(Kept(OutcomeNow)), p)) =
            Hours(At(book, Kept(OutcomeNow), p))
      BY <1>1, <3>2, <3>3, PoolSum
    <3> QED
      BY <1>1, <3>4 DEF HeldAt
  <2>3. HeldAt(p)' = IF Hours(AskedAt(p)) <= view[p].supply
                     THEN Hours(AskedAt(p)) ELSE view[p].supply
    BY HeldAfterPassIs
  <2>4. Hours(AskedAt(p)) \in Nat /\ view[p].supply \in Nat
    BY HeldBounds
  <2> HIDE DEF H1, S0
  <2> QED
    BY <2>1, <2>2, <2>3, <2>4 DEF Promise!Least
<1>6. S1 = [o \in Orders |-> [r \in DOMAIN book[o].rungs |-> Stand(o, r)]]
  <2> SUFFICES ASSUME NEW o \in Orders, NEW r \in DOMAIN book[o].rungs
               PROVE  S1[o][r] = Stand(o, r)
    BY DEF HoursByRung
  <2>1. /\ S1[o][r] = Hours(On(Standing', o, {r}))
        /\ H1[o][r] = Hours(On(placed', o, {r}))
    BY ByRungIs
  <2>2. /\ Promise!Open(o) = OpenRungs(book[o], view, FALSE)
        /\ Promise!RungAbove(o, r) = Above(o, r)
    BY SameOpen
  <2>3. CASE r \in OpenRungs(book[o], view, FALSE) /\ Above(o, r) # {}
    <3> DEFINE q == CHOOSE s \in Above(o, r) : TRUE
    <3>1. q \in Above(o, r)
      BY <2>3
    <3>2. q \in DOMAIN book[o].rungs
      BY <3>1 DEF Above, OpenRungs
    <3>3. S1[o][r] = Hours(On(placed', o, {r})) + Hours(On(Standing, o, {q}))
                       - Hours(On(placed', o, {q}))
      BY <2>1, <2>3, StandMoves
    <3>4. Stand(o, r) = HoursByRung(placed)'[o][r] + HoursByRung(placed \cup seeking)[o][q]
                          - HoursByRung(placed)'[o][q]
      BY <2>2, <2>3
    <3> HIDE DEF q, Stand
    <3>5. S0[o][q] = Hours(On(Standing, o, {q})) /\ H1[o][q] = Hours(On(placed', o, {q}))
      BY <3>2, ByRungIs
    <3> HIDE DEF S0, H1, S1
    <3> QED
      BY <1>2, <2>1, <3>3, <3>4, <3>5
  <2>4. CASE ~(r \in OpenRungs(book[o], view, FALSE) /\ Above(o, r) # {})
    <3>1. S1[o][r] = Hours(On(placed', o, {r}))
      BY <2>1, <2>4, StandMoves
    <3>2. Stand(o, r) = HoursByRung(placed)'[o][r]
      BY <2>2, <2>4
    <3> HIDE DEF Stand, S0, H1, S1
    <3> QED
      BY <1>2, <2>1, <3>1, <3>2
  <2> QED
    BY <2>3, <2>4
<1> HIDE DEF S0, H1, S1
<1>7. ~(phase = "done") /\ (phase = "done")' = (phase = "done")
  BY <1>1
<1>8. HoursByRung(placed \cup seeking)' =
        LET Moved(o, r) ==
              IF r \in Promise!Open(o) /\ Promise!RungAbove(o, r) # {}
              THEN LET q == CHOOSE s \in Promise!RungAbove(o, r) : TRUE
                   IN HoursByRung(placed)'[o][r] + HoursByRung(placed \cup seeking)[o][q]
                        - HoursByRung(placed)'[o][q]
              ELSE HoursByRung(placed)'[o][r]
        IN Promise!ByRung(Moved)
  BY <1>2, <1>6 DEF Promise!ByRung, Stand
<1>9. HoursByRung(placed \cup seeking) # HoursByRung(placed)
  BY <1>2, <1>3
<1>10. \A o \in Orders : \A r \in DOMAIN book[o].rungs :
         HoursByRung(placed)'[o][r] \in 0..HoursByRung(placed \cup seeking)[o][r]
  BY <1>2, <1>4
<1>11. \A p \in Pools :
         Promise!Cardinality(Promise!AtPool(HoursByRung(placed)', p)) =
           Promise!Least(Promise!Cardinality(Promise!AtPool(HoursByRung(placed \cup seeking), p)),
                         view[p].supply)
  BY <1>2, <1>5
<1>12. UNCHANGED <<book, view, HoursByRung(fills), phase = "done">>
  BY <1>1, <1>2, <1>7
<1> QED
  BY <1>7, <1>8, <1>9, <1>10, <1>11, <1>12 DEF Promise!Pass

LEMMA InitIsInit == Init => Promise!Init
<1> SUFFICES ASSUME Init PROVE Promise!Init
  OBVIOUS
<1>1. IInv
  BY InitInv
<1>2. /\ book \in Books /\ view \in Views /\ phase = "passing" /\ fills = {}
      /\ placed = {} /\ Standing = seeking /\ seeking = FirstChunks(book, view, FALSE)
  BY DEF Init, Standing
<1>3. ASSUME NEW o \in Orders, NEW r \in DOMAIN book[o].rungs
      PROVE  Hours(On(Standing, o, {r})) =
               IF r \in Best(OpenRungs(book[o], view, FALSE)) THEN book[o].hours ELSE 0
  <2> DEFINE Made(q) == {[id |-> Cardinality(EnteredUpTo(book, q)), order |-> q, rung |-> x,
                          hours |-> book[q].hours] : x \in Best(OpenRungs(book[q], view, FALSE))}
             c == [id |-> Cardinality(EnteredUpTo(book, o)), order |-> o, rung |-> r,
                   hours |-> book[o].hours]
  <2>1. seeking = UNION {Made(q) : q \in Orders}
    BY <1>2 DEF FirstChunks
  <2>2. \A d \in seeking : d.order = o /\ d.rung = r =>
          d = c /\ r \in Best(OpenRungs(book[o], view, FALSE))
    <3> SUFFICES ASSUME NEW q \in Orders, NEW d \in Made(q), d.order = o, d.rung = r
                 PROVE  d = c /\ r \in Best(OpenRungs(book[o], view, FALSE))
      <4> HIDE DEF Made, c
      <4> QED
        BY <2>1
    <3>1. PICK x \in Best(OpenRungs(book[q], view, FALSE)) :
            d = [id |-> Cardinality(EnteredUpTo(book, q)), order |-> q, rung |-> x,
                 hours |-> book[q].hours]
      OBVIOUS
    <3>2. q = o /\ x = r
      BY <3>1
    <3> QED
      BY <3>1, <3>2
  <2>3. r \in Best(OpenRungs(book[o], view, FALSE)) => c \in seeking
    <3>1. r \in Best(OpenRungs(book[o], view, FALSE)) => c \in Made(o)
      OBVIOUS
    <3> HIDE DEF Made, c
    <3> QED
      BY <2>1, <3>1
  <2>4. c.order = o /\ c.rung = r /\ c.hours = book[o].hours
    OBVIOUS
  <2> HIDE DEF c, Made
  <2>5. CASE r \in Best(OpenRungs(book[o], view, FALSE))
    <3>1. c \in seeking /\ c \in Chunk
      BY <1>1, <2>3, <2>5 DEF IInv, TypeOK
    <3>2. On(Standing, o, {r}) = {c}
      BY <1>2, <2>2, <2>4, <3>1 DEF On
    <3> QED
      BY <2>4, <2>5, <3>1, <3>2, HoursOfOne
  <2>6. CASE r \notin Best(OpenRungs(book[o], view, FALSE))
    <3>1. On(Standing, o, {r}) = {}
      BY <1>2, <2>2, <2>6 DEF On
    <3>2. Units(On(Standing, o, {r})) = {}
      BY <3>1 DEF Units
    <3> QED
      BY <2>6, <3>2, FS_EmptySet DEF Hours
  <2> QED
    BY <2>5, <2>6
<1>4. \A o \in Orders : \A r \in DOMAIN book[o].rungs : HoursByRung({})[o][r] = 0
  <2> SUFFICES ASSUME NEW o \in Orders, NEW r \in DOMAIN book[o].rungs
               PROVE  HoursByRung({})[o][r] = 0
    OBVIOUS
  <2>1. Units(On({}, o, {r})) = {}
    BY DEF Units, On
  <2>2. Hours(On({}, o, {r})) = 0
    BY <2>1, FS_EmptySet DEF Hours
  <2> QED
    BY <2>2, ByRungIs
<1>5. HoursByRung(Standing) =
        [o \in Orders |-> [r \in DOMAIN book[o].rungs |->
           IF r \in Promise!Best(Promise!Open(o)) THEN book[o].hours ELSE 0]]
  <2>1. \A o \in Orders : \A r \in DOMAIN book[o].rungs :
          HoursByRung(Standing)[o][r] =
            IF r \in Promise!Best(Promise!Open(o)) THEN book[o].hours ELSE 0
    <3> SUFFICES ASSUME NEW o \in Orders, NEW r \in DOMAIN book[o].rungs
                 PROVE  HoursByRung(Standing)[o][r] =
                          IF r \in Promise!Best(Promise!Open(o)) THEN book[o].hours ELSE 0
      OBVIOUS
    <3>1. HoursByRung(Standing)[o][r] = Hours(On(Standing, o, {r}))
      BY ByRungIs
    <3>2. Promise!Best(Promise!Open(o)) = Best(OpenRungs(book[o], view, FALSE))
      BY SameOpen
    <3> QED
      BY <1>3, <3>1, <3>2
  <2> QED
    BY <2>1 DEF HoursByRung
<1>6. HoursByRung({}) = [o \in Orders |-> [r \in DOMAIN book[o].rungs |-> 0]]
  BY <1>4 DEF HoursByRung
<1> QED
  BY <1>2, <1>5, <1>6 DEF Promise!Init, Promise!ByRung, Standing

\* What _realtime_view prepares: a posted base is never below the reserve
\* (the engine rounds it up to it, and ReserveSafe proves it of PoolRounds).
PostedCoversReserve == \A v \in Views : \A p \in Pools : v[p].base >= v[p].reserve

\* A fill is a placed chunk, with what it pays: as many hours are sold as are held.
LEMMA FillsAreHeld ==
  ASSUME IInv, \A c \in placed : Payable(c), NEW o, NEW r
  PROVE  Hours(On({FillOf(c) : c \in {d \in placed : Payable(d)}}, o, {r})) =
           Hours(On(placed, o, {r}))
<1> DEFINE F == {FillOf(c) : c \in {d \in placed : Payable(d)}}
           D == On(placed, o, {r})
           E == On(F, o, {r})
           name == [c \in D |-> FillOf(c)]
           h == [c \in D |-> c.hours]
           k == [e \in E |-> e.hours]
<1>1. IsFiniteSet(D)
  BY StandingFinite, FS_Subset DEF On, Standing
<1>2. \A c \in placed : /\ FillOf(c).id = c.id /\ FillOf(c).order = c.order
                        /\ FillOf(c).rung = c.rung /\ FillOf(c).hours = c.hours
  BY DEF FillOf
<1>3. \A c \in D : c \in placed /\ FillOf(c) \in E
  BY <1>2 DEF On
<1>4. \A e \in E : \E c \in D : FillOf(c) = e
  <2> SUFFICES ASSUME NEW e \in E PROVE \E c \in D : FillOf(c) = e
    OBVIOUS
  <2>1. PICK c \in placed : e = FillOf(c)
    BY DEF On
  <2>2. c.order = o /\ c.rung = r
    BY <1>2, <2>1 DEF On
  <2> QED
    BY <2>1, <2>2 DEF On
<1>5. \A c, d \in D : FillOf(c) = FillOf(d) => c = d
  <2>1. \A c, d \in placed : c.id = d.id => c = d
    BY DEF IInv, IdsDistinct, Standing
  <2> SUFFICES ASSUME NEW c \in D, NEW d \in D, FillOf(c) = FillOf(d) PROVE c = d
    OBVIOUS
  <2>2. c \in placed /\ d \in placed
    BY <1>3
  <2>3. c.id = d.id
    BY <1>2, <2>2
  <2> QED
    BY <2>1, <2>2, <2>3
<1> HIDE DEF D, E
<1>6. /\ name \in [D -> E]
      /\ \A c, d \in D : name[c] = name[d] => c = d
      /\ \A e \in E : \E d \in D : name[d] = e
      /\ \A d \in D : k[name[d]] = h[d]
  BY <1>2, <1>3, <1>4, <1>5
<1> HIDE DEF name, h, k
<1>7. Cardinality(CountBy(E, k, MaxHours)) = Cardinality(CountBy(D, h, MaxHours))
  BY <1>1, <1>6, CountRenamed, LadderAssumption
<1>8. Hours(E) = Hours(D)
  BY <1>7, UnitsAreCounted DEF Hours, h, k
<1> QED
  BY <1>8 DEF D, E

LEMMA SettleIsReturn ==
  ASSUME PostedCoversReserve, IInv, Settle
  PROVE  Promise!Return
<1>1. /\ UNCHANGED <<book, view, placed, seeking>>
      /\ phase = "passing" /\ phase' = "done"
      /\ fills' = {FillOf(c) : c \in {d \in placed : Payable(d)}}
  BY DEF Settle
<1>2. \A c \in placed : Payable(c)
  <2> SUFFICES ASSUME NEW c \in placed PROVE Payable(c)
    OBVIOUS
  <2>1. c \in Standing /\ view \in Views
    BY DEF Standing, IInv, TypeOK
  <2>2. PoolOf(book, c) \in Pools
    BY <2>1, ChunkContext DEF IInv
  <2>3. view[PoolOf(book, c)].base >= view[PoolOf(book, c)].reserve
    BY <2>1, <2>2 DEF PostedCoversReserve
  <2>4. c.rung \in OpenRungs(book[c.order], view, FALSE)
    BY <2>1 DEF IInv, OnOpenRungs
  <2>5. book[c.order].rungs[c.rung].max >= view[PoolOf(book, c)].base
    BY <2>4 DEF OpenRungs, Affordable, PoolOf
  <2>6. view[PoolOf(book, c)].base \in Nat /\ book[c.order].rungs[c.rung].max \in Nat
    BY <2>1, ChunkContext DEF IInv, PoolView, Rung
  <2> QED
    BY <2>3, <2>5, <2>6 DEF Payable
<1>3. HoursByRung(fills') = HoursByRung(placed)
  <2>1. \A o \in Orders : \A r \in DOMAIN book[o].rungs :
          HoursByRung(fills')[o][r] = HoursByRung(placed)[o][r]
    <3> SUFFICES ASSUME NEW o \in Orders, NEW r \in DOMAIN book[o].rungs
                 PROVE  HoursByRung(fills')[o][r] = HoursByRung(placed)[o][r]
      OBVIOUS
    <3>1. /\ HoursByRung(fills')[o][r] = Hours(On(fills', o, {r}))
          /\ HoursByRung(placed)[o][r] = Hours(On(placed, o, {r}))
      BY ByRungIs
    <3>2. Hours(On(fills', o, {r})) = Hours(On(placed, o, {r}))
      BY <1>1, <1>2, FillsAreHeld
    <3> QED
      BY <3>1, <3>2
  <2> QED
    BY <2>1 DEF HoursByRung
<1>4. /\ HoursByRung(fills)' = HoursByRung(placed)
      /\ HoursByRung(placed)' = HoursByRung(placed)
      /\ HoursByRung(placed \cup seeking)' = HoursByRung(placed \cup seeking)
  BY <1>1, <1>3 DEF HoursByRung
<1>5. ~(phase = "done") /\ (phase = "done")' = TRUE
  BY <1>1
<1> QED
  BY <1>1, <1>4, <1>5 DEF Promise!Return

\* A round is renter-proposing deferred acceptance by hours: clear_realtime,
\* with its chunks, splits and bands, does nothing else, and its result is
\* what was held when it stopped.
THEOREM RoundsKeepThePromise ==
  ASSUME PostedCoversReserve
  PROVE  Spec => KeepsItsPromise
<1>1. Init => Promise!Init
  BY InitIsInit
<1>2. IInv /\ [Next]_vars => [Promise!Next]_(Promise!vars)
  <2> SUFFICES ASSUME IInv, [Next]_vars PROVE [Promise!Next]_(Promise!vars)
    OBVIOUS
  <2>1. CASE ClearPass
    BY <2>1, PassIsPass DEF Promise!Next
  <2>2. CASE Settle
    BY <2>2, SettleIsReturn DEF Promise!Next
  <2>3. CASE UNCHANGED vars
    BY <2>3 DEF vars, Promise!vars, HoursByRung
  <2> QED
    BY <2>1, <2>2, <2>3 DEF Next
<1> QED
  BY <1>1, <1>2, Invariant, PTL DEF Spec, KeepsItsPromise, Promise!Spec

-----------------------------------------------------------------------------
(* A pool chooses among the hours that ask for it by rank, in two bands:   *)
(* the choice of the common facts, whose owners are the organisations.     *)

HourOrg == [u \in Chunk \X (1..MaxHours) |-> OrgOf(u[1])]

HourRank(U) == [u \in U |-> {v \in U : HourBefore(v, u)}]

Share(p) == CapHours(view[p])

FirstHours(U, p) == FirstBand(U, HourOrg, HourRank(U), Share(p))

ChosenHours(U, p) == ChosenOf(U, FirstHours(U, p), HourRank(U), view[p].supply)

Rankable(C) ==
  /\ C \subseteq Chunk
  /\ \A c \in C : /\ TipAt(c) \in Nat
                  /\ book[c.order].tier \in Int
                  /\ book[c.order].lottery \in Nat
  /\ \A c, d \in C : c.id = d.id => c = d

LEMMA StandingRankable ==
  ASSUME IInv, NEW C, C \subseteq Standing
  PROVE  Rankable(C)
<1>1. \A c \in C : /\ c \in Chunk
                   /\ TipAt(c) \in Nat
                   /\ book[c.order].tier \in Int
                   /\ book[c.order].lottery \in Nat
  BY TipAtNat, ChunkContext DEF IInv, Order
<1> QED
  BY <1>1 DEF Rankable, IInv, IdsDistinct

LEMMA ShareNat ==
  ASSUME IInv, NEW p \in Pools
  PROVE  Share(p) \in Nat /\ view[p].supply \in Nat
<1>1. view[p].supply \in Nat
  BY RealtimeAssumption DEF IInv, TypeOK, PoolView
<1>2. ShareNum * view[p].supply \in Nat
  BY <1>1, LadderAssumption
<1> QED
  BY <1>1, <1>2, DivNat, LadderAssumption DEF Share, CapHours

LEMMA UnitForm ==
  ASSUME NEW C, C \subseteq Chunk, NEW u \in Units(C)
  PROVE  /\ u = <<u[1], u[2]>> /\ u[1] \in C /\ u[2] \in 1..MaxHours
         /\ u[2] \in Nat /\ u[2] <= u[1].hours
         /\ u[1] \in Chunk /\ u[1].order \in Nat /\ u[1].id \in Nat
         /\ HourOrg[u] = OrgOf(u[1])
<1>1. u = <<u[1], u[2]>> /\ u[1] \in C /\ u[2] \in 1..MaxHours /\ u[2] <= u[1].hours
  BY DEF Units
<1>2. u[1] \in Chunk /\ u[1].order \in Nat /\ u[1].id \in Nat
  BY <1>1, LadderAssumption DEF Chunk
<1>3. u \in Chunk \X (1..MaxHours)
  BY <1>1, <1>2
<1>4. u[2] \in Nat
  BY <1>1, LadderAssumption
<1> QED
  BY <1>1, <1>2, <1>3, <1>4 DEF HourOrg

LEMMA RankableStrict ==
  ASSUME NEW C, Rankable(C)
  PROVE  StrictOrderBy(Units(C), HourRank(Units(C)))
<1> DEFINE U == Units(C)
<1>1. \A c \in C : /\ TipAt(c) \in Nat /\ book[c.order].tier \in Int
                   /\ book[c.order].lottery \in Nat
                   /\ c.order \in Nat /\ c.id \in Nat
  BY LadderAssumption DEF Rankable, Chunk
<1>2. \A c \in C : ~Outranks(c, c)
  BY <1>1 DEF Outranks
<1>3. \A c, d \in C : c = d \/ Outranks(c, d) \/ Outranks(d, c)
  BY <1>1 DEF Outranks, Rankable
<1>4. \A c, d, e \in C : Outranks(c, d) /\ Outranks(d, e) => Outranks(c, e)
  BY <1>1 DEF Outranks
<1>5. \A u \in U : u = <<u[1], u[2]>> /\ u[1] \in C /\ u[2] \in Nat
  BY UnitForm DEF Rankable
<1> HIDE DEF U
<1>6. \A u \in U : ~HourBefore(u, u)
  BY <1>2, <1>5 DEF HourBefore
<1>7. \A u, v \in U : u = v \/ HourBefore(u, v) \/ HourBefore(v, u)
  <2> SUFFICES ASSUME NEW u \in U, NEW v \in U
               PROVE  u = v \/ HourBefore(u, v) \/ HourBefore(v, u)
    OBVIOUS
  <2>1. CASE u[1] = v[1]
    BY <2>1, <1>5 DEF HourBefore
  <2>2. CASE u[1] # v[1]
    BY <2>2, <1>3, <1>5 DEF HourBefore
  <2> QED
    BY <2>1, <2>2
<1>8. \A u, v, w \in U : HourBefore(u, v) /\ HourBefore(v, w) => HourBefore(u, w)
  BY <1>4, <1>5 DEF HourBefore
<1>9. StrictOrderBy(U, HourRank(U))
  BY <1>6, <1>7, <1>8 DEF StrictOrderBy, HourRank
<1> QED
  BY <1>9 DEF U

\* In a pool asked for more than it has, band 0 is the first band.
LEMMA BandsAre ==
  ASSUME IInv, NEW p \in Pools, NEW C, C \subseteq Chunk, IsFiniteSet(C),
         Cardinality(Units(C)) > view[p].supply, NEW u \in Units(C)
  PROVE  Band(u, Units(C), p) = 0 <=> u \in FirstHours(Units(C), p)
<1> DEFINE U == Units(C)
           sooner == {v \in U : OrgOf(v[1]) = OrgOf(u[1]) /\ HourBefore(v, u)}
<1>1. sooner = Own(HourRank(U)[u], HourOrg, HourOrg[u])
  <2>1. \A v \in U : HourOrg[v] = OrgOf(v[1])
    BY UnitForm
  <2>2. HourRank(U)[u] = {v \in U : HourBefore(v, u)}
    BY DEF HourRank
  <2> QED
    BY <2>1, <2>2 DEF Own
<1>2. Cardinality(sooner) \in Nat
  <2>1. sooner \subseteq U
    OBVIOUS
  <2> QED
    BY <2>1, UnitsFinite, FS_Subset, FS_CardinalityType
<1>3. Band(u, U, p) = IF Cardinality(sooner) >= Share(p) THEN 1 ELSE 0
  BY DEF Band, Share
<1>4. u \in FirstHours(U, p) <=> Cardinality(sooner) < Share(p)
  BY <1>1 DEF FirstHours, FirstBand
<1>5. Share(p) \in Nat
  BY ShareNat
<1> HIDE DEF sooner, U
<1>6. Band(u, U, p) = 0 <=> u \in FirstHours(U, p)
  BY <1>2, <1>3, <1>4, <1>5
<1> QED
  BY <1>6 DEF U

HourOf(s) == <<s.chunk, s.hour>>

LEMMA SlicesAreHours ==
  ASSUME IInv, NEW p \in Pools, NEW C, C \subseteq Chunk
  PROVE  /\ \A s \in Slices(C, p) : /\ HourOf(s) \in Units(C)
                                    /\ s.band = Band(HourOf(s), Units(C), p)
                                    /\ s.chunk \in C
         /\ \A s, t \in Slices(C, p) : HourOf(s) = HourOf(t) => s = t
         /\ \A u \in Units(C) : \E s \in Slices(C, p) : HourOf(s) = u
<1> DEFINE Cut(u) == [chunk |-> u[1], hour |-> u[2], band |-> Band(u, Units(C), p)]
<1>1. \A u \in Units(C) : u = <<u[1], u[2]>> /\ u[1] \in C
  BY UnitForm
<1>2. Slices(C, p) = {Cut(u) : u \in Units(C)}
  BY DEF Slices
<1>3. \A u \in Units(C) : HourOf(Cut(u)) = u /\ Cut(u).band = Band(u, Units(C), p)
                          /\ Cut(u).chunk = u[1]
  BY <1>1 DEF HourOf
<1> HIDE DEF Cut
<1>4. \A s \in Slices(C, p) : s = Cut(HourOf(s)) /\ HourOf(s) \in Units(C)
  BY <1>2, <1>3
<1> QED
  BY <1>1, <1>2, <1>3, <1>4

\* Slices are accepted when their hours are chosen.
LEMMA AcceptedAre ==
  ASSUME IInv, NEW p \in Pools, NEW C, Rankable(C), IsFiniteSet(C)
  PROVE  \A s \in Slices(C, p) :
           s \in Accepted(C, p) <=> HourOf(s) \in ChosenHours(Units(C), p)
<1> DEFINE U == Units(C)
           S == Slices(C, p)
           rank == HourRank(U)
           first == FirstHours(U, p)
           K == view[p].supply
<1>1. C \subseteq Chunk /\ StrictOrderBy(U, rank)
  BY RankableStrict DEF Rankable
<1>2. IsFiniteSet(U) /\ Cardinality(U) \in Nat /\ K \in Nat
  BY UnitsFinite, ShareNat, FS_CardinalityType
<1>3. /\ \A s \in S : HourOf(s) \in U /\ s.band = Band(HourOf(s), U, p)
      /\ \A s, t \in S : HourOf(s) = HourOf(t) => s = t
      /\ \A u \in U : \E s \in S : HourOf(s) = u
  BY <1>1, SlicesAreHours
<1> DEFINE hour == [s \in S |-> HourOf(s)]
<1>4. IsFiniteSet(S) /\ Cardinality(S) = Cardinality(U)
  <2>1. hour \in [S -> U]
    BY <1>3
  <2>2. hour \in Injection(S, U)
    BY <1>3, <2>1, Fun_IsInj
  <2>3. hour \in Surjection(S, U)
    BY <1>3, <2>1, Fun_IsSurj
  <2> HIDE DEF S, U, hour
  <2> QED
    BY <1>2, <2>2, <2>3, FS_Injection
<1>5. \A t, s \in S : HourOf(t) \in rank[HourOf(s)] <=> HourBefore(HourOf(t), HourOf(s))
  BY <1>3 DEF HourRank
<1>6. SUFFICES ASSUME NEW s \in S
               PROVE  s \in Accepted(C, p) <=> HourOf(s) \in ChosenHours(U, p)
  OBVIOUS
<1> DEFINE A == {t \in S : Ahead(t, s)}
           F == InFront(U, first, rank, HourOf(s))
<1>7. s \in Accepted(C, p) <=> Cardinality(A) < K
  BY DEF Accepted
<1>8. HourOf(s) \in ChosenHours(U, p) <=> Cardinality(F) < K
  BY <1>3 DEF ChosenHours, ChosenOf
<1>9. CASE Cardinality(U) > K
  <2>1. \A t \in S : t.band \in {0, 1} /\ (t.band = 0 <=> HourOf(t) \in first)
    <3> SUFFICES ASSUME NEW t \in S
                 PROVE  t.band \in {0, 1} /\ (t.band = 0 <=> HourOf(t) \in first)
      OBVIOUS
    <3>1. HourOf(t) \in Units(C) /\ t.band = Band(HourOf(t), Units(C), p)
      BY <1>3
    <3>2. t.band \in {0, 1}
      BY <3>1 DEF Band
    <3>3. Band(HourOf(t), Units(C), p) = 0 <=> HourOf(t) \in FirstHours(Units(C), p)
      BY <1>1, <1>9, <3>1, BandsAre
    <3> QED
      BY <3>1, <3>2, <3>3
  <2>2. \A t \in S : Ahead(t, s) <=> HourOf(t) \in F
    <3> SUFFICES ASSUME NEW t \in S PROVE Ahead(t, s) <=> HourOf(t) \in F
      OBVIOUS
    <3>1. /\ t.band \in {0, 1} /\ (t.band = 0 <=> HourOf(t) \in first)
          /\ s.band \in {0, 1} /\ (s.band = 0 <=> HourOf(s) \in first)
      BY <2>1
    <3>2. /\ t.band < s.band <=> (HourOf(t) \in first /\ HourOf(s) \notin first)
          /\ t.band = s.band <=> (HourOf(t) \in first <=> HourOf(s) \in first)
      BY <3>1
    <3>3. Ahead(t, s) <=> \/ t.band < s.band
                          \/ t.band = s.band /\ HourBefore(HourOf(t), HourOf(s))
      BY DEF Ahead, HourOf
    <3> QED
      BY <1>3, <1>5, <3>2, <3>3 DEF InFront
  <2> DEFINE f == [t \in A |-> HourOf(t)]
  <2>3. f \in [A -> F]
    BY <2>2
  <2>4. \A x, y \in A : f[x] = f[y] => x = y
    BY <1>3
  <2>5. \A z \in F : \E x \in A : f[x] = z
    BY <1>3, <2>2 DEF InFront
  <2>6. IsFiniteSet(A)
    BY <1>4, FS_Subset
  <2> HIDE DEF f, A, F
  <2>7. Cardinality(F) = Cardinality(A)
    BY <2>3, <2>4, <2>5, <2>6, SameSize
  <2> QED
    BY <1>7, <1>8, <2>7
<1>10. CASE ~(Cardinality(U) > K)
  <2>1. A \subseteq S /\ s \notin A
    <3>1. ~HourBefore(HourOf(s), HourOf(s))
      BY <1>1, <1>3, <1>5 DEF StrictOrderBy
    <3>2. s.band \in {0, 1}
      BY <1>3 DEF Band
    <3> QED
      BY <3>1, <3>2 DEF Ahead, HourOf
  <2>2. F \subseteq U /\ HourOf(s) \notin F
    BY <1>1, <1>3 DEF InFront, StrictOrderBy
  <2> HIDE DEF A, F, S, U
  <2>3. /\ IsFiniteSet(A) /\ Cardinality(A) <= Cardinality(S)
        /\ Cardinality(A) # Cardinality(S)
    BY <1>4, <1>6, <2>1, FS_Subset
  <2>4. /\ IsFiniteSet(F) /\ Cardinality(F) <= Cardinality(U)
        /\ Cardinality(F) # Cardinality(U)
    BY <1>2, <1>3, <2>2, FS_Subset
  <2>5. Cardinality(A) \in Nat /\ Cardinality(F) \in Nat
    BY <2>3, <2>4, FS_CardinalityType
  <2>6. Cardinality(A) < K /\ Cardinality(F) < K
    BY <1>2, <1>4, <1>10, <2>3, <2>4, <2>5
  <2> QED
    BY <1>7, <1>8, <2>6
<1> QED
  BY <1>9, <1>10

-----------------------------------------------------------------------------
(* What a pass leaves of the chosen hours.                                 *)

HeldHours(p) == Units(At(book, placed, p))

AskedHours(p) == Units(AskedAt(p))

OrgHeldAgrees ==
  \A p \in Pools : \A g : Cardinality(Own(HeldHours(p), HourOrg, g)) = OrgHeld(g, p)

LEMMA OrgHeldIs == IInv => OrgHeldAgrees
<1> SUFFICES ASSUME IInv, NEW p \in Pools, NEW g
             PROVE  Cardinality(Own(HeldHours(p), HourOrg, g)) = OrgHeld(g, p)
  BY DEF OrgHeldAgrees
<1>1. At(book, placed, p) \subseteq Chunk
  BY DEF IInv, TypeOK, At
<1>2. \A u \in HeldHours(p) : HourOrg[u] = OrgOf(u[1])
  BY <1>1, UnitForm DEF HeldHours
<1>3. Own(HeldHours(p), HourOrg, g) = Units({c \in At(book, placed, p) : OrgOf(c) = g})
  BY <1>2 DEF Own, HeldHours, Units
<1> QED
  BY <1>3 DEF OrgHeld, Hours

LEMMA AskedContext ==
  ASSUME IInv, NEW p \in Pools
  PROVE  /\ AskedAt(p) \subseteq Standing
         /\ Rankable(AskedAt(p)) /\ AskedAt(p) \subseteq Chunk
         /\ IsFiniteSet(AskedAt(p)) /\ IsFiniteSet(AskedHours(p))
         /\ StrictOrderBy(AskedHours(p), HourRank(AskedHours(p)))
         /\ Share(p) \in Nat /\ view[p].supply \in Nat
         /\ HeldHours(p) \in SUBSET AskedHours(p)
<1>1. AskedAt(p) \subseteq Standing
  BY DEF AskedAt, At
<1>2. Rankable(AskedAt(p)) /\ AskedAt(p) \subseteq Chunk
  BY <1>1, StandingRankable DEF Rankable
<1>3. IsFiniteSet(AskedAt(p))
  BY <1>1, StandingFinite, FS_Subset
<1>4. HeldHours(p) \in SUBSET AskedHours(p)
  BY DEF HeldHours, AskedHours, AskedAt, At, Units, Standing
<1> QED
  BY <1>1, <1>2, <1>3, <1>4, UnitsFinite, RankableStrict, ShareNat DEF AskedHours

LEMMA PassKeepsHours ==
  ASSUME IInv, ClearPass, NEW p \in Pools, NEW g
  PROVE  OrgHeld(g, p)' = Cardinality(Own(ChosenHours(AskedHours(p), p), HourOrg, g))
<1> DEFINE C == AskedAt(p)
           D == {c \in C : OrgOf(c) = g}
           S == {s \in ServedNow : s.chunk \in D}
           O == Own(ChosenHours(AskedHours(p), p), HourOrg, g)
<1>1. placed' = Kept(OutcomeNow) /\ book' = book
  BY PassEffect DEF ClearPass
<1>2. {k \in At(book', placed', p) : OrgOf(k)' = g} = PartsOf(Kept(OutcomeNow), D)
  <2>1. ASSUME NEW k \in Kept(OutcomeNow)
        PROVE  PoolOf(book, k) = p /\ OrgOf(k) = g <=> \E c \in D : c.id = k.id
    <3>1. PICK c \in Standing : k.id = c.id /\ k.order = c.order /\ k.rung = c.rung
      BY KeptChunks
    <3>2. PoolOf(book, k) = PoolOf(book, c) /\ OrgOf(k) = OrgOf(c)
      BY <3>1 DEF PoolOf, OrgOf
    <3>3. \A d \in D : d.id = k.id => d = c
      BY <3>1 DEF IInv, IdsDistinct, AskedAt, At
    <3> QED
      BY <3>1, <3>2, <3>3 DEF AskedAt, At
  <2>2. \A k : OrgOf(k)' = OrgOf(k)
    BY <1>1 DEF OrgOf
  <2> QED
    BY <1>1, <2>1, <2>2 DEF At, PartsOf
<1>3. D \subseteq Standing
  BY AskedContext
<1>4. OrgHeld(g, p)' = Cardinality(S)
  <2>1. OrgHeld(g, p)' = Hours({k \in At(book', placed', p) : OrgOf(k)' = g})
    BY DEF OrgHeld
  <2>2. Hours(PartsOf(Kept(OutcomeNow), D)) = Cardinality(S)
    BY <1>3, KeptHours
  <2> QED
    BY <1>2, <2>1, <2>2
<1>5. S = {s \in Accepted(C, p) : OrgOf(s.chunk) = g}
  <2>1. {s \in ServedNow : s.chunk \in C} = Accepted(C, p)
    BY ServedAtPool
  <2> QED
    BY <2>1
<1>6. /\ \A s \in Slices(C, p) : HourOf(s) \in Units(C) /\ s.chunk \in C
      /\ \A s, t \in Slices(C, p) : HourOf(s) = HourOf(t) => s = t
      /\ \A u \in Units(C) : \E s \in Slices(C, p) : HourOf(s) = u
  BY AskedContext, SlicesAreHours
<1>7. \A s \in Slices(C, p) :
        s \in Accepted(C, p) <=> HourOf(s) \in ChosenHours(AskedHours(p), p)
  BY AskedContext, AcceptedAre DEF AskedHours
<1>8. \A s \in Slices(C, p) : HourOrg[HourOf(s)] = OrgOf(s.chunk)
  <2> SUFFICES ASSUME NEW s \in Slices(C, p) PROVE HourOrg[HourOf(s)] = OrgOf(s.chunk)
    OBVIOUS
  <2>1. HourOrg[HourOf(s)] = OrgOf(HourOf(s)[1])
    BY <1>6, AskedContext, UnitForm
  <2> QED
    BY <2>1 DEF HourOf
<1>9. Accepted(C, p) \subseteq Slices(C, p)
  BY DEF Accepted
<1>10. ChosenHours(AskedHours(p), p) \subseteq Units(C)
  BY DEF ChosenHours, ChosenOf, AskedHours
<1>11. Cardinality(O) = Cardinality(S)
  <2> DEFINE f == [s \in S |-> HourOf(s)]
  <2>1. f \in [S -> O]
    BY <1>5, <1>7, <1>8, <1>9 DEF Own
  <2>2. \A x, y \in S : f[x] = f[y] => x = y
    BY <1>5, <1>6, <1>9
  <2>3. \A z \in O : \E x \in S : f[x] = z
    <3> SUFFICES ASSUME NEW z \in O PROVE \E x \in S : HourOf(x) = z
      OBVIOUS
    <3>1. z \in Units(C) /\ z \in ChosenHours(AskedHours(p), p) /\ HourOrg[z] = g
      BY <1>10 DEF Own
    <3>2. PICK x \in Slices(C, p) : HourOf(x) = z
      BY <1>6, <3>1
    <3>3. x \in S
      BY <1>5, <1>7, <1>8, <3>1, <3>2
    <3> QED
      BY <3>2, <3>3
  <2>4. IsFiniteSet(S)
    BY ServedFinite, FS_Subset
  <2> HIDE DEF f, S, O
  <2> QED
    BY <2>1, <2>2, <2>3, <2>4, SameSize
<1> QED
  BY <1>4, <1>11

\* A chunk that a pool keeps has a chosen hour.
LEMMA KeptByChosen ==
  ASSUME IInv, ClearPass, NEW p \in Pools, NEW k \in At(book, placed', p)
  PROVE  \E u \in ChosenHours(AskedHours(p), p) :
           u[1].id = k.id /\ u[1].order = k.order /\ u[1].rung = k.rung
<1>1. k \in Kept(OutcomeNow) /\ PoolOf(book, k) = p
  BY PassEffect DEF At
<1>2. PICK c \in Standing : /\ Granted(ServedNow, c) > 0
                           /\ k.id = c.id /\ k.order = c.order /\ k.rung = c.rung
  BY <1>1, KeptChunks
<1>3. PoolOf(book, c) = p /\ c \in AskedAt(p)
  BY <1>1, <1>2 DEF PoolOf, AskedAt, At
<1>4. Mine(c) # {}
  <2>1. Granted(ServedNow, c) = Cardinality(Mine(c))
    BY MineBounds
  <2>2. Mine(c) = {} => Cardinality(Mine(c)) = 0
    BY FS_EmptySet
  <2> QED
    BY <1>2, <2>1, <2>2
<1>5. PICK s \in Accepted(AskedAt(p), p) : s.chunk = c
  BY <1>3, <1>4, MineBounds
<1>6. HourOf(s) \in ChosenHours(AskedHours(p), p)
  BY <1>5, AskedContext, AcceptedAre DEF AskedHours, Accepted
<1>7. HourOf(s)[1] = c
  BY <1>5 DEF HourOf
<1> QED
  BY <1>2, <1>6, <1>7

\* A chunk of which something is turned away has an hour that is not chosen.
LEMMA LeftOutHour ==
  ASSUME IInv, ClearPass, NEW p \in Pools, NEW k \in Rest(OutcomeNow), PoolOf(book, k) = p
  PROVE  \E u \in AskedHours(p) : /\ u \notin ChosenHours(AskedHours(p), p)
                                  /\ u[1].order = k.order /\ u[1].rung = k.rung
<1>1. PICK c \in Standing : /\ k = [c EXCEPT !.hours = c.hours - Granted(ServedNow, c)]
                           /\ Granted(ServedNow, c) < c.hours
  BY DEF Rest, OutcomeNow
<1>2. c \in Chunk
  BY ChunkContext DEF IInv
<1>3. k.order = c.order /\ k.rung = c.rung
  BY <1>1, <1>2 DEF Chunk
<1>4. PoolOf(book, c) = p /\ c \in AskedAt(p)
  BY <1>3 DEF PoolOf, AskedAt, At
<1>5. c.hours \in Nat /\ c.hours \in 1..MaxHours
  BY <1>2, LadderAssumption DEF Chunk
<1>6. \A i \in 1..c.hours : <<c, i>> \in AskedHours(p)
  BY <1>4, <1>5, LadderAssumption DEF AskedHours, Units
<1> SUFFICES ASSUME \A i \in 1..c.hours : <<c, i>> \in ChosenHours(AskedHours(p), p)
             PROVE  FALSE
  BY <1>3, <1>6
<1> DEFINE f == [i \in 1..c.hours |-> CHOOSE s \in Slices(AskedAt(p), p) : HourOf(s) = <<c, i>>]
<1>7. \A i \in 1..c.hours : f[i] \in Slices(AskedAt(p), p) /\ HourOf(f[i]) = <<c, i>>
  BY <1>6, AskedContext, SlicesAreHours DEF AskedHours
<1>8. \A i \in 1..c.hours : f[i] \in Mine(c)
  <2> SUFFICES ASSUME NEW i \in 1..c.hours PROVE f[i] \in Mine(c)
    OBVIOUS
  <2>1. PICK s : s = f[i]
    OBVIOUS
  <2>2. s \in Slices(AskedAt(p), p) /\ HourOf(s) = <<c, i>>
    BY <1>7, <2>1
  <2> HIDE DEF f
  <2>3. s \in Accepted(AskedAt(p), p)
    BY <2>2, AskedContext, AcceptedAre DEF AskedHours
  <2>4. s.chunk = c
    BY <2>2 DEF HourOf
  <2> QED
    BY <1>4, <2>1, <2>3, <2>4, MineBounds
<1>9. \A i, j \in 1..c.hours : f[i] = f[j] => i = j
  <2> HIDE DEF f
  <2>1. \A i, j \in 1..c.hours : f[i] = f[j] => <<c, i>> = <<c, j>>
    BY <1>7
  <2> QED
    BY <2>1
<1>10. f \in Injection(1..c.hours, Mine(c))
  <2>1. f \in [1..c.hours -> Mine(c)]
    BY <1>8
  <2> HIDE DEF f
  <2> QED
    BY <1>9, <2>1, Fun_IsInj
<1> HIDE DEF f
<1>11. Cardinality(1..c.hours) <= Cardinality(Mine(c))
  BY <1>10, MineBounds, FS_Injection
<1>12. Cardinality(1..c.hours) = c.hours
  BY <1>5, FS_Interval
<1>13. Granted(ServedNow, c) = Cardinality(Mine(c)) /\ Granted(ServedNow, c) \in Nat
  BY <1>5, MineBounds
<1> QED
  BY <1>1, <1>5, <1>11, <1>12, <1>13

-----------------------------------------------------------------------------
(* What a pool holds is fair to the orders it turned away.                 *)

\* One more hour of order o asking at its rung r.
Asker(o, r, i) == [id |-> i, order |-> o, rung |-> r, hours |-> 1]

Better(c, o, r) == Outranks(c, Asker(o, r, c.id + 1))

HighIn(U, o, r) == {u \in U : Better(u[1], o, r)}

FairlyAt(o, r) ==
  LET p == book[o].rungs[r].pool
  IN /\ Guarded(HeldHours(p), HourOrg, Share(p), HighIn(HeldHours(p), o, r), book[o].org)
     /\ Yielding(HeldHours(p), HourOrg, Share(p), book[o].org)

(***************************************************************************)
(* The inductive invariant of fairness.  At a pool that turned order o     *)
(* away, every hour held ranks higher than o, save those of an             *)
(* organisation within its share while the organisation of o has reached   *)
(* its own; and no organisation is above its share while that of o is      *)
(* below it.                                                               *)
(***************************************************************************)
FairTurns ==
  \A o \in Orders : \A r \in DOMAIN book[o].rungs : TurnedAway(o, r) => FairlyAt(o, r)

LEMMA AskerContext ==
  ASSUME IInv, NEW o \in Orders, NEW r \in DOMAIN book[o].rungs, NEW i
  PROVE  /\ TipAt(Asker(o, r, i)) \in Nat
         /\ \A c : c.order = o /\ c.rung = r => TipAt(Asker(o, r, i)) = TipAt(c)
         /\ book[o].tier \in Int /\ book[o].lottery \in Nat
         /\ Asker(o, r, i).order = o /\ Asker(o, r, i).id = i
         /\ OrgOf(Asker(o, r, i)) = book[o].org
         /\ PoolOf(book, Asker(o, r, i)) = book[o].rungs[r].pool
         /\ o \in Nat
<1> DEFINE p == book[o].rungs[r].pool
<1>1. /\ Asker(o, r, i).order = o /\ Asker(o, r, i).id = i
      /\ PoolOf(book, Asker(o, r, i)) = p /\ OrgOf(Asker(o, r, i)) = book[o].org
  BY DEF Asker, PoolOf, OrgOf
<1>2. book[o] \in Order /\ p \in Pools /\ view \in [Pools -> PoolView]
  BY RungContext, RealtimeAssumption DEF IInv, TypeOK
<1>3. view[p].base \in Nat /\ book[o].tip \in Nat /\ book[o].tier \in Int /\ book[o].lottery \in Nat
  BY <1>2 DEF Order, PoolView
<1>4. view[p].base * TipNum \in Nat
  BY <1>3, RealtimeAssumption
<1>5. (view[p].base * TipNum) \div TipDen \in Nat
  BY <1>4, DivNat, RealtimeAssumption
<1>6. TipAt(Asker(o, r, i)) = CappedTip(book[o].tip, view[p].base)
  BY <1>1 DEF TipAt
<1>7. \A c : c.order = o /\ c.rung = r => TipAt(c) = CappedTip(book[o].tip, view[p].base)
  BY DEF TipAt, PoolOf
<1>8. CappedTip(book[o].tip, view[p].base) \in Nat
  BY <1>3, <1>5 DEF CappedTip
<1> QED
  BY <1>1, <1>3, <1>6, <1>7, <1>8, LadderAssumption

\* What outranks a better chunk is better.
LEMMA BetterClosed ==
  ASSUME IInv, NEW o \in Orders, NEW r \in DOMAIN book[o].rungs, NEW C, Rankable(C),
         NEW c \in C, NEW d \in C, Outranks(c, d), Better(d, o, r)
  PROVE  Better(c, o, r)
<1> DEFINE a == Asker(o, r, c.id + 1)
           b == Asker(o, r, d.id + 1)
<1>1. /\ TipAt(c) \in Nat /\ book[c.order].tier \in Int /\ book[c.order].lottery \in Nat
      /\ c.order \in Nat /\ c.id \in Nat
      /\ TipAt(d) \in Nat /\ book[d.order].tier \in Int /\ book[d.order].lottery \in Nat
      /\ d.order \in Nat /\ d.id \in Nat
  BY LadderAssumption DEF Rankable, Chunk
<1>2. /\ TipAt(a) \in Nat /\ TipAt(b) = TipAt(a)
      /\ book[o].tier \in Int /\ book[o].lottery \in Nat /\ o \in Nat
      /\ a.order = o /\ b.order = o /\ a.id = c.id + 1 /\ b.id = d.id + 1
  <2>1. a.order = o /\ a.rung = r
    BY DEF Asker
  <2> HIDE DEF a
  <2>2. TipAt(b) = TipAt(a)
    BY <2>1, AskerContext
  <2> USE DEF a
  <2> QED
    BY <2>2, AskerContext
<1>3. Outranks(d, b)
  BY DEF Better
<1> HIDE DEF a, b
<1>4. Outranks(c, a)
  BY <1>1, <1>2, <1>3 DEF Outranks
<1> QED
  BY <1>4 DEF a, Better

LEMMA HighClosed ==
  ASSUME IInv, NEW o \in Orders, NEW r \in DOMAIN book[o].rungs, NEW p \in Pools
  PROVE  /\ HighIn(AskedHours(p), o, r) \in SUBSET AskedHours(p)
         /\ \A t \in HighIn(AskedHours(p), o, r) :
              HourRank(AskedHours(p))[t] \subseteq HighIn(AskedHours(p), o, r)
<1> DEFINE U == AskedHours(p)
<1> SUFFICES ASSUME NEW t \in HighIn(U, o, r), NEW v \in HourRank(U)[t]
             PROVE  v \in HighIn(U, o, r)
  BY DEF HighIn
<1>1. t \in U /\ Better(t[1], o, r)
  BY DEF HighIn
<1>2. v \in U /\ HourBefore(v, t)
  BY <1>1 DEF HourRank
<1>3. v[1] \in AskedAt(p) /\ t[1] \in AskedAt(p)
  BY <1>1, <1>2 DEF AskedHours, Units
<1>4. Better(v[1], o, r)
  <2>1. CASE Outranks(v[1], t[1])
    BY <1>1, <1>3, <2>1, AskedContext, BetterClosed
  <2>2. CASE v[1] = t[1]
    BY <1>1, <2>2
  <2> QED
    BY <1>2, <2>1, <2>2 DEF HourBefore
<1> QED
  BY <1>2, <1>4 DEF HighIn

\* A pass that leaves order o turned away at its rung r chooses fairly there.
LEMMA PassChoosesFairly ==
  ASSUME IInv, ClearPass, NoIdleBoxAfterTurningAway, FairTurns, DownToAgrees, DownToAgrees',
         NEW o \in Orders, NEW r \in DOMAIN book[o].rungs, TurnedAway(o, r)',
         NEW p \in Pools, p = book[o].rungs[r].pool,
         NEW S, S = ChosenHours(AskedHours(p), p)
  PROVE  /\ Guarded(S, HourOrg, Share(p), HighIn(AskedHours(p), o, r), book[o].org)
         /\ Yielding(S, HourOrg, Share(p), book[o].org)
<1> DEFINE T == AskedHours(p)
           H == HeldHours(p)
           O == HighIn(T, o, r)
           h == book[o].org
<1>1. /\ IsFiniteSet(T) /\ StrictOrderBy(T, HourRank(T))
      /\ Share(p) \in Nat /\ view[p].supply \in Nat
      /\ H \in SUBSET T
  BY AskedContext
<1>2. O \in SUBSET T /\ \A t \in O : HourRank(T)[t] \subseteq O
  BY HighClosed
<1>3. S = ChosenOf(T, FirstBand(T, HourOrg, HourRank(T), Share(p)), HourRank(T), view[p].supply)
  BY DEF ChosenHours, FirstHours
<1>4. CASE TurnedAway(o, r)
  <2>1. Cardinality(H) = view[p].supply
    BY <1>4 DEF NoIdleBoxAfterTurningAway, HeldAt, Hours, HeldHours
  <2>2. /\ Guarded(H, HourOrg, Share(p), HighIn(H, o, r), h)
        /\ Yielding(H, HourOrg, Share(p), h)
    BY <1>4 DEF FairTurns, FairlyAt
  <2>3. HighIn(H, o, r) \subseteq O
    BY <1>1 DEF HighIn
  <2>4. Guarded(H, HourOrg, Share(p), O, h)
    BY <2>2, <2>3 DEF Guarded
  <2> HIDE DEF T, H, O, h
  <2>5. Guarded(S, HourOrg, Share(p), O, h) /\ Yielding(S, HourOrg, Share(p), h)
    BY <1>1, <1>2, <1>3, <2>1, <2>2, <2>4, ChoosingAgain
  <2> QED
    BY <2>5 DEF T, O, h
<1>5. CASE ~TurnedAway(o, r)
  <2>1. book' = book /\ view' = view
    BY DEF ClearPass
  <2>2. r \in OpenRungs(book[o], view, FALSE) /\ r \in Nat
    BY <2>1, RungContext DEF TurnedAway, OpenRungs, Affordable
  <2>3. HoursDownTo(o, r)' = DownTo(o, r)' /\ HoursDownTo(o, r) = DownTo(o, r)
    BY <2>2 DEF DownToAgrees
  <2>4. DownTo(o, r)' # DownTo(o, r)
    <3>1. HoursDownTo(o, r)' < book[o].hours
      BY <2>1 DEF TurnedAway
    <3>2. ~(HoursDownTo(o, r) < book[o].hours)
      BY <1>5, <2>2 DEF TurnedAway
    <3> QED
      BY <2>3, <3>1, <3>2
  <2>5. PICK k \in Rest(OutcomeNow) : k.order = o /\ k.rung = r
    BY <2>2, <2>4, DownToStays
  <2>6. PoolOf(book, k) = p
    BY <2>5 DEF PoolOf
  <2>7. PICK x \in T : x \notin S /\ x[1].order = o /\ x[1].rung = r
    BY <2>5, <2>6, LeftOutHour
  <2>8. x[1] \in AskedAt(p) /\ HourOrg[x] = OrgOf(x[1]) /\ x[1].id \in Nat
    BY AskedContext, UnitForm DEF AskedHours
  <2>9. HourOrg[x] = h
    BY <2>7, <2>8 DEF OrgOf
  <2>10. Better(x[1], o, r)
    <3> DEFINE a == Asker(o, r, x[1].id + 1)
    <3>1. TipAt(a) = TipAt(x[1]) /\ TipAt(a) \in Nat /\ a.order = o /\ a.id = x[1].id + 1
      BY <2>7, AskerContext
    <3>2. book[o].tier \in Int /\ book[o].lottery \in Nat /\ o \in Nat
      BY AskerContext
    <3> HIDE DEF a
    <3>3. Outranks(x[1], a)
      BY <2>7, <2>8, <3>1, <3>2 DEF Outranks
    <3> QED
      BY <3>3 DEF a, Better
  <2>11. x \in O
    BY <2>10 DEF HighIn
  <2> HIDE DEF T, O, h
  <2>12. Guarded(S, HourOrg, Share(p), O, HourOrg[x]) /\ Yielding(S, HourOrg, Share(p), HourOrg[x])
    BY <1>1, <1>2, <1>3, <2>7, <2>11, LeavingOut, ZenonT(60)
  <2>13. Guarded(S, HourOrg, Share(p), O, h) /\ Yielding(S, HourOrg, Share(p), h)
    BY <2>9, <2>12
  <2> QED
    BY <2>13 DEF T, O, h
<1> QED
  BY <1>4, <1>5

\* Guards and yields only look at organisations, sizes and ranks.
LEMMA FairnessCarries ==
  ASSUME NEW X, NEW Y, NEW owner, NEW share, NEW O, NEW P, NEW h,
         \A y \in Y : \E x \in X : owner[y] = owner[x] /\ (x \in O => y \in P),
         \A g : Cardinality(Own(Y, owner, g)) = Cardinality(Own(X, owner, g)),
         Guarded(X, owner, share, O, h), Yielding(X, owner, share, h)
  PROVE  Guarded(Y, owner, share, P, h) /\ Yielding(Y, owner, share, h)
<1>1. Guarded(Y, owner, share, P, h)
  <2> SUFFICES ASSUME NEW y \in Y,
                      \/ owner[y] = h
                      \/ Cardinality(Own(Y, owner, owner[y])) > share
                      \/ Cardinality(Own(Y, owner, h)) < share
               PROVE  y \in P
    BY DEF Guarded
  <2>1. PICK x \in X : owner[y] = owner[x] /\ (x \in O => y \in P)
    OBVIOUS
  <2>2. /\ Cardinality(Own(Y, owner, owner[y])) = Cardinality(Own(X, owner, owner[x]))
        /\ Cardinality(Own(Y, owner, h)) = Cardinality(Own(X, owner, h))
    BY <2>1
  <2> QED
    BY <2>1, <2>2 DEF Guarded
<1>2. Yielding(Y, owner, share, h)
  <2> SUFFICES ASSUME NEW y \in Y, Cardinality(Own(Y, owner, h)) < share
               PROVE  Cardinality(Own(Y, owner, owner[y])) <= share
    BY DEF Yielding
  <2>1. PICK x \in X : owner[y] = owner[x]
    OBVIOUS
  <2>2. /\ Cardinality(Own(Y, owner, owner[y])) = Cardinality(Own(X, owner, owner[x]))
        /\ Cardinality(Own(Y, owner, h)) = Cardinality(Own(X, owner, h))
    BY <2>1
  <2> QED
    BY <2>2 DEF Yielding
<1> QED
  BY <1>1, <1>2

LEMMA PassStaysFair ==
  ASSUME IInv, ClearPass, NoIdleBoxAfterTurningAway, FairTurns, DownToAgrees, DownToAgrees',
         IInv', OrgHeldAgrees'
  PROVE  FairTurns'
<1>1. book' = book /\ view' = view
  BY DEF ClearPass
<1> SUFFICES ASSUME NEW o \in Orders, NEW r \in DOMAIN book[o].rungs, TurnedAway(o, r)',
                    NEW p \in Pools, p = book[o].rungs[r].pool
             PROVE  FairlyAt(o, r)'
  <2>1. \A o \in Orders : \A r \in DOMAIN book[o].rungs : book[o].rungs[r].pool \in Pools
    BY RungContext
  <2> QED
    BY <1>1, <2>1 DEF FairTurns
<1> DEFINE Y == Units(At(book, placed', p))
           S == ChosenHours(AskedHours(p), p)
           h == book[o].org
           O == HighIn(AskedHours(p), o, r)
           P == HighIn(Y, o, r)
<1>2. /\ Guarded(S, HourOrg, Share(p), O, h)
      /\ Yielding(S, HourOrg, Share(p), h)
  BY PassChoosesFairly
<1>3. At(book, placed', p) \subseteq Chunk
  BY DEF IInv, TypeOK, At
<1>4. \A y \in Y : \E x \in S : HourOrg[y] = HourOrg[x] /\ (x \in O => y \in P)
  <2> SUFFICES ASSUME NEW y \in Y
               PROVE  \E x \in S : HourOrg[y] = HourOrg[x] /\ (x \in O => y \in P)
    OBVIOUS
  <2>1. y[1] \in At(book, placed', p) /\ HourOrg[y] = OrgOf(y[1])
    BY <1>3, UnitForm
  <2>2. PICK x \in S : x[1].id = y[1].id /\ x[1].order = y[1].order /\ x[1].rung = y[1].rung
    BY <2>1, KeptByChosen
  <2>3. HourOrg[x] = OrgOf(x[1])
    <3>1. x \in AskedHours(p)
      BY DEF ChosenHours, ChosenOf
    <3> QED
      BY <3>1, AskedContext, UnitForm DEF AskedHours
  <2>4. Better(x[1], o, r) <=> Better(y[1], o, r)
    <3>1. TipAt(x[1]) = TipAt(y[1])
      BY <2>2 DEF TipAt, PoolOf
    <3> QED
      BY <2>2, <3>1 DEF Better, Outranks
  <2> QED
    BY <2>1, <2>2, <2>3, <2>4 DEF HighIn, OrgOf
<1>5. \A g : Cardinality(Own(Y, HourOrg, g)) = Cardinality(Own(S, HourOrg, g))
  <2> SUFFICES ASSUME NEW g
               PROVE  Cardinality(Own(Y, HourOrg, g)) = Cardinality(Own(S, HourOrg, g))
    OBVIOUS
  <2>1. OrgHeld(g, p)' = Cardinality(Own(S, HourOrg, g))
    BY PassKeepsHours
  <2>2. HourOrg' = HourOrg
    BY <1>1 DEF HourOrg, OrgOf
  <2>3. Own(HeldHours(p), HourOrg, g)' = Own(Y, HourOrg, g)
    BY <1>1, <2>2 DEF HeldHours, Own
  <2>4. Cardinality(Own(HeldHours(p), HourOrg, g))' = OrgHeld(g, p)'
    BY DEF OrgHeldAgrees
  <2> QED
    BY <2>1, <2>3, <2>4
<1>6. /\ Guarded(Y, HourOrg, Share(p), P, h)
      /\ Yielding(Y, HourOrg, Share(p), h)
  <2> HIDE DEF Y, S, P, O, h
  <2> QED
    BY <1>2, <1>4, <1>5, FairnessCarries
<1>7. HeldHours(p)' = Y /\ HourOrg' = HourOrg /\ Share(p)' = Share(p)
  BY <1>1 DEF HeldHours, HourOrg, OrgOf, Share
<1>8. HighIn(HeldHours(p), o, r)' = P
  BY <1>1, <1>7 DEF HighIn, Better, Outranks, TipAt, PoolOf
<1>9. Guarded(HeldHours(p), HourOrg, Share(p), HighIn(HeldHours(p), o, r), book[o].org)'
  <2> HIDE DEF Y, P
  <2> QED
    BY <1>1, <1>6, <1>7, <1>8 DEF Guarded, Own
<1>10. Yielding(HeldHours(p), HourOrg, Share(p), book[o].org)'
  <2> HIDE DEF Y, P
  <2> QED
    BY <1>1, <1>6, <1>7 DEF Yielding, Own
<1> QED
  BY <1>1, <1>9, <1>10 DEF FairlyAt

LEMMA StartsFair ==
  ASSUME IInv, Init, NoIdleBoxAfterTurningAway
  PROVE  FairTurns
<1> SUFFICES ASSUME NEW o \in Orders, NEW r \in DOMAIN book[o].rungs, TurnedAway(o, r)
             PROVE  FALSE
  BY DEF FairTurns
<1> DEFINE p == book[o].rungs[r].pool
<1>1. p \in Pools /\ view[p].supply \in Nat
  BY RungContext, ShareNat
<1>2. HeldAt(p) = 0
  BY <1>1, HeldBounds DEF Init
<1>3. HeldAt(p) = view[p].supply
  BY DEF NoIdleBoxAfterTurningAway
<1>4. view[p].supply > 0
  BY DEF TurnedAway, OpenRungs, Affordable
<1> HIDE DEF p
<1> QED
  BY <1>1, <1>2, <1>3, <1>4

LEMMA AlwaysFair == Spec => []FairTurns
<1>1. IInv /\ Init /\ NoIdleBoxAfterTurningAway => FairTurns
  BY StartsFair
<1>2. IInv /\ IInv' /\ NoIdleBoxAfterTurningAway /\ FairTurns /\ [Next]_vars => FairTurns'
  <2> SUFFICES ASSUME IInv, IInv', NoIdleBoxAfterTurningAway, FairTurns, [Next]_vars
               PROVE  FairTurns'
    OBVIOUS
  <2>1. CASE ClearPass
    <3>1. IInv'
      OBVIOUS
    <3>2. DownToAgrees /\ DownToAgrees'
      BY <3>1, DownToIs, PTL
    <3>3. OrgHeldAgrees'
      BY <3>1, OrgHeldIs, PTL
    <3> QED
      BY <2>1, <3>2, <3>3, PassStaysFair
  <2>2. CASE Settle \/ UNCHANGED vars
    <3>1. UNCHANGED <<book, view, placed, seeking>>
      BY <2>2 DEF Settle, vars
    <3>2. \A o, r : TurnedAway(o, r)' = TurnedAway(o, r)
      BY <3>1 DEF TurnedAway, HoursDownTo, OpenRungs, Affordable
    <3>3. HourOrg' = HourOrg
      BY <3>1 DEF HourOrg, OrgOf
    <3>4. \A p : HeldHours(p)' = HeldHours(p) /\ Share(p)' = Share(p)
      BY <3>1 DEF HeldHours, Share, At, PoolOf
    <3> SUFFICES ASSUME NEW o \in Orders, NEW r \in DOMAIN book[o].rungs,
                        NEW p, p = book[o].rungs[r].pool, TurnedAway(o, r)
                 PROVE  FairlyAt(o, r)'
      BY <3>1, <3>2 DEF FairTurns
    <3>5. \A c : Better(c, o, r)' <=> Better(c, o, r)
      <4> SUFFICES ASSUME NEW c PROVE Better(c, o, r)' <=> Better(c, o, r)
        OBVIOUS
      <4>1. \A d : TipAt(d)' = TipAt(d)
        BY <3>1 DEF TipAt, PoolOf
      <4> QED
        BY <3>1, <4>1 DEF Better, Outranks
    <3>6. HighIn(HeldHours(p), o, r)' = HighIn(HeldHours(p), o, r)
      BY <3>4, <3>5 DEF HighIn
    <3>7. /\ Guarded(HeldHours(p), HourOrg, Share(p), HighIn(HeldHours(p), o, r), book[o].org)
          /\ Yielding(HeldHours(p), HourOrg, Share(p), book[o].org)
      BY DEF FairTurns, FairlyAt
    <3>8. Guarded(HeldHours(p), HourOrg, Share(p), HighIn(HeldHours(p), o, r), book[o].org)'
      BY <3>1, <3>3, <3>4, <3>6, <3>7 DEF Guarded, Own
    <3>9. Yielding(HeldHours(p), HourOrg, Share(p), book[o].org)'
      BY <3>1, <3>3, <3>4, <3>7 DEF Yielding, Own
    <3> QED
      BY <3>1, <3>8, <3>9 DEF FairlyAt
  <2> QED
    BY <2>1, <2>2 DEF Next
<1> QED
  BY <1>1, <1>2, Invariant, NoBoxStaysIdle, PTL DEF Spec

\* An organisation that holds more than its share of a pool holds nothing that an
\* organisation within its share was refused.
THEOREM SharesYield == Spec => []OverShareYields
<1>1. IInv /\ FairTurns => OverShareYields
  <2> SUFFICES ASSUME IInv, FairTurns, NEW p \in Pools, NEW g \in Orgs,
                      OrgHeld(g, p) > CapHours(view[p]),
                      NEW o \in Orders, NEW r \in DOMAIN book[o].rungs,
                      TurnedAway(o, r), book[o].rungs[r].pool = p
               PROVE  OrgHeld(book[o].org, p) >= CapHours(view[p])
    BY DEF OverShareYields
  <2> DEFINE X == HeldHours(p)
             size(q) == Cardinality(Own(X, HourOrg, q))
  <2>1. size(g) = OrgHeld(g, p) /\ size(book[o].org) = OrgHeld(book[o].org, p)
    BY OrgHeldIs DEF OrgHeldAgrees
  <2>2. Share(p) = CapHours(view[p]) /\ Share(p) \in Nat
    BY ShareNat DEF Share
  <2>3. size(g) \in Nat /\ size(book[o].org) \in Nat
    <3>1. Own(X, HourOrg, g) \subseteq AskedHours(p) /\ Own(X, HourOrg, book[o].org) \subseteq AskedHours(p)
      BY AskedContext DEF Own
    <3> QED
      BY <3>1, AskedContext, FS_Subset, FS_CardinalityType
  <2>4. Yielding(X, HourOrg, Share(p), book[o].org)
    BY DEF FairTurns, FairlyAt
  <2>5. Own(X, HourOrg, g) # {}
    <3>1. Own(X, HourOrg, g) = {} => size(g) = 0
      BY FS_EmptySet
    <3> HIDE DEF size, X
    <3> QED
      BY <2>1, <2>2, <2>3, <3>1
  <2>6. PICK x \in X : HourOrg[x] = g
    BY <2>5 DEF Own
  <2>7. size(book[o].org) < Share(p) => size(g) <= Share(p)
    BY <2>4, <2>6 DEF Yielding
  <2> HIDE DEF size, X
  <2> QED
    BY <2>1, <2>2, <2>3, <2>7
<1> QED
  BY <1>1, Invariant, AlwaysFair, PTL

\* The hours a pool holds with one more hour that asks for them.
LEMMA OneMoreAsks ==
  ASSUME IInv, NEW o \in Orders, NEW r \in DOMAIN book[o].rungs,
         NEW p \in Pools, p = book[o].rungs[r].pool,
         NEW D, D = At(book, placed, p) \cup {Asker(o, r, lastId + 1)}
  PROVE  /\ Rankable(D) /\ D \subseteq Chunk /\ IsFiniteSet(D)
         /\ <<Asker(o, r, lastId + 1), 1>> \in Units(D)
         /\ Units(D) \ {<<Asker(o, r, lastId + 1), 1>>} = HeldHours(p)
<1> DEFINE P == At(book, placed, p)
           A == Asker(o, r, lastId + 1)
<1>1. P \subseteq Standing
  BY DEF At, Standing
<1>2. Rankable(P) /\ IsFiniteSet(P)
  BY <1>1, StandingRankable, StandingFinite, FS_Subset
<1>3. lastId \in Nat /\ \A c \in P : c.id \in Nat /\ c.id <= lastId
  BY <1>1 DEF IInv, TypeOK, IdsGivenOut, Standing, Chunk
<1>4. A \in Chunk /\ 1 \in 1..MaxHours
  <2>1. r \in Nat \ {0} /\ book[o].hours \in 1..MaxHours
    BY RungContext, RealtimeAssumption DEF IInv, TypeOK, Order
  <2>2. 1 \in 1..MaxHours
    BY <2>1, LadderAssumption
  <2>3. lastId + 1 \in Nat
    BY <1>3
  <2> QED
    BY <2>1, <2>2, <2>3 DEF Asker, Chunk
<1>5. A.order = o /\ A.rung = r /\ A.id = lastId + 1 /\ A.hours = 1
  BY DEF Asker
<1>6. TipAt(A) \in Nat /\ book[A.order].tier \in Int /\ book[A.order].lottery \in Nat
  BY AskerContext, <1>5
<1> HIDE DEF A
<1>7. A.id \in Nat /\ \A c \in P : c.id # A.id
  BY <1>3, <1>5
<1>8. D = P \cup {A}
  BY DEF A
<1>9. Rankable(D) /\ D \subseteq Chunk
  <2>1. D \subseteq Chunk
    BY <1>2, <1>4, <1>8 DEF Rankable
  <2>2. \A c, d \in D : c.id = d.id => c = d
    BY <1>2, <1>7, <1>8 DEF Rankable
  <2>3. \A c \in D : /\ TipAt(c) \in Nat /\ book[c.order].tier \in Int
                     /\ book[c.order].lottery \in Nat
    BY <1>2, <1>6, <1>8 DEF Rankable
  <2> QED
    BY <2>1, <2>2, <2>3 DEF Rankable
<1>10. IsFiniteSet(D)
  BY <1>2, <1>8, FS_AddElement
<1>11. <<A, 1>> \in Units(D)
  BY <1>4, <1>5, <1>8 DEF Units
<1>12. Units(D) \ {<<A, 1>>} = Units(P)
  <2>1. ASSUME NEW u \in Units(D), u # <<A, 1>> PROVE u \in Units(P)
    <3>1. u = <<u[1], u[2]>> /\ u[1] \in D /\ u[2] \in 1..MaxHours /\ u[2] <= u[1].hours
      BY DEF Units
    <3>2. u[2] \in Nat /\ u[2] >= 1
      BY <3>1, LadderAssumption
    <3>3. u[1] # A
      BY <1>5, <2>1, <3>1, <3>2
    <3> QED
      BY <1>8, <3>1, <3>3 DEF Units
  <2>2. ASSUME NEW u \in Units(P) PROVE u \in Units(D) /\ u # <<A, 1>>
    <3>1. u \in P \X (1..MaxHours) /\ u[1] \in P /\ u[2] <= u[1].hours
      BY DEF Units
    <3>2. u[1] # A
      BY <1>7, <3>1
    <3> QED
      BY <1>8, <3>1, <3>2 DEF Units
  <2> QED
    BY <2>1, <2>2
<1> QED
  BY <1>9, <1>10, <1>11, <1>12 DEF A, HeldHours

\* No pass makes room for an hour that a pool turned away: it would be turned
\* away again.
THEOREM RefusedForGood == Spec => []TurnedAwayForGood
<1>1. IInv /\ NoIdleBoxAfterTurningAway /\ FairTurns => TurnedAwayForGood
  <2> SUFFICES ASSUME IInv, NoIdleBoxAfterTurningAway, FairTurns,
                      NEW o \in Orders, NEW r \in DOMAIN book[o].rungs, TurnedAway(o, r),
                      NEW p, p = book[o].rungs[r].pool,
                      NEW A, A = [id |-> lastId + 1, order |-> o, rung |-> r, hours |-> 1]
               PROVE  Cardinality({s \in Accepted(At(book, placed, p) \cup {A}, p) : s.chunk.order = o})
                        <= Hours(OfOrder(At(book, placed, p), o))
    BY DEF TurnedAwayForGood
  <2>0. p \in Pools /\ A = Asker(o, r, lastId + 1)
    BY RungContext DEF Asker
  <2>1. PICK D : D = At(book, placed, p) \cup {A}
    OBVIOUS
  <2> DEFINE T == Units(D)
             X == HeldHours(p)
             a == <<A, 1>>
             rank == HourRank(T)
             h == book[o].org
  <2>2. /\ Rankable(D) /\ D \subseteq Chunk /\ IsFiniteSet(D) /\ IsFiniteSet(T)
        /\ a \in T /\ X = T \ {a} /\ StrictOrderBy(T, rank)
        /\ Share(p) \in Nat /\ view[p].supply \in Nat
    <3>1. D = At(book, placed, p) \cup {Asker(o, r, lastId + 1)}
      BY <2>0, <2>1
    <3>2. /\ Rankable(D) /\ D \subseteq Chunk /\ IsFiniteSet(D)
          /\ a \in T /\ T \ {a} = X
      BY <2>0, <3>1, OneMoreAsks
    <3> QED
      BY <2>0, <3>2, UnitsFinite, RankableStrict, ShareNat
  <2>3. Cardinality(X) = view[p].supply
    BY DEF NoIdleBoxAfterTurningAway, HeldAt, Hours, HeldHours
  <2>4. HourOrg[a] = h
    <3>1. a[1] = A /\ HourOrg[a] = OrgOf(a[1])
      BY <2>2, UnitForm
    <3> QED
      BY <2>0, <3>1, AskerContext
  <2>5. HighIn(X, o, r) \subseteq rank[a]
    <3> SUFFICES ASSUME NEW u \in HighIn(X, o, r) PROVE u \in rank[a]
      OBVIOUS
    <3>1. u \in X /\ Better(u[1], o, r) /\ u \in T
      BY <2>2 DEF HighIn
    <3> DEFINE c == u[1]
               b == Asker(o, r, c.id + 1)
    <3>2. c \in At(book, placed, p) /\ c \in Chunk
      BY <3>1 DEF HeldHours, Units, IInv, TypeOK, At
    <3>3. c.id \in Nat /\ c.id <= lastId /\ lastId \in Nat /\ c.order \in Nat
      BY <3>2, LadderAssumption DEF IInv, TypeOK, IdsGivenOut, Standing, Chunk, At
    <3>4. Outranks(c, b)
      BY <3>1 DEF Better
    <3>5. /\ A.order = o /\ A.rung = r /\ A.id = lastId + 1
          /\ b.order = o /\ b.rung = r /\ b.id = c.id + 1
      BY DEF Asker
    <3>6. TipAt(b) = TipAt(A)
      <4>1. PICK k : k = b
        OBVIOUS
      <4> HIDE DEF b
      <4>2. TipAt(A) = TipAt(k)
        BY <2>0, <3>5, <4>1, AskerContext
      <4> QED
        BY <4>1, <4>2
    <3> HIDE DEF b, c
    <3>7. Outranks(c, A)
      BY <3>3, <3>4, <3>5, <3>6 DEF Outranks
    <3>8. HourBefore(u, a)
      BY <3>7 DEF HourBefore, c
    <3> QED
      BY <2>2, <3>1, <3>8 DEF HourRank
  <2>6. /\ Guarded(X, HourOrg, Share(p), rank[a], HourOrg[a])
        /\ Yielding(X, HourOrg, Share(p), HourOrg[a])
    <3>1. /\ Guarded(X, HourOrg, Share(p), HighIn(X, o, r), h)
          /\ Yielding(X, HourOrg, Share(p), h)
      BY DEF FairTurns, FairlyAt
    <3> HIDE DEF X, rank, a, h
    <3> QED
      BY <2>4, <2>5, <3>1 DEF Guarded
  <2>7. a \notin ChosenHours(T, p)
    <3>1. ChosenHours(T, p) = ChosenOf(T, FirstBand(T, HourOrg, rank, Share(p)), rank, view[p].supply)
      BY DEF ChosenHours, FirstHours
    <3> DEFINE share == Share(p)
               room == view[p].supply
    <3> HIDE DEF T, X, rank, a, share, room
    <3>2. /\ IsFiniteSet(T) /\ StrictOrderBy(T, rank) /\ share \in Nat /\ room \in Nat
          /\ a \in T /\ X = T \ {a} /\ Cardinality(X) = room
      BY <2>2, <2>3, Zenon DEF share, room
    <3>3. Guarded(X, HourOrg, share, rank[a], HourOrg[a]) /\ Yielding(X, HourOrg, share, HourOrg[a])
      BY <2>6, Zenon DEF share
    <3>4. a \notin ChosenOf(T, FirstBand(T, HourOrg, rank, share), rank, room)
      BY <3>2, <3>3, NoRoomForMore
    <3> QED
      BY <3>1, <3>4, Zenon DEF share, room
  <2> DEFINE S == {s \in Accepted(D, p) : s.chunk.order = o}
             O == OfOrder(At(book, placed, p), o)
             f == [s \in S |-> HourOf(s)]
  <2>8. \A s \in S : s \in Slices(D, p) /\ HourOf(s) \in ChosenHours(T, p)
    BY <2>0, <2>2, AcceptedAre DEF Accepted
  <2>9. ASSUME NEW s \in S PROVE HourOf(s) \in Units(O)
    <3>1. HourOf(s) \in X
      <4>1. HourOf(s) \in T /\ HourOf(s) # a
        BY <2>7, <2>8 DEF ChosenHours, ChosenOf
      <4> HIDE DEF T, X, a, S
      <4> QED
        BY <2>2, <4>1
    <3>2. HourOf(s)[1] = s.chunk /\ s.chunk.order = o
      BY DEF HourOf
    <3> QED
      BY <3>1, <3>2 DEF HeldHours, Units, OfOrder
  <2>10. \A s, t \in S : HourOf(s) = HourOf(t) => s = t
    <3>1. \A s \in S : s \in Slices(D, p)
      BY <2>8, Zenon
    <3>2. \A s, t \in Slices(D, p) : HourOf(s) = HourOf(t) => s = t
      BY <2>0, <2>2, SlicesAreHours
    <3> HIDE DEF S
    <3> QED
      BY <3>1, <3>2
  <2>11. f \in Injection(S, Units(O))
    <3>1. f \in [S -> Units(O)]
      BY <2>9
    <3>2. \A s, t \in S : f[s] = f[t] => s = t
      BY <2>10
    <3> HIDE DEF f, S, O
    <3> QED
      BY <3>1, <3>2, Fun_IsInj
  <2>12. IsFiniteSet(Units(O))
    <3>1. O \subseteq Standing
      BY DEF OfOrder, At, Standing
    <3> HIDE DEF O
    <3> QED
      BY <3>1, StandingFinite, FS_Subset, UnitsFinite
  <2>13. Cardinality(S) <= Hours(O)
    <3> HIDE DEF f, S, O
    <3> QED
      BY <2>11, <2>12, FS_Injection DEF Hours
  <2> QED
    BY <2>1, <2>13
<1> QED
  BY <1>1, Invariant, NoBoxStaysIdle, AlwaysFair, PTL

-----------------------------------------------------------------------------
(* Passes enough.  Every pass but the last turns an hour away, and an hour *)
(* only moves down: what has left the rungs of the ladders, hour by hour   *)
(* and rung by rung, grows with every pass, up to all there is.            *)

LadderSteps(b) ==
  {u \in Orders \X (1..MaxHours) \X UNION {DOMAIN b[o].rungs : o \in Orders} :
     u[3] \in DOMAIN b[u[1]].rungs /\ u[2] <= b[u[1]].hours}

StepsDown == {u \in LadderSteps(book) : HoursDownTo(u[1], u[3]) < u[2]}

HoursFit ==
  \A o \in Orders : \A r \in DOMAIN book[o].rungs : HoursDownTo(o, r) <= book[o].hours

Climb ==
  /\ HoursFit
  /\ seeking # {} => passes <= Cardinality(StepsDown)
  /\ phase = "done" /\ seeking # {} => passes = MaxPasses

LEMMA LadderStepsFinite ==
  ASSUME IInv
  PROVE  IsFiniteSet(LadderSteps(book)) /\ Cardinality(LadderSteps(book)) \in Nat
<1> DEFINE T == {DOMAIN book[o].rungs : o \in Orders}
           f == [o \in Orders |-> DOMAIN book[o].rungs]
<1>1. ASSUME NEW o \in Orders PROVE IsFiniteSet(DOMAIN book[o].rungs)
  <2>1. book[o].rungs \in Seq(Rung)
    BY RealtimeAssumption DEF IInv, TypeOK, Order
  <2>2. DOMAIN book[o].rungs = 1..Len(book[o].rungs) /\ Len(book[o].rungs) \in Nat
    BY <2>1
  <2> QED
    BY <2>2, FS_Interval
<1>2. f \in [Orders -> T] /\ \A t \in T : \E o \in Orders : f[o] = t
  OBVIOUS
<1>3. f \in Surjection(Orders, T)
  <2> HIDE DEF f, T
  <2> QED
    BY <1>2, Fun_IsSurj
<1>4. IsFiniteSet(T)
  <2> HIDE DEF f, T
  <2> QED
    BY <1>3, FS_Surjection, LadderAssumption
<1>5. IsFiniteSet(UNION T)
  <2>1. \A t \in T : IsFiniteSet(t)
    BY <1>1
  <2> HIDE DEF T
  <2> QED
    BY <1>4, <2>1, FS_UNION
<1>6. IsFiniteSet(1..MaxHours)
  BY FS_Interval, LadderAssumption
<1> DEFINE P == Orders \X (1..MaxHours) \X UNION T
<1>7. IsFiniteSet(P)
  <2> DEFINE Q == (1..MaxHours) \X UNION T
             g == [u \in Orders \X Q |-> <<u[1], u[2][1], u[2][2]>>]
  <2>1. IsFiniteSet(Q)
    <3> HIDE DEF T
    <3> QED
      BY <1>5, <1>6, FS_Product
  <2>2. IsFiniteSet(Orders \X Q)
    <3> HIDE DEF Q
    <3> QED
      BY <2>1, FS_Product, LadderAssumption
  <2>3. g \in [Orders \X Q -> P] /\ \A v \in P : \E u \in Orders \X Q : g[u] = v
    <3> HIDE DEF T
    <3>1. ASSUME NEW v \in P PROVE \E u \in Orders \X Q : g[u] = v
      <4>1. v = <<v[1], v[2], v[3]>> /\ v[1] \in Orders /\ v[2] \in 1..MaxHours /\ v[3] \in UNION T
        OBVIOUS
      <4>2. <<v[1], <<v[2], v[3]>>>> \in Orders \X Q
        BY <4>1
      <4>3. g[<<v[1], <<v[2], v[3]>>>>] = v
        BY <4>1, <4>2
      <4> QED
        BY <4>2, <4>3
    <3>2. g \in [Orders \X Q -> P]
      OBVIOUS
    <3> QED
      BY <3>1, <3>2
  <2>4. g \in Surjection(Orders \X Q, P)
    <3> HIDE DEF g, P, Q
    <3> QED
      BY <2>3, Fun_IsSurj
  <2> HIDE DEF g, P, Q
  <2> QED
    BY <2>2, <2>4, FS_Surjection
<1>8. LadderSteps(book) \subseteq P
  BY DEF LadderSteps
<1> HIDE DEF P
<1> QED
  BY <1>7, <1>8, FS_Subset, FS_CardinalityType

\* The hours of an order that stand at a rung or above never grow, and a pass
\* that turns hours away lets some of them down.
LEMMA PassLetsDown ==
  ASSUME IInv, ClearPass
  PROVE  /\ \A o \in Orders : \A r \in Nat : DownTo(o, r)' <= DownTo(o, r)
         /\ \A k \in Rest(OutcomeNow) : DownTo(k.order, k.rung)' < DownTo(k.order, k.rung)
<1>1. \A k \in Rest(OutcomeNow) :
        k \in Chunk /\ k.rung \in Nat /\ k.order \in Orders /\ k.hours \in 1..MaxHours
  BY RestChunks DEF Chunk
<1>2. ASSUME NEW k \in Rest(OutcomeNow), NEW s \in Best(RungsBelow(book[k.order], k.rung, view, FALSE))
      PROVE  s \in Nat /\ k.rung < s
  <2>1. s \in OpenRungs(book[k.order], view, FALSE) /\ s > k.rung
    BY <1>2 DEF Best, RungsBelow
  <2> QED
    BY <1>1, <2>1, OpenContext
<1>3. ASSUME NEW o \in Orders, NEW r \in Nat
      PROVE  /\ ComingTo(o, UpTo(r)) \subseteq On(Rest(OutcomeNow), o, UpTo(r))
             /\ \A k \in ComingTo(o, UpTo(r)) : k.rung < r
  <2> SUFFICES ASSUME NEW k \in ComingTo(o, UpTo(r))
               PROVE  k \in On(Rest(OutcomeNow), o, UpTo(r)) /\ k.rung < r
    OBVIOUS
  <2>1. /\ k \in Rest(OutcomeNow) /\ k.order = o
        /\ \E s \in UpTo(r) : s \in Best(RungsBelow(book[o], k.rung, view, FALSE))
    BY DEF ComingTo
  <2>2. PICK s \in UpTo(r) : s \in Best(RungsBelow(book[k.order], k.rung, view, FALSE))
    BY <2>1
  <2>3. k.rung < s /\ s \in Nat /\ s <= r /\ k.rung \in Nat
    BY <1>1, <1>2, <2>1, <2>2 DEF UpTo
  <2>4. k.rung <= r /\ k.rung < r
    BY <2>3
  <2> QED
    BY <1>1, <2>1, <2>4 DEF On, UpTo
<1>4. ASSUME NEW o \in Orders, NEW r \in Nat
      PROVE  DownTo(o, r)' <= DownTo(o, r)
             /\ ((\E k \in Rest(OutcomeNow) : k.order = o /\ k.rung = r)
                   => DownTo(o, r)' < DownTo(o, r))
  <2> DEFINE N == On(Rest(OutcomeNow), o, UpTo(r))
             M == ComingTo(o, UpTo(r))
  <2>1. /\ DownTo(o, r) = ServedOn(o, UpTo(r)) + Hours(N)
        /\ DownTo(o, r)' = ServedOn(o, UpTo(r)) + Hours(M)
        /\ ServedOn(o, UpTo(r)) \in Nat /\ Hours(N) \in Nat /\ Hours(M) \in Nat
    <3>1. PICK R : R = UpTo(r)
      OBVIOUS
    <3>2. /\ Hours(On(Standing, o, R)) = ServedOn(o, R) + Hours(On(Rest(OutcomeNow), o, R))
          /\ Hours(On(Standing', o, R)) = ServedOn(o, R) + Hours(ComingTo(o, R))
          /\ ServedOn(o, R) \in Nat
          /\ Hours(On(Rest(OutcomeNow), o, R)) \in Nat
          /\ Hours(ComingTo(o, R)) \in Nat
      BY RungHours
    <3> QED
      BY <3>1, <3>2 DEF DownTo
  <2>2. IsFiniteSet(Rest(OutcomeNow))
    BY RestChunks
  <2>3. IsFiniteSet(Units(N))
    <3>1. N \subseteq Rest(OutcomeNow)
      BY DEF On
    <3> HIDE DEF N
    <3> QED
      BY <2>2, <3>1, FS_Subset, UnitsFinite
  <2>4. M \subseteq N
    BY <1>3
  <2>5. Units(M) \subseteq Units(N)
    <3> HIDE DEF M, N
    <3> QED
      BY <2>4 DEF Units
  <2>6. Hours(M) <= Hours(N)
    <3> HIDE DEF M, N
    <3> QED
      BY <2>3, <2>5, FS_Subset DEF Hours
  <2>7. ASSUME NEW k \in Rest(OutcomeNow), k.order = o, k.rung = r
        PROVE  Hours(M) # Hours(N)
    <3>1. k \in N
      BY <2>7 DEF On, UpTo
    <3>2. k \notin M
      BY <1>3, <2>7
    <3>3. 1 \in 1..MaxHours /\ 1 <= k.hours
      BY <1>1, LadderAssumption
    <3>4. <<k, 1>> \in Units(N) /\ <<k, 1>> \notin Units(M)
      <4> HIDE DEF M, N
      <4> QED
        BY <3>1, <3>2, <3>3 DEF Units
    <3> HIDE DEF M, N
    <3> QED
      BY <2>3, <2>5, <3>4, FS_Subset DEF Hours
  <2> HIDE DEF M, N
  <2>8. DownTo(o, r)' <= DownTo(o, r)
    BY <2>1, <2>6
  <2>9. ASSUME NEW k \in Rest(OutcomeNow), k.order = o, k.rung = r
        PROVE  DownTo(o, r)' < DownTo(o, r)
    BY <2>1, <2>6, <2>7, <2>9
  <2> QED
    BY <2>8, <2>9
<1> QED
  BY <1>1, <1>4

LEMMA StepsDownBound ==
  ASSUME IInv
  PROVE  /\ IsFiniteSet(StepsDown) /\ StepsDown \subseteq LadderSteps(book)
         /\ Cardinality(StepsDown) \in Nat
<1>1. StepsDown \subseteq LadderSteps(book)
  BY DEF StepsDown
<1> QED
  BY <1>1, LadderStepsFinite, FS_Subset, FS_CardinalityType

LEMMA StepsCounted == IInv => Cardinality(StepsDown) \in Nat
BY StepsDownBound

\* Below what stands at a rung there is room: not all hours have left it.
LEMMA SomeStepLeft ==
  ASSUME IInv, seeking # {}
  PROVE  Cardinality(StepsDown) < Cardinality(LadderSteps(book))
<1>1. PICK c \in seeking : TRUE
  OBVIOUS
<1> DEFINE o == c.order
           r == c.rung
           u == <<o, 1, r>>
<1>2. c \in Standing /\ c \in Chunk /\ o \in Orders /\ r \in Nat /\ r \in DOMAIN book[o].rungs
      /\ c.hours \in 1..MaxHours
  BY DEF IInv, TypeOK, Standing, Chunk
<1>3. book[o].hours \in 1..MaxHours
  BY <1>2, RealtimeAssumption DEF IInv, TypeOK, Order
<1>4. 1 \in 1..MaxHours /\ 1 <= book[o].hours /\ 1 <= c.hours
  BY <1>2, <1>3, LadderAssumption
<1>5. u \in LadderSteps(book)
  BY <1>2, <1>4 DEF LadderSteps
<1>6. HoursDownTo(o, r) = DownTo(o, r)
  BY <1>2, DownToIs DEF DownToAgrees
<1>7. <<c, 1>> \in Units(On(Standing, o, UpTo(r)))
  BY <1>2, <1>4 DEF On, UpTo, Units
<1>8. IsFiniteSet(Units(On(Standing, o, UpTo(r)))) /\ DownTo(o, r) \in Nat
  <2>1. On(Standing, o, UpTo(r)) \subseteq Standing
    BY DEF On
  <2> QED
    BY <2>1, StandingFinite, FS_Subset, UnitsFinite DEF DownTo
<1>9. DownTo(o, r) # 0
  BY <1>7, <1>8, FS_EmptySet DEF DownTo, Hours
<1>10. u \notin StepsDown
  <2>1. ~(DownTo(o, r) < 1)
    BY <1>8, <1>9
  <2> QED
    BY <1>6, <2>1 DEF StepsDown
<1> HIDE DEF u
<1>11. Cardinality(StepsDown) <= Cardinality(LadderSteps(book))
       /\ Cardinality(StepsDown) # Cardinality(LadderSteps(book))
  BY <1>5, <1>10, LadderStepsFinite, StepsDownBound, FS_Subset
<1> QED
  BY <1>11, LadderStepsFinite, StepsDownBound

\* A pass that leaves something seeking has let an hour down.
LEMMA PassClimbs ==
  ASSUME IInv, ClearPass, HoursFit, DownToAgrees, DownToAgrees', IInv'
  PROVE  /\ HoursFit'
         /\ seeking' # {} => Cardinality(StepsDown) + 1 <= Cardinality(StepsDown')
<1>1. book' = book /\ view' = view
  BY DEF ClearPass
<1>2. \A o \in Orders : \A r \in DOMAIN book[o].rungs : r \in Nat
  BY RungContext
<1>3. \A o \in Orders : \A r \in DOMAIN book[o].rungs :
        /\ HoursDownTo(o, r) = DownTo(o, r) /\ HoursDownTo(o, r)' = DownTo(o, r)'
        /\ DownTo(o, r) \in Nat /\ DownTo(o, r)' \in Nat
  <2> SUFFICES ASSUME NEW o \in Orders, NEW r \in DOMAIN book[o].rungs
               PROVE  /\ HoursDownTo(o, r) = DownTo(o, r) /\ HoursDownTo(o, r)' = DownTo(o, r)'
                      /\ DownTo(o, r) \in Nat /\ DownTo(o, r)' \in Nat
    OBVIOUS
  <2>1. HoursDownTo(o, r) = DownTo(o, r) /\ HoursDownTo(o, r)' = DownTo(o, r)'
    BY <1>2 DEF DownToAgrees
  <2>2. PICK R : R = UpTo(r)
    OBVIOUS
  <2>3. Hours(On(Standing, o, R)) \in Nat /\ Hours(On(Standing', o, R)) \in Nat
    BY RungHours
  <2> QED
    BY <2>1, <2>2, <2>3 DEF DownTo
<1>4. \A o \in Orders : \A r \in DOMAIN book[o].rungs :
        HoursDownTo(o, r)' <= HoursDownTo(o, r)
  BY <1>2, <1>3, PassLetsDown
<1>5. HoursFit'
  <2> SUFFICES ASSUME NEW o \in Orders, NEW r \in DOMAIN book[o].rungs
               PROVE  HoursDownTo(o, r)' <= book[o].hours
    BY <1>1 DEF HoursFit
  <2>1. HoursDownTo(o, r) <= book[o].hours /\ book[o].hours \in Int
    BY RealtimeAssumption, LadderAssumption DEF HoursFit, IInv, TypeOK, Order
  <2> QED
    BY <1>3, <1>4, <2>1
<1>6. \A u \in LadderSteps(book) :
        u[1] \in Orders /\ u[2] \in Nat /\ u[3] \in DOMAIN book[u[1]].rungs
  BY LadderAssumption DEF LadderSteps
<1>7. StepsDown' = {u \in LadderSteps(book) : HoursDownTo(u[1], u[3])' < u[2]}
  BY <1>1 DEF StepsDown, LadderSteps
<1>8. StepsDown \subseteq StepsDown'
  <2> SUFFICES ASSUME NEW u \in LadderSteps(book), HoursDownTo(u[1], u[3]) < u[2]
               PROVE  HoursDownTo(u[1], u[3])' < u[2]
    BY <1>7 DEF StepsDown
  <2> QED
    BY <1>3, <1>4, <1>6
<1>9. ASSUME seeking' # {}
      PROVE  \E u : u \in StepsDown' /\ u \notin StepsDown
  <2>1. PICK k \in Rest(OutcomeNow) : TRUE
    BY <1>9, PassEffect DEF Descend
  <2>2. k \in Chunk /\ \E c \in Standing : k.id = c.id /\ k.order = c.order /\ k.rung = c.rung
    BY RestChunks
  <2> DEFINE o == k.order
             r == k.rung
             n == HoursDownTo(o, r)
             u == <<o, n, r>>
  <2>3. o \in Orders /\ r \in DOMAIN book[o].rungs
    BY <2>2 DEF Chunk, IInv, TypeOK, Standing
  <2>4. HoursDownTo(o, r)' < n /\ n \in Nat /\ HoursDownTo(o, r)' \in Nat
    BY <1>2, <1>3, <2>3, PassLetsDown
  <2>5. n <= book[o].hours /\ book[o].hours \in 1..MaxHours
    BY <2>3, RealtimeAssumption DEF HoursFit, IInv, TypeOK, Order
  <2> HIDE DEF n
  <2>6. n \in 1..MaxHours
    BY <2>4, <2>5, LadderAssumption
  <2>7. u \in LadderSteps(book)
    BY <2>3, <2>5, <2>6 DEF LadderSteps
  <2>8. u[1] = o /\ u[2] = n /\ u[3] = r
    OBVIOUS
  <2> HIDE DEF u
  <2>9. u \in StepsDown'
    BY <1>7, <2>4, <2>7, <2>8
  <2>10. u \notin StepsDown
    BY <2>4, <2>8 DEF StepsDown, n
  <2> QED
    BY <2>9, <2>10
<1>10. IsFiniteSet(StepsDown') /\ Cardinality(StepsDown') \in Nat /\ Cardinality(StepsDown) \in Nat
  <2>1. StepsDown' \subseteq LadderSteps(book)
    BY <1>7
  <2> QED
    BY <2>1, LadderStepsFinite, StepsDownBound, FS_Subset, FS_CardinalityType
<1>11. ASSUME seeking' # {} PROVE Cardinality(StepsDown) + 1 <= Cardinality(StepsDown')
  <2>1. Cardinality(StepsDown) <= Cardinality(StepsDown')
        /\ Cardinality(StepsDown) # Cardinality(StepsDown')
    BY <1>8, <1>9, <1>10, <1>11, FS_Subset
  <2> QED
    BY <1>10, <2>1
<1> QED
  BY <1>5, <1>11

\* An order enters whole, at one rung.
LEMMA StartsFit ==
  ASSUME IInv, Init
  PROVE  HoursFit
<1> SUFFICES ASSUME NEW o \in Orders, NEW r \in DOMAIN book[o].rungs
             PROVE  HoursDownTo(o, r) <= book[o].hours
  BY DEF HoursFit
<1> DEFINE Made(q) == {[id |-> Cardinality(EnteredUpTo(book, q)), order |-> q, rung |-> x,
                        hours |-> book[q].hours] : x \in Best(OpenRungs(book[q], view, FALSE))}
           C == {c \in OfOrder(placed \cup seeking, o) : c.rung <= r}
<1>1. seeking = UNION {Made(q) : q \in Orders} /\ placed = {}
  BY DEF Init, FirstChunks
<1>2. \A c \in C : c \in Made(o) /\ c \in Chunk
  <2> SUFFICES ASSUME NEW c \in C PROVE c \in Made(o) /\ c \in Chunk
    OBVIOUS
  <2>1. c \in seeking /\ c.order = o
    BY <1>1 DEF OfOrder
  <2>2. PICK q \in Orders : c \in Made(q)
    BY <1>1, <2>1
  <2>3. c.order = q
    <3>1. PICK x \in Best(OpenRungs(book[q], view, FALSE)) :
            c = [id |-> Cardinality(EnteredUpTo(book, q)), order |-> q, rung |-> x,
                 hours |-> book[q].hours]
      BY <2>2
    <3> QED
      BY <3>1
  <2> QED
    BY <2>1, <2>2, <2>3 DEF IInv, TypeOK
<1>3. \A x, y \in Best(OpenRungs(book[o], view, FALSE)) : x = y
  <2>1. PICK S : S = OpenRungs(book[o], view, FALSE)
    OBVIOUS
  <2>2. S \subseteq Nat
    BY <2>1, OpenContext
  <2>3. \A x, y \in Best(S) : x \in Nat /\ y \in Nat /\ x <= y /\ y <= x
    BY <2>2 DEF Best
  <2>4. \A x, y \in Best(S) : x = y
    BY <2>3
  <2> QED
    BY <2>1, <2>4
<1>4. \A c, d \in C : c = d
  <2> HIDE DEF C
  <2>1. \A c, d \in Made(o) : c = d
    BY <1>3
  <2> QED
    BY <1>2, <2>1
<1>5. \A c \in C : c.hours = book[o].hours
  <2> HIDE DEF C
  <2>1. ASSUME NEW c \in Made(o) PROVE c.hours = book[o].hours
    <3>1. PICK x \in Best(OpenRungs(book[o], view, FALSE)) :
            c = [id |-> Cardinality(EnteredUpTo(book, o)), order |-> o, rung |-> x,
                 hours |-> book[o].hours]
      BY <2>1
    <3> QED
      BY <3>1
  <2> QED
    BY <1>2, <2>1
<1>6. book[o].hours \in Nat
  BY RealtimeAssumption, LadderAssumption DEF IInv, TypeOK, Order
<1>7. Hours(C) <= book[o].hours
  <2> HIDE DEF C, Made
  <2>1. CASE C = {}
    <3>1. Units(C) = {}
      BY <2>1 DEF Units
    <3> QED
      BY <1>6, <3>1, FS_EmptySet DEF Hours
  <2>2. CASE C # {}
    <3>1. PICK c \in C : C = {c}
      BY <1>4, <2>2
    <3>2. Hours({c}) = c.hours
      BY <1>2, HoursOfOne
    <3> QED
      BY <1>5, <1>6, <3>1, <3>2
  <2> QED
    BY <2>1, <2>2
<1> QED
  BY <1>7 DEF HoursDownTo

LEMMA AlwaysClimbs == Spec => []Climb
<1>1. IInv /\ Init => Climb
  <2> SUFFICES ASSUME IInv, Init PROVE Climb
    OBVIOUS
  <2>1. passes = 0 /\ phase = "passing"
    BY DEF Init
  <2> QED
    BY <2>1, StartsFit, StepsDownBound DEF Climb
<1>2. IInv /\ IInv' /\ Climb /\ [Next]_vars => Climb'
  <2> SUFFICES ASSUME IInv, IInv', Climb, [Next]_vars
               PROVE  Climb'
    OBVIOUS
  <2>1. CASE ClearPass
    <3>1. IInv'
      OBVIOUS
    <3>2. DownToAgrees /\ DownToAgrees'
      BY <3>1, DownToIs, PTL
    <3>3. HoursFit' /\ (seeking' # {} => Cardinality(StepsDown) + 1 <= Cardinality(StepsDown'))
      BY <2>1, <3>2, PassClimbs DEF Climb
    <3>4. passes' = passes + 1 /\ passes <= Cardinality(StepsDown) /\ phase' = "passing"
      BY <2>1 DEF ClearPass, Climb
    <3>5. passes \in Nat /\ Cardinality(StepsDown) \in Nat
      BY StepsDownBound, RealtimeAssumption DEF IInv, TypeOK
    <3>6. (Cardinality(StepsDown) \in Nat)'
      BY <3>1, StepsCounted, PTL
    <3>7. seeking' # {} => passes' <= Cardinality(StepsDown)'
      BY <3>3, <3>4, <3>5, <3>6
    <3> QED
      BY <3>3, <3>4, <3>7 DEF Climb
  <2>2. CASE Settle \/ UNCHANGED vars
    <3>1. UNCHANGED <<book, view, placed, seeking, passes>>
      BY <2>2 DEF Settle, vars
    <3>2. phase' = "done" /\ seeking' # {} => passes' = MaxPasses
      BY <2>2 DEF Settle, vars, Climb
    <3>3. HoursFit' /\ StepsDown' = StepsDown
      <4>1. \A o, r : HoursDownTo(o, r)' = HoursDownTo(o, r)
        BY <3>1 DEF HoursDownTo
      <4>2. StepsDown' = StepsDown
        BY <3>1, <4>1 DEF StepsDown, LadderSteps
      <4> QED
        BY <3>1, <4>1, <4>2 DEF HoursFit, Climb
    <3> QED
      BY <3>1, <3>2, <3>3 DEF Climb
  <2> QED
    BY <2>1, <2>2 DEF Next
<1> QED
  BY <1>1, <1>2, Invariant, PTL DEF Spec

\* A round whose limit is no smaller than its hours times their rungs is never
\* cut short by it.
THEOREM PassesEnough ==
  Spec => [](Cardinality(LadderSteps(book)) <= MaxPasses => ConvergesBeforeTheCap)
<1>1. IInv /\ Climb => (Cardinality(LadderSteps(book)) <= MaxPasses => ConvergesBeforeTheCap)
  <2> SUFFICES ASSUME IInv, Climb, Cardinality(LadderSteps(book)) <= MaxPasses,
                      phase = "done", seeking # {}
               PROVE  FALSE
    BY DEF ConvergesBeforeTheCap
  <2>1. MaxPasses <= Cardinality(StepsDown)
    BY DEF Climb
  <2>2. Cardinality(StepsDown) < Cardinality(LadderSteps(book))
    BY SomeStepLeft
  <2> QED
    BY <2>1, <2>2, LadderStepsFinite, StepsDownBound, RealtimeAssumption
<1> QED
  BY <1>1, Invariant, AlwaysClimbs, PTL

-----------------------------------------------------------------------------
(* The loops of the code and the set of single hours.  A chunk stands for  *)
(* its hours: they are ranked alike, and what the loops take of it is the  *)
(* number of its hours that find room.                                     *)

ChunkRank(C) == [c \in C |-> {d \in C : Outranks(d, c)}]

ChunkOf(U) == [u \in U |-> u[1]]

LEMMA ChunksRanked ==
  ASSUME NEW C, Rankable(C)
  PROVE  StrictOrderBy(C, ChunkRank(C))
<1>1. \A c \in C : /\ TipAt(c) \in Nat /\ book[c.order].tier \in Int
                   /\ book[c.order].lottery \in Nat
                   /\ c.order \in Nat /\ c.id \in Nat
  BY LadderAssumption DEF Rankable, Chunk
<1>2. \A c \in C : ~Outranks(c, c)
  BY <1>1 DEF Outranks
<1>3. \A c, d \in C : c = d \/ Outranks(c, d) \/ Outranks(d, c)
  BY <1>1 DEF Outranks, Rankable
<1>4. \A c, d, e \in C : Outranks(c, d) /\ Outranks(d, e) => Outranks(c, e)
  BY <1>1 DEF Outranks
<1> QED
  BY <1>2, <1>3, <1>4 DEF StrictOrderBy, ChunkRank

LEMMA UnitsAreHours ==
  ASSUME NEW C, Rankable(C), IsFiniteSet(C)
  PROVE  /\ RankedAlike(C, ChunkRank(C), Units(C), HourRank(Units(C)), ChunkOf(Units(C)))
         /\ CountOfEach(C, Units(C), ChunkOf(Units(C)), Units(C), [c \in C |-> c.hours])
<1> DEFINE U == Units(C)
<1>1. StrictOrderBy(C, ChunkRank(C)) /\ StrictOrderBy(U, HourRank(U)) /\ IsFiniteSet(U)
  BY ChunksRanked, RankableStrict, UnitsFinite
<1>2. C \subseteq Chunk
  BY DEF Rankable
<1>3. \A u \in U : u[1] \in C
  BY <1>2, UnitForm
<1>4. ChunkOf(U) \in [U -> C]
  BY <1>3 DEF ChunkOf
<1>5. \A x, y \in U : ChunkOf(U)[x] \in ChunkRank(C)[ChunkOf(U)[y]] => x \in HourRank(U)[y]
  BY <1>3 DEF ChunkOf, ChunkRank, HourRank, HourBefore
<1>6. ASSUME NEW c \in C
      PROVE  c.hours = Cardinality({x \in U : ChunkOf(U)[x] = c /\ x \in U})
  <2>1. {x \in U : ChunkOf(U)[x] = c /\ x \in U} = Units({c})
    BY <1>6 DEF ChunkOf, Units
  <2>2. c \in Chunk
    BY <1>2
  <2> QED
    BY <2>1, <2>2, HoursOfOne DEF Hours
<1>7. CountOfEach(C, U, ChunkOf(U), U, [c \in C |-> c.hours])
  BY <1>6 DEF CountOfEach
<1> QED
  BY <1>1, <1>4, <1>5, <1>7 DEF RankedAlike

\* Hours in band 0.
InBand(U, p) == {u \in U : Band(u, U, p) = 0}

\* The hours chosen are the same, whether the cap applies or not.
LEMMA ChosenInBands ==
  ASSUME IInv, NEW p \in Pools, NEW C, Rankable(C), IsFiniteSet(C)
  PROVE  ChosenOf(Units(C), InBand(Units(C), p), HourRank(Units(C)), view[p].supply) =
           ChosenHours(Units(C), p)
<1> DEFINE U == Units(C)
<1>1. /\ C \subseteq Chunk /\ StrictOrderBy(U, HourRank(U))
      /\ IsFiniteSet(U) /\ Cardinality(U) \in Nat /\ view[p].supply \in Nat
  BY RankableStrict, UnitsFinite, ShareNat, FS_CardinalityType DEF Rankable
<1>2. CASE Cardinality(U) > view[p].supply
  <2>1. \A u \in U : u \in InBand(U, p) <=> u \in FirstHours(U, p)
    BY <1>1, <1>2, BandsAre DEF InBand
  <2>2. InBand(U, p) = FirstHours(U, p)
    BY <2>1 DEF InBand, FirstHours, FirstBand
  <2> QED
    BY <2>2 DEF ChosenHours
<1>3. CASE ~(Cardinality(U) > view[p].supply)
  <2>1. ASSUME NEW first, NEW t \in U
        PROVE  Cardinality(InFront(U, first, HourRank(U), t)) < view[p].supply
    <3> DEFINE F == InFront(U, first, HourRank(U), t)
    <3>1. F \subseteq U /\ t \notin F
      BY <1>1 DEF InFront, StrictOrderBy
    <3> HIDE DEF F, U
    <3>2. /\ IsFiniteSet(F) /\ Cardinality(F) <= Cardinality(U)
          /\ Cardinality(F) # Cardinality(U) /\ Cardinality(F) \in Nat
      BY <1>1, <2>1, <3>1, FS_Subset, FS_CardinalityType
    <3>3. Cardinality(F) < view[p].supply
      BY <1>1, <1>3, <3>2
    <3> QED
      BY <3>3 DEF F
  <2>2. \A first : ChosenOf(U, first, HourRank(U), view[p].supply) = U
    BY <2>1 DEF ChosenOf
  <2> QED
    BY <2>2 DEF ChosenHours
<1> QED
  BY <1>2, <1>3

\* The hours of a chunk in band 0 are what the loop takes in the cap.
LEMMA InCapCount ==
  ASSUME IInv, NEW p \in Pools, NEW C, Rankable(C), IsFiniteSet(C)
  PROVE  CountOfEach(C, Units(C), ChunkOf(Units(C)), InBand(Units(C), p),
           InCap(ChunkRank(C), [c \in C |-> OrgOf(c)],
                 IF Hours(C) > view[p].supply THEN CapHours(view[p]) ELSE Hours(C)))
<1> DEFINE U == Units(C)
           org == [c \in C |-> OrgOf(c)]
           room == IF Hours(C) > view[p].supply THEN CapHours(view[p]) ELSE Hours(C)
           sooner(x) == {v \in U : OrgOf(v[1]) = OrgOf(x[1]) /\ HourBefore(v, x)}
           hours == [c \in C |-> c.hours]
<1>1. /\ C \subseteq Chunk /\ StrictOrderBy(U, HourRank(U))
      /\ IsFiniteSet(U) /\ Hours(C) = Cardinality(U) /\ Hours(C) \in Nat
      /\ view[p].supply \in Nat /\ CapHours(view[p]) \in Nat
  BY RankableStrict, UnitsFinite, ShareNat DEF Rankable, Hours, Share
<1>2. room \in Nat
  BY <1>1
<1>3. \A u \in U : u[1] \in C
  BY <1>1, UnitForm
<1>4. \A x \in U : {y \in HourRank(U)[x] : org[ChunkOf(U)[y]] = org[ChunkOf(U)[x]]} = sooner(x)
  <2> SUFFICES ASSUME NEW x \in U
               PROVE  {y \in HourRank(U)[x] : org[ChunkOf(U)[y]] = org[ChunkOf(U)[x]]} = sooner(x)
    OBVIOUS
  <2>1. HourRank(U)[x] = {v \in U : HourBefore(v, x)}
    BY DEF HourRank
  <2>2. \A v \in U : org[ChunkOf(U)[v]] = OrgOf(v[1])
    BY <1>3 DEF ChunkOf
  <2> HIDE DEF U, org
  <2> QED
    BY <2>1, <2>2
<1>5. ASSUME NEW x \in U
      PROVE  Cardinality(sooner(x)) < room <=> x \in InBand(U, p)
  <2>1. ~HourBefore(x, x)
    BY <1>1 DEF StrictOrderBy, HourRank
  <2>2. sooner(x) \subseteq U /\ x \notin sooner(x)
    BY <2>1
  <2>3. x \in InBand(U, p) <=>
          ~(Cardinality(U) > view[p].supply /\ Cardinality(sooner(x)) >= CapHours(view[p]))
    BY DEF InBand, Band
  <2> HIDE DEF U, sooner
  <2>4. /\ Cardinality(sooner(x)) <= Cardinality(U) /\ Cardinality(sooner(x)) # Cardinality(U)
        /\ Cardinality(sooner(x)) \in Nat
    BY <1>1, <1>5, <2>2, FS_Subset, FS_CardinalityType
  <2> QED
    BY <1>1, <2>3, <2>4
<1>6. SUFFICES ASSUME NEW c \in C
               PROVE  InCap(ChunkRank(C), org, room)[c] =
                        Cardinality({x \in U : ChunkOf(U)[x] = c /\ x \in InBand(U, p)})
  BY DEF CountOfEach
<1>7. /\ RankedAlike(C, ChunkRank(C), U, HourRank(U), ChunkOf(U))
      /\ CountOfEach(C, U, ChunkOf(U), U, hours)
  BY UnitsAreHours
<1>8. InCap(ChunkRank(C), org, room)[c] =
        Cardinality({x \in U :
          /\ ChunkOf(U)[x] = c
          /\ Cardinality({y \in HourRank(U)[x] : org[ChunkOf(U)[y]] = org[c]}) < room})
  <2>1. hours = [d \in C |-> d.hours]
    OBVIOUS
  <2> HIDE DEF U, org, room, hours
  <2> QED
    BY <1>2, <1>6, <1>7, <2>1, InCapIs
<1> HIDE DEF U, org, room, sooner
<1>9. {x \in U : /\ ChunkOf(U)[x] = c
                 /\ Cardinality({y \in HourRank(U)[x] : org[ChunkOf(U)[y]] = org[c]}) < room} =
      {x \in U : ChunkOf(U)[x] = c /\ x \in InBand(U, p)}
  BY <1>4, <1>5
<1> QED
  BY <1>8, <1>9

\* A chunk is granted as many hours as it has among the chosen ones.
LEMMA GrantedIs ==
  ASSUME IInv, NEW p \in Pools, NEW C, Rankable(C), IsFiniteSet(C), NEW c \in C
  PROVE  Granted(Accepted(C, p), c) =
           Cardinality({x \in ChosenHours(Units(C), p) : ChunkOf(Units(C))[x] = c})
<1> DEFINE U == Units(C)
           A == {s \in Accepted(C, p) : s.chunk = c}
           H == {x \in ChosenHours(U, p) : ChunkOf(U)[x] = c}
           hour == [s \in A |-> HourOf(s)]
<1>1. C \subseteq Chunk /\ IsFiniteSet(U)
  BY UnitsFinite DEF Rankable
<1>2. /\ \A s \in Slices(C, p) : HourOf(s) \in U
      /\ \A s, t \in Slices(C, p) : HourOf(s) = HourOf(t) => s = t
      /\ \A u \in U : \E s \in Slices(C, p) : HourOf(s) = u
  BY <1>1, SlicesAreHours
<1>3. \A s \in Slices(C, p) : s \in Accepted(C, p) <=> HourOf(s) \in ChosenHours(U, p)
  BY AcceptedAre
<1>4. A \subseteq Slices(C, p) /\ H \subseteq U
  BY DEF Accepted, ChosenHours, ChosenOf
<1>5. \A s \in Slices(C, p) : ChunkOf(U)[HourOf(s)] = s.chunk
  BY <1>2 DEF ChunkOf, HourOf
<1>6. hour \in [A -> H]
  BY <1>3, <1>4, <1>5
<1>7. \A z \in H : \E s \in A : hour[s] = z
  BY <1>2, <1>3, <1>4, <1>5
<1>8. IsFiniteSet(H)
  BY <1>1, <1>4, FS_Subset
<1>9. hour \in Bijection(A, H)
  BY <1>2, <1>4, <1>6, <1>7, Fun_IsBij
<1> HIDE DEF A, H, hour
<1>10. Cardinality(A) = Cardinality(H)
  BY <1>8, <1>9, Fun_ExistsBijSymmetric, FS_Bijection DEF ExistsBijection
<1> QED
  BY <1>10 DEF Granted, A, H

\* The flag of the org cap is raised when some hour is in the second band.
LEMMA CappedIs ==
  ASSUME IInv, NEW p \in Pools, NEW C, Rankable(C)
  PROVE  Capped(C, p) <=> \E u \in Units(C) \ InBand(Units(C), p) : TRUE
<1>1. C \subseteq Chunk
  BY DEF Rankable
<1>2. \A u \in Units(C) : u \notin InBand(Units(C), p) <=> Band(u, Units(C), p) = 1
  BY DEF InBand, Band
<1> QED
  BY <1>1, <1>2, SlicesAreHours DEF Capped

\* Over any invariant state, the loops of the code and the set of single hours
\* agree at every pool.
LEMMA LoopsAgreeAt ==
  ASSUME IInv, NEW p \in Pools, NEW C, Rankable(C), IsFiniteSet(C)
  PROVE  /\ \A c \in C : Greedy(C, p).accepted[c] = Granted(Accepted(C, p), c)
         /\ Greedy(C, p).capped = Capped(C, p)
<1> DEFINE U == Units(C)
           supply == view[p].supply
           room == IF Hours(C) > supply THEN CapHours(view[p]) ELSE Hours(C)
           in == InCap(ChunkRank(C), [c \in C |-> OrgOf(c)], room)
           over == [c \in C |-> c.hours - in[c]]
           ranked == InOrder(ChunkRank(C))
           takes == Takes(supply, InTurn(ranked, in) \o InTurn(ranked, over))
           G == [accepted |-> [c \in C |-> takes[PlaceOf(c, ranked)] +
                                           takes[Len(ranked) + PlaceOf(c, ranked)]],
                 capped |-> \E c \in C : over[c] > 0]
           hours == [c \in C |-> c.hours]
<1>1. Greedy(C, p) = G
  BY DEF Greedy, ChunkRank
<1>2. CountOfEach(C, U, ChunkOf(U), InBand(U, p), in)
  BY InCapCount
<1>3. /\ RankedAlike(C, ChunkRank(C), U, HourRank(U), ChunkOf(U))
      /\ CountOfEach(C, U, ChunkOf(U), U, hours)
      /\ IsFiniteSet(U) /\ supply \in Nat
  BY UnitsAreHours, UnitsFinite, ShareNat
<1>4. /\ CountOfEach(C, U, ChunkOf(U), U \ InBand(U, p), over)
      /\ \A c \in C : over[c] > 0 <=> \E x \in U \ InBand(U, p) : ChunkOf(U)[x] = c
  <2>1. LeftOver(C, hours, in, over)
    BY DEF LeftOver
  <2> HIDE DEF in, over, U, hours
  <2>2. /\ CountOfEach(C, U, ChunkOf(U), U \ InBand(U, p), over)
        /\ SomeOfEach(C, U \ InBand(U, p), ChunkOf(U), over)
    BY <1>2, <1>3, <2>1, RestOfEach
  <2> QED
    BY <2>2 DEF SomeOfEach
<1>5. ASSUME NEW c \in C
      PROVE  G.accepted[c] = Granted(Accepted(C, p), c)
  <2>1. takes[PlaceOf(c, ranked)] + takes[Len(ranked) + PlaceOf(c, ranked)] =
          Cardinality({x \in ChosenOf(U, InBand(U, p), HourRank(U), supply) : ChunkOf(U)[x] = c})
    <3>1. takes[PlaceOf(c, ranked)] + takes[Len(ranked) + PlaceOf(c, ranked)] =
            FromBoth(ChunkRank(C), in, over, supply, c)
      BY DEF FromBoth
    <3> HIDE DEF U, supply, room, in, over, G, hours, takes, ranked
    <3>2. FromBoth(ChunkRank(C), in, over, supply, c) =
            Cardinality({x \in ChosenOf(U, InBand(U, p), HourRank(U), supply) : ChunkOf(U)[x] = c})
      BY <1>2, <1>3, <1>4, <1>5, BandedTakes
    <3> QED
      BY <3>1, <3>2
  <2>2. ChosenOf(U, InBand(U, p), HourRank(U), supply) = ChosenHours(U, p)
    BY ChosenInBands
  <2>3. G.accepted[c] = takes[PlaceOf(c, ranked)] + takes[Len(ranked) + PlaceOf(c, ranked)]
    BY <1>5
  <2>4. Granted(Accepted(C, p), c) = Cardinality({x \in ChosenHours(U, p) : ChunkOf(U)[x] = c})
    BY <1>5, GrantedIs
  <2> QED
    BY <2>1, <2>2, <2>3, <2>4
<1>6. G.capped = Capped(C, p)
  <2>1. \A x \in U : ChunkOf(U)[x] \in C
    BY <1>3 DEF RankedAlike
  <2>2. Capped(C, p) \in BOOLEAN
    BY DEF Capped
  <2>3. Capped(C, p) <=> \E x \in U \ InBand(U, p) : TRUE
    BY CappedIs
  <2> HIDE DEF over, U
  <2> QED
    BY <1>4, <2>1, <2>2, <2>3
<1> QED
  BY <1>1, <1>5, <1>6

\* The set of single hours a pool accepts, on which every other theorem rests,
\* is what the loops of _allocate_realtime take, an organisation, a chunk and a
\* slice at a time; and the flag of the org cap is raised alike.
THEOREM LoopsAgree == Spec => []GreedyAgrees
<1>1. IInv => GreedyAgrees
  <2> SUFFICES ASSUME IInv, NEW p \in Pools
               PROVE  LET C == At(book, placed \cup seeking, p)
                      IN /\ \A c \in C : Greedy(C, p).accepted[c] = Granted(Accepted(C, p), c)
                         /\ Greedy(C, p).capped = Capped(C, p)
    BY DEF GreedyAgrees
  <2> DEFINE C == At(book, placed \cup seeking, p)
  <2>1. C \subseteq Standing
    BY DEF At, Standing
  <2>2. Rankable(C) /\ IsFiniteSet(C)
    BY <2>1, StandingRankable, StandingFinite, FS_Subset
  <2> HIDE DEF C
  <2>3. /\ \A c \in C : Greedy(C, p).accepted[c] = Granted(Accepted(C, p), c)
        /\ Greedy(C, p).capped = Capped(C, p)
    BY <2>2, LoopsAgreeAt
  <2> QED
    BY <2>3 DEF C
<1> QED
  BY <1>1, Invariant, PTL
=============================================================================
