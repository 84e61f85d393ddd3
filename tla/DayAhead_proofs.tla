--------------------------- MODULE DayAhead_proofs ---------------------------
(***************************************************************************)
(* Theorems of DayAheadClearing and, at the end, of DayAheadMarket, for    *)
(* any books, pools, offers, caps and iteration limits.                    *)
(***************************************************************************)
EXTENDS DayAheadMarket, DayAheadAllocation, CommonFacts

Standing == placed \cup seeking

(***************************************************************************)
(* The inductive invariant: chunks are told apart by their ids, and each   *)
(* stands on a rung its order can afford.  Ids are what makes the rank of  *)
(* the slices a strict order, and a block finite.                          *)
(***************************************************************************)
IdsDistinct == \A c, d \in Standing : c.id = d.id => c = d

IdsGivenOut == \A c \in Standing : c.id <= lastId

OnOpenRungs ==
  \A c \in Standing : c.rung \in OpenRungs(book[c.order], view, TRUE)

Apart == placed \cap seeking = {}

IInv == TypeOK /\ IdsDistinct /\ IdsGivenOut /\ OnOpenRungs /\ Apart

-----------------------------------------------------------------------------
(* Arithmetic and types of the helpers.                                    *)

LEMMA ChunkContext ==
  ASSUME TypeOK, NEW c \in Standing
  PROVE  /\ c \in Chunk
         /\ book[c.order] \in Order
         /\ book[c.order].rungs[c.rung] \in Rung
         /\ PoolOf(book, c) \in Pools
         /\ view[PoolOf(book, c)] \in PoolView
         /\ OrgOf(c) \in Orgs
<1>1. book \in [Orders -> Order] /\ view \in [Pools -> PoolView]
  BY DEF TypeOK
<1>2. c \in Chunk /\ c.rung \in DOMAIN book[c.order].rungs
  BY DEF TypeOK, Standing
<1>3. book[c.order] \in Order
  BY <1>1, <1>2 DEF Chunk
<1>4. book[c.order].rungs \in Seq(Rung) /\ book[c.order].org \in Orgs
  BY <1>3 DEF Order
<1>5. book[c.order].rungs[c.rung] \in Rung
  BY <1>2, <1>4
<1> QED
  BY <1>1, <1>2, <1>3, <1>4, <1>5 DEF Rung, PoolOf, OrgOf

LEMMA BidNat ==
  ASSUME TypeOK, NEW c \in Standing
  PROVE  Bid(c) \in Nat
BY ChunkContext DEF Bid, Rung

LEMMA StandingFinite ==
  ASSUME IInv
  PROVE  IsFiniteSet(Standing)
<1>1. Standing \subseteq Chunk /\ lastId \in Nat
  BY DEF IInv, TypeOK, Standing
<1> DEFINE f == [c \in Standing |-> c.id]
<1>2. f \in Injection(Standing, 0..lastId)
  BY <1>1 DEF IInv, IdsDistinct, IdsGivenOut, Chunk, Injection, IsInjective
<1>3. IsFiniteSet(0..lastId)
  BY <1>1, FS_Interval
<1> QED
  BY <1>2, <1>3, FS_Injection

LEMMA AlwaysFinite == IInv => IsFiniteSet(Standing)
BY StandingFinite

LEMMA UnitsFinite ==
  ASSUME NEW C, IsFiniteSet(C)
  PROVE  /\ IsFiniteSet(Units(C))
         /\ Hours(C) \in Nat
<1>1. IsFiniteSet(1..MaxHours)
  BY FS_Interval, LadderAssumption
<1>2. IsFiniteSet(C \X (1..MaxHours))
  BY <1>1, FS_Product
<1> QED
  BY <1>2, FS_Subset, FS_CardinalityType DEF Units, Hours

-----------------------------------------------------------------------------
(* The rank of chunks, of hour slices, and of slices in two bands is a     *)
(* strict total order.                                                     *)

LEMMA OutranksStrict ==
  ASSUME IInv, NEW c \in Standing, NEW d \in Standing
  PROVE  /\ ~Outranks(c, c)
         /\ c = d \/ Outranks(c, d) \/ Outranks(d, c)
         /\ ~(Outranks(c, d) /\ Outranks(d, c))
         /\ \A e \in Standing : Outranks(c, d) /\ Outranks(d, e) => Outranks(c, e)
<1>1. \A e \in Standing : /\ Bid(e) \in Nat
                          /\ book[e.order].tier \in Int
                          /\ book[e.order].lottery \in Nat
                          /\ e.order \in Nat /\ e.id \in Nat
  BY BidNat, ChunkContext, LadderAssumption DEF IInv, Order, Chunk
<1>2. c.id = d.id => c = d
  BY DEF IInv, IdsDistinct
<1>3. ~Outranks(c, c) /\ ~(Outranks(c, d) /\ Outranks(d, c))
  BY <1>1 DEF Outranks
<1>4. c = d \/ Outranks(c, d) \/ Outranks(d, c)
  BY <1>1, <1>2 DEF Outranks
<1>5. \A e \in Standing : Outranks(c, d) /\ Outranks(d, e) => Outranks(c, e)
  BY <1>1 DEF Outranks
<1> QED
  BY <1>3, <1>4, <1>5

\* The two-band order on the slices of a pool.
LEMMA AheadStrict ==
  ASSUME IInv, NEW C, C \subseteq Standing, NEW p \in Pools,
         NEW s \in Slices(C, p), NEW t \in Slices(C, p)
  PROVE  /\ ~Ahead(s, s)
         /\ s = t \/ Ahead(s, t) \/ Ahead(t, s)
         /\ \A r \in Slices(C, p) : Ahead(s, t) /\ Ahead(t, r) => Ahead(s, r)
<1> DEFINE Unit(r) == <<r.chunk, r.hour>>
<1>1. \A r \in Slices(C, p) : /\ r.chunk \in Standing
                              /\ r.hour \in Nat
                              /\ r.band \in {0, 1}
                              /\ Unit(r)[1] = r.chunk /\ Unit(r)[2] = r.hour
  <2>1. \A u \in Units(C) : u[1] \in Standing /\ u[2] \in Nat
    BY LadderAssumption DEF Units
  <2>2. \A u \in Units(C) : Band(u, Units(C), p) \in {0, 1}
    BY DEF Band
  <2> QED
    BY <2>1, <2>2 DEF Slices
<1>2. \A q, r \in Slices(C, p) : q.chunk = r.chunk /\ q.hour = r.hour => q = r
  <2>1. \A u, v \in Units(C) : u[1] = v[1] /\ u[2] = v[2] => u = v
    BY DEF Units
  <2> QED
    BY <2>1 DEF Slices
<1> HIDE DEF Unit
<1>3. ~HourBefore(Unit(s), Unit(s))
  BY <1>1, OutranksStrict DEF HourBefore
<1>4. Unit(s) = Unit(t) => s = t
  BY <1>1, <1>2
<1>5. s = t \/ HourBefore(Unit(s), Unit(t)) \/ HourBefore(Unit(t), Unit(s))
  <2>1. CASE s.chunk = t.chunk
    BY <1>1, <1>2, <2>1 DEF HourBefore
  <2>2. CASE s.chunk # t.chunk
    BY <1>1, <2>2, OutranksStrict DEF HourBefore
  <2> QED
    BY <2>1, <2>2
<1>6. ASSUME NEW r \in Slices(C, p),
             HourBefore(Unit(s), Unit(t)), HourBefore(Unit(t), Unit(r))
      PROVE  HourBefore(Unit(s), Unit(r))
  BY <1>1, <1>6, OutranksStrict DEF HourBefore
<1>7. \A q, r \in Slices(C, p) :
        Ahead(q, r) <=> \/ q.band < r.band
                        \/ q.band = r.band /\ HourBefore(Unit(q), Unit(r))
  BY DEF Ahead, Unit
<1> QED
  BY <1>1, <1>3, <1>5, <1>6, <1>7

-----------------------------------------------------------------------------
(* What a pool chooses among the chunks C.                                 *)

Chosen(C, p) == Accepted(Slices(C, p), p)

InCapSlices(C, p) == {s \in Slices(C, p) : s.band = 0}

\* A chunk is cut into slices of an hour, no more and no less.
LEMMA SlicesCount ==
  ASSUME IInv, NEW C, C \subseteq Standing, NEW p \in Pools
  PROVE  /\ IsFiniteSet(Slices(C, p))
         /\ Cardinality(Slices(C, p)) = Hours(C)
         /\ \A s \in Slices(C, p) : s.chunk \in C /\ s.band \in {0, 1}
<1> DEFINE slices == Slices(C, p)
           cut == [u \in Units(C) |->
                     [chunk |-> u[1], hour |-> u[2], band |-> Band(u, Units(C), p)]]
<1>1. IsFiniteSet(C)
  BY StandingFinite, FS_Subset
<1>2. IsFiniteSet(Units(C)) /\ Hours(C) = Cardinality(Units(C))
  BY <1>1, UnitsFinite DEF Hours
<1>3. slices = {cut[u] : u \in Units(C)}
  BY DEF Slices
<1>4. cut \in Bijection(Units(C), slices)
  <2>1. cut \in [Units(C) -> slices]
    BY <1>3
  <2>2. \A s \in slices : \E u \in Units(C) : cut[u] = s
    BY <1>3
  <2>3. \A u, v \in Units(C) : cut[u] = cut[v] => u = v
    <3>1. \A u, v \in Units(C) : cut[u] = cut[v] => u[1] = v[1] /\ u[2] = v[2]
      OBVIOUS
    <3> QED
      BY <3>1 DEF Units
  <2> HIDE DEF cut, slices
  <2> QED
    BY <2>1, <2>2, <2>3 DEF Bijection, Injection, Surjection, IsInjective
<1>5. IsFiniteSet(slices) /\ Cardinality(slices) = Hours(C)
  BY <1>2, <1>4, FS_Bijection DEF ExistsBijection
<1>6. \A s \in slices : s.chunk \in C /\ s.band \in {0, 1}
  <2> SUFFICES ASSUME NEW s \in slices PROVE s.chunk \in C /\ s.band \in {0, 1}
    OBVIOUS
  <2>1. PICK u \in Units(C) : s = [chunk |-> u[1], hour |-> u[2], band |-> Band(u, Units(C), p)]
    BY DEF Slices
  <2> QED
    BY <2>1 DEF Units, Band
<1> QED
  BY <1>5, <1>6

\* As many slices are served as there is room for.
LEMMA ServedSome ==
  ASSUME IInv, NEW C, C \subseteq Standing, NEW p \in Pools, NEW S, S \subseteq Slices(C, p)
  PROVE  /\ IsFiniteSet(S) /\ Cardinality(S) \in Nat
         /\ Served(S, p) \subseteq S
         /\ view[p].supply \in Nat
         /\ Cardinality(Served(S, p)) =
              IF Cardinality(S) <= view[p].supply THEN Cardinality(S) ELSE view[p].supply
<1> DEFINE before == [s \in S |-> {t \in S : Ahead(t, s)}]
<1>1. IsFiniteSet(S) /\ Cardinality(S) \in Nat
  BY SlicesCount, FS_Subset, FS_CardinalityType
<1>2. StrictOrderBy(S, before)
  <2>1. before \in [S -> SUBSET S]
    OBVIOUS
  <2>2. \A s \in S : s \notin before[s]
    BY AheadStrict
  <2>3. \A s, t \in S : s = t \/ s \in before[t] \/ t \in before[s]
    BY AheadStrict
  <2>4. \A s, t \in S : s \in before[t] => before[s] \subseteq before[t]
    BY AheadStrict
  <2> QED
    BY <2>1, <2>2, <2>3, <2>4 DEF StrictOrderBy
<1>3. view[p].supply \in Nat
  BY DEF IInv, TypeOK, PoolView
<1>4. Served(S, p) = {s \in S : Cardinality(before[s]) < view[p].supply}
  BY DEF Served
<1> HIDE DEF before
<1>5. Cardinality({s \in S : Cardinality(before[s]) < view[p].supply}) =
        IF Cardinality(S) <= view[p].supply THEN Cardinality(S) ELSE view[p].supply
  BY <1>1, <1>2, <1>3, ServedCount
<1> QED
  BY <1>1, <1>3, <1>4, <1>5

\* The uniform price is the reserve or a bid that was turned away in the cap,
\* and no such bid is higher.
LEMMA PriceIs ==
  ASSUME IInv, NEW C, C \subseteq Standing, NEW p \in Pools
  PROVE  LET U == UniformPrice(Slices(C, p), p)
             out == InCapSlices(C, p) \ Served(InCapSlices(C, p), p)
         IN /\ U \in Nat /\ U >= view[p].reserve
            /\ \A s \in out : Bid(s.chunk) <= U
            /\ U = view[p].reserve \/ \E s \in out : U = Bid(s.chunk)
<1> DEFINE out == InCapSlices(C, p) \ Served(InCapSlices(C, p), p)
           bids == {view[p].reserve} \cup {Bid(s.chunk) : s \in out}
           bid == [s \in out |-> Bid(s.chunk)]
           U == UniformPrice(Slices(C, p), p)
<1>1. IsFiniteSet(out) /\ out \subseteq Slices(C, p)
  <2>1. out \subseteq Slices(C, p)
    BY DEF InCapSlices
  <2> QED
    BY <2>1, SlicesCount, FS_Subset
<1>2. \A s \in out : Bid(s.chunk) \in Nat
  <2>1. \A s \in out : s.chunk \in Standing
    BY <1>1, SlicesCount
  <2> QED
    BY <2>1, BidNat DEF IInv
<1>3. view[p].reserve \in Nat
  BY DEF IInv, TypeOK, PoolView
<1>4. bids \subseteq Nat /\ bids # {}
  BY <1>2, <1>3
<1>5. IsFiniteSet(bids)
  <2> DEFINE image == {Bid(s.chunk) : s \in out}
  <2>1. bid \in Surjection(out, image)
    BY Fun_IsSurj
  <2>2. IsFiniteSet(image)
    BY <1>1, <2>1, FS_Surjection
  <2>3. IsFiniteSet({view[p].reserve})
    BY FS_Singleton
  <2> QED
    BY <2>2, <2>3, FS_Union
<1>6. U = CHOOSE b \in bids : \A x \in bids : b >= x
  BY DEF UniformPrice, InCapSlices
<1>7. \E b \in bids : \A x \in bids : b >= x
  <2> HIDE DEF bids
  <2> QED
    BY <1>4, <1>5, GreatestOf
<1>8. U \in bids /\ \A x \in bids : U >= x
  <2> HIDE DEF bids, U
  <2> QED
    BY <1>6, <1>7
<1> HIDE DEF U
<1>9. U \in Nat /\ U >= view[p].reserve /\ (U = view[p].reserve \/ \E s \in out : U = Bid(s.chunk))
  BY <1>4, <1>8
<1>10. \A s \in out : Bid(s.chunk) <= U
  BY <1>2, <1>8, <1>9
<1> QED
  BY <1>9, <1>10 DEF U

\* Where the hours in the cap all find room, the price is the reserve.
LEMMA RoomInCap ==
  ASSUME IInv, NEW C, C \subseteq Standing, NEW p \in Pools,
         Cardinality(InCapSlices(C, p)) <= view[p].supply
  PROVE  UniformPrice(Slices(C, p), p) = view[p].reserve
<1>1. InCapSlices(C, p) \subseteq Slices(C, p)
  BY DEF InCapSlices
<1>2. /\ IsFiniteSet(InCapSlices(C, p)) /\ Served(InCapSlices(C, p), p) \subseteq InCapSlices(C, p)
      /\ Cardinality(Served(InCapSlices(C, p), p)) = Cardinality(InCapSlices(C, p))
  BY <1>1, ServedSome
<1>3. Served(InCapSlices(C, p), p) = InCapSlices(C, p)
  BY <1>2, FS_Subset
<1> QED
  BY <1>3, PriceIs

\* Hours over the cap wait for the price that the others make, and still no hour
\* is left over that somebody bid for: a price above the reserve is made of a pool
\* that is full without them.
LEMMA ChosenCount ==
  ASSUME IInv, NEW C, C \subseteq Standing, NEW p \in Pools,
         \A c \in C : PoolOf(book, c) = p
  PROVE  /\ IsFiniteSet(Slices(C, p))
         /\ Chosen(C, p) \subseteq Slices(C, p)
         /\ Cardinality(Chosen(C, p)) =
              IF Hours(C) <= view[p].supply THEN Hours(C) ELSE view[p].supply
         /\ UniformPrice(Slices(C, p), p) > view[p].reserve =>
              Cardinality(Chosen(C, p)) = view[p].supply
<1> DEFINE U == UniformPrice(Slices(C, p), p)
           some == {s \in Slices(C, p) : s.band = 0 \/ Bid(s.chunk) >= U}
           n == Cardinality(Slices(C, p))
           m == Cardinality(some)
           k == Cardinality(InCapSlices(C, p))
<1>1. IsFiniteSet(Slices(C, p)) /\ n = Hours(C) /\ n \in Nat
  BY SlicesCount, FS_CardinalityType
<1>2. Chosen(C, p) = Served(some, p)
  BY DEF Chosen, Accepted
<1>3. /\ m \in Nat /\ Served(some, p) \subseteq some /\ view[p].supply \in Nat
      /\ Cardinality(Served(some, p)) = IF m <= view[p].supply THEN m ELSE view[p].supply
  BY ServedSome
<1>4. /\ k \in Nat /\ k <= m /\ m <= n
  <2>1. InCapSlices(C, p) \subseteq some /\ some \subseteq Slices(C, p)
    BY DEF InCapSlices
  <2>2. IsFiniteSet(some)
    BY ServedSome
  <2> HIDE DEF some
  <2> QED
    BY <1>1, <2>1, <2>2, FS_Subset, FS_CardinalityType
<1>5. k <= view[p].supply => U = view[p].reserve
  BY RoomInCap
<1>6. k <= view[p].supply => m = n
  <2> SUFFICES ASSUME k <= view[p].supply PROVE some = Slices(C, p)
    OBVIOUS
  <2>1. \A s \in Slices(C, p) : Bid(s.chunk) >= view[p].reserve
    <3> SUFFICES ASSUME NEW s \in Slices(C, p) PROVE Bid(s.chunk) >= view[p].reserve
      OBVIOUS
    <3>1. s.chunk \in C /\ s.chunk \in Standing
      BY SlicesCount
    <3>2. s.chunk.rung \in OpenRungs(book[s.chunk.order], view, TRUE)
      BY <3>1 DEF IInv, OnOpenRungs
    <3>3. PoolOf(book, s.chunk) = p
      BY <3>1
    <3> QED
      BY <3>2, <3>3 DEF OpenRungs, Affordable, Bid, PoolOf
  <2> QED
    BY <1>5, <2>1
<1>7. U \in Nat /\ view[p].reserve \in Nat
  BY PriceIs DEF IInv, TypeOK, PoolView
<1> HIDE DEF U, some, n, m, k
<1>8. Cardinality(Served(some, p)) = IF n <= view[p].supply THEN n ELSE view[p].supply
  BY <1>1, <1>3, <1>4, <1>6
<1>9. U > view[p].reserve => Cardinality(Served(some, p)) = view[p].supply
  BY <1>3, <1>4, <1>5, <1>7
<1>10. Chosen(C, p) \subseteq Slices(C, p)
  BY <1>2, <1>3 DEF some
<1> QED
  BY <1>1, <1>2, <1>8, <1>9, <1>10 DEF U

\* Nobody is served at a price above his bid.
LEMMA WinnersBid ==
  ASSUME IInv, NEW C, C \subseteq Standing, NEW p \in Pools,
         \A c \in C : PoolOf(book, c) = p, NEW s \in Chosen(C, p)
  PROVE  UniformPrice(Slices(C, p), p) <= Bid(s.chunk)
<1> DEFINE U == UniformPrice(Slices(C, p), p)
           some == {x \in Slices(C, p) : x.band = 0 \/ Bid(x.chunk) >= U}
           out == InCapSlices(C, p) \ Served(InCapSlices(C, p), p)
<1>1. /\ s \in some /\ s \in Slices(C, p)
      /\ Cardinality({t \in some : Ahead(t, s)}) < view[p].supply
  BY DEF Chosen, Accepted, Served
<1>2. s.chunk \in C /\ s.chunk \in Standing /\ s.band \in {0, 1}
  BY <1>1, SlicesCount
<1>3. Bid(s.chunk) \in Nat /\ U \in Nat /\ view[p].reserve \in Nat
  BY <1>2, BidNat, PriceIs DEF IInv, TypeOK, PoolView
<1>4. CASE s.band = 1
  BY <1>1, <1>3, <1>4
<1>5. CASE s.band = 0 /\ U = view[p].reserve
  <2>1. s.chunk.rung \in OpenRungs(book[s.chunk.order], view, TRUE) /\ PoolOf(book, s.chunk) = p
    BY <1>2 DEF IInv, OnOpenRungs
  <2>2. Bid(s.chunk) >= view[p].reserve
    BY <2>1 DEF OpenRungs, Affordable, Bid, PoolOf
  <2> QED
    BY <1>3, <1>5, <2>2
<1>6. CASE s.band = 0 /\ U # view[p].reserve
  <2>1. PICK t \in out : U = Bid(t.chunk)
    BY <1>6, PriceIs
  <2>2. /\ t \in Slices(C, p) /\ t.band = 0 /\ t \in InCapSlices(C, p)
        /\ ~(Cardinality({x \in InCapSlices(C, p) : Ahead(x, t)}) < view[p].supply)
    BY DEF InCapSlices, Served
  <2> SUFFICES ASSUME Bid(s.chunk) < Bid(t.chunk) PROVE FALSE
    BY <1>3, <2>1
  <2>3. Ahead(t, s)
    BY <1>6, <2>2 DEF Ahead, HourBefore, Outranks
  <2>4. {x \in InCapSlices(C, p) : Ahead(x, t)} \subseteq {x \in some : Ahead(x, s)}
    <3> SUFFICES ASSUME NEW x \in InCapSlices(C, p), Ahead(x, t) PROVE x \in some /\ Ahead(x, s)
      OBVIOUS
    <3>1. x \in Slices(C, p) /\ x.band = 0
      BY DEF InCapSlices
    <3> QED
      BY <1>1, <2>2, <2>3, <3>1, AheadStrict
  <2>5. IsFiniteSet({x \in some : Ahead(x, s)})
    BY SlicesCount, FS_Subset
  <2>6. /\ Cardinality({x \in InCapSlices(C, p) : Ahead(x, t)}) <= Cardinality({x \in some : Ahead(x, s)})
        /\ Cardinality({x \in InCapSlices(C, p) : Ahead(x, t)}) \in Nat
        /\ Cardinality({x \in some : Ahead(x, s)}) \in Nat
    BY <2>4, <2>5, FS_Subset, FS_CardinalityType
  <2>7. view[p].supply \in Nat
    BY DEF IInv, TypeOK, PoolView
  <2> QED
    BY <1>1, <2>2, <2>6, <2>7
<1> QED
  BY <1>2, <1>4, <1>5, <1>6

-----------------------------------------------------------------------------
(* One pass, described by what is asked and granted in the current state.  *)

AskedAt(p) == At(book, Standing, p)

ServedNow == UNION {Chosen(AskedAt(p), p) : p \in Pools}

OutcomeNow == {<<c, Granted(ServedNow, c)>> : c \in Standing}

Mine(c) == {s \in ServedNow : s.chunk = c}

LEMMA PassEffect ==
  ASSUME ClearPass
  PROVE  /\ placed' = Kept(OutcomeNow)
         /\ seeking' = Descend(book, view, Rest(OutcomeNow), lastId, TRUE)
         /\ lastId' = lastId + Cardinality(Rest(OutcomeNow))
BY DEF ClearPass, OutcomeNow, ServedNow, AskedAt, Chosen, Standing

\* The slices served to a chunk are slices of its own pool, at most one for
\* each of its hours.
LEMMA MineBounds ==
  ASSUME IInv, NEW c \in Standing
  PROVE  /\ Mine(c) = {s \in Chosen(AskedAt(PoolOf(book, c)), PoolOf(book, c)) : s.chunk = c}
         /\ IsFiniteSet(Mine(c))
         /\ Granted(ServedNow, c) = Cardinality(Mine(c))
         /\ Granted(ServedNow, c) \in 0..c.hours
<1> DEFINE p == PoolOf(book, c)
           mine == {s \in Chosen(AskedAt(p), p) : s.chunk = c}
           f == [s \in mine |-> s.hour]
<1>1. p \in Pools /\ c.hours \in Nat
  BY ChunkContext DEF IInv, Chunk
<1>2. \A q \in Pools : \A s \in Chosen(AskedAt(q), q) :
        PoolOf(book, s.chunk) = q
  <2> SUFFICES ASSUME NEW q \in Pools, NEW s \in Chosen(AskedAt(q), q)
               PROVE  PoolOf(book, s.chunk) = q
    OBVIOUS
  <2>1. PICK u \in Units(AskedAt(q)) :
          s = [chunk |-> u[1], hour |-> u[2], band |-> Band(u, Units(AskedAt(q)), q)]
    BY DEF Chosen, Accepted, Served, Slices
  <2>2. s.chunk \in AskedAt(q)
    BY <2>1 DEF Units
  <2> QED
    BY <2>2 DEF AskedAt, At
<1>3. Mine(c) = mine
  <2>1. ASSUME NEW s \in Mine(c) PROVE s \in mine
    <3>1. PICK q \in Pools : s \in Chosen(AskedAt(q), q)
      BY DEF Mine, ServedNow
    <3>2. s.chunk = c
      BY DEF Mine
    <3>3. q = p
      BY <1>2, <3>1, <3>2
    <3> QED
      BY <3>1, <3>2, <3>3
  <2>2. ASSUME NEW s \in mine PROVE s \in Mine(c)
    BY <1>1 DEF Mine, ServedNow
  <2> QED
    BY <2>1, <2>2
<1>4. \A s \in mine : s.chunk = c /\ s.hour \in 1..c.hours
  <2> SUFFICES ASSUME NEW s \in mine PROVE s.hour \in 1..c.hours
    OBVIOUS
  <2>1. PICK u \in Units(AskedAt(p)) :
          s = [chunk |-> u[1], hour |-> u[2], band |-> Band(u, Units(AskedAt(p)), p)]
    BY DEF Chosen, Accepted, Served, Slices
  <2>2. u[1] = c /\ u[2] \in 1..MaxHours /\ u[2] <= u[1].hours
    BY <2>1 DEF Units
  <2> QED
    BY <1>1, <2>1, <2>2, LadderAssumption
<1>5. \A s, t \in mine : s.hour = t.hour => s = t
  <2>1. \A u, v \in Units(AskedAt(p)) : u[1] = v[1] /\ u[2] = v[2] => u = v
    BY DEF Units
  <2> QED
    BY <2>1, <1>4 DEF Chosen, Accepted, Served, Slices
<1>6. f \in Injection(mine, 1..c.hours)
  BY <1>4, <1>5 DEF Injection, IsInjective
<1>7. IsFiniteSet(1..c.hours) /\ Cardinality(1..c.hours) = c.hours
  BY <1>1, FS_Interval
<1>8. IsFiniteSet(mine) /\ Cardinality(mine) <= c.hours
  BY <1>6, <1>7, FS_Injection
<1>9. Cardinality(mine) \in Nat
  BY <1>8, FS_CardinalityType
<1>10. Granted(ServedNow, c) = Cardinality(Mine(c))
  BY DEF Granted, Mine
<1> QED
  BY <1>1, <1>3, <1>8, <1>9, <1>10

\* What a pass keeps: chunks that stood before, with some of their hours.
LEMMA KeptChunks ==
  ASSUME IInv, NEW k \in Kept(OutcomeNow)
  PROVE  \E c \in Standing :
           /\ k = [c EXCEPT !.hours = Granted(ServedNow, c)]
           /\ Granted(ServedNow, c) > 0
           /\ k \in Chunk
           /\ k.id = c.id /\ k.order = c.order /\ k.rung = c.rung
           /\ k.hours = Granted(ServedNow, c)
<1>1. PICK c \in Standing : /\ k = [c EXCEPT !.hours = Granted(ServedNow, c)]
                           /\ Granted(ServedNow, c) > 0
  BY DEF Kept, OutcomeNow
<1>2. Granted(ServedNow, c) \in 1..MaxHours
  BY <1>1, MineBounds, ChunkContext, LadderAssumption DEF IInv, Chunk
<1> QED
  BY <1>1, <1>2, ChunkContext DEF IInv, Chunk

\* What a pass turns away: chunks that stood before, with the other hours.
LEMMA RestChunks ==
  ASSUME IInv
  PROVE  /\ \A k \in Rest(OutcomeNow) : k \in Chunk /\ (\E c \in Standing :
               k.id = c.id /\ k.order = c.order /\ k.rung = c.rung)
         /\ \A k, l \in Rest(OutcomeNow) : k.id = l.id => k = l
         /\ IsFiniteSet(Rest(OutcomeNow))
<1>1. ASSUME NEW k \in Rest(OutcomeNow)
      PROVE  \E c \in Standing :
               /\ k = [c EXCEPT !.hours = c.hours - Granted(ServedNow, c)]
               /\ k \in Chunk
               /\ k.id = c.id /\ k.order = c.order /\ k.rung = c.rung
  <2>1. PICK c \in Standing : /\ k = [c EXCEPT !.hours = c.hours - Granted(ServedNow, c)]
                             /\ Granted(ServedNow, c) < c.hours
    BY DEF Rest, OutcomeNow
  <2>2. c.hours - Granted(ServedNow, c) \in 1..MaxHours
    BY <2>1, MineBounds, ChunkContext, LadderAssumption DEF IInv, Chunk
  <2> QED
    BY <2>1, <2>2, ChunkContext DEF IInv, Chunk
<1>2. \A k, l \in Rest(OutcomeNow) : k.id = l.id => k = l
  BY <1>1 DEF IInv, IdsDistinct
<1>3. \A k \in Rest(OutcomeNow) : k.id \in 0..lastId
  BY <1>1 DEF IInv, IdsGivenOut, TypeOK, Chunk
<1>4. IsFiniteSet(Rest(OutcomeNow))
  <2> DEFINE f == [k \in Rest(OutcomeNow) |-> k.id]
  <2>1. f \in [Rest(OutcomeNow) -> 0..lastId]
    BY <1>3
  <2>2. \A k, l \in Rest(OutcomeNow) : f[k] = f[l] => k = l
    BY <1>2
  <2>3. f \in Injection(Rest(OutcomeNow), 0..lastId)
    BY <2>1, <2>2, Fun_IsInj
  <2>4. lastId \in Nat
    BY DEF IInv, TypeOK
  <2>5. IsFiniteSet(0..lastId)
    BY <2>4, FS_Interval
  <2> QED
    BY <2>3, <2>5, FS_Injection
<1> QED
  BY <1>1, <1>2, <1>4

\* The chunks turned away are numbered apart, in the order in which they are walked.
LEMMA WalkedApart ==
  ASSUME IInv
  PROVE  LET C == Rest(OutcomeNow)
         IN /\ IsFiniteSet(C) /\ Cardinality(C) \in Nat
            /\ \A c \in C : Cardinality(WalkedUpTo(book, C, c)) \in 1..Cardinality(C)
            /\ \A c, d \in C :
                 Cardinality(WalkedUpTo(book, C, c)) = Cardinality(WalkedUpTo(book, C, d)) => c = d
<1> DEFINE C == Rest(OutcomeNow)
           n == Cardinality(C)
           upto == [c \in C |-> WalkedUpTo(book, C, c)]
<1>1. IsFiniteSet(C) /\ n \in Nat
  BY RestChunks, FS_CardinalityType
<1>2. \A c \in C : PoolOf(book, c) \in Nat /\ c.id \in Nat
  <2> SUFFICES ASSUME NEW c \in C PROVE PoolOf(book, c) \in Nat /\ c.id \in Nat
    OBVIOUS
  <2>1. PICK b \in Standing : c.order = b.order /\ c.rung = b.rung
    BY RestChunks
  <2>2. PoolOf(book, c) = PoolOf(book, b)
    BY <2>1 DEF PoolOf
  <2> QED
    BY <2>2, RestChunks, ChunkContext, LadderAssumption DEF IInv, Chunk
<1>3. /\ \A c \in C : Cardinality(upto[c]) \in 1..n
      /\ \A c, d \in C : Cardinality(upto[c]) = Cardinality(upto[d]) => c = d
  <2>1. upto \in [C -> SUBSET C]
    BY DEF WalkedUpTo
  <2>2. \A c, d \in C : c \in upto[d] \/ d \in upto[c]
    BY <1>2 DEF WalkedUpTo
  <2>3. \A c, d \in C : c \in upto[d] /\ d \in upto[c] => c = d
    BY <1>2, RestChunks DEF WalkedUpTo
  <2>4. \A c, d \in C : c \in upto[d] => upto[c] \subseteq upto[d]
    BY <1>2 DEF WalkedUpTo
  <2> HIDE DEF C, upto
  <2> QED
    BY <1>1, <2>1, <2>2, <2>3, <2>4, NumberInjective
<1> QED
  BY <1>1, <1>3

\* Descended chunks get fresh, distinct ids and stand on rungs their orders
\* can afford.
LEMMA DescendChunks ==
  ASSUME IInv
  PROVE  LET below == Descend(book, view, Rest(OutcomeNow), lastId, TRUE)
             n == Cardinality(Rest(OutcomeNow))
         IN /\ n \in Nat
            /\ below \subseteq Chunk
            /\ \A d \in below : /\ d.id \in (lastId + 1)..(lastId + n)
                               /\ d.rung \in OpenRungs(book[d.order], view, TRUE)
            /\ \A d, e \in below : d.id = e.id => d = e
<1> DEFINE C == Rest(OutcomeNow)
           n == Cardinality(C)
           below == Descend(book, view, C, lastId, TRUE)
           upto == [c \in C |-> WalkedUpTo(book, C, c)]
           Next1(c) == Best(RungsBelow(book[c.order], c.rung, view, TRUE))
<1>1. IsFiniteSet(C) /\ n \in Nat
  BY WalkedApart
<1>3. /\ \A c \in C : Cardinality(upto[c]) \in 1..n
      /\ \A c, d \in C : Cardinality(upto[c]) = Cardinality(upto[d]) => c = d
  BY WalkedApart
<1>4. ASSUME NEW d \in below
      PROVE  \E c \in C : \E r \in Next1(c) :
               d = [id |-> lastId + Cardinality(upto[c]), order |-> c.order,
                    rung |-> r, hours |-> c.hours]
  BY DEF Descend
<1>5. \A c \in C : \A r, s \in Next1(c) : r = s
  <2> SUFFICES ASSUME NEW c \in C, NEW r \in Next1(c), NEW s \in Next1(c) PROVE r = s
    OBVIOUS
  <2>1. r \in Nat /\ s \in Nat
    <3>1. c \in Chunk /\ book[c.order] \in Order
      BY RestChunks DEF IInv, TypeOK, Chunk
    <3>2. book[c.order].rungs \in Seq(Rung)
      BY <3>1 DEF Order
    <3>3. r \in DOMAIN book[c.order].rungs /\ s \in DOMAIN book[c.order].rungs
      BY DEF Best, RungsBelow, OpenRungs
    <3> QED
      BY <3>2, <3>3
  <2>2. r <= s /\ s <= r
    BY DEF Best
  <2> QED
    BY <2>1, <2>2
<1>6. ASSUME NEW d \in below
      PROVE  /\ d \in Chunk
             /\ d.id \in (lastId + 1)..(lastId + n)
             /\ d.rung \in OpenRungs(book[d.order], view, TRUE)
  <2>1. PICK c \in C : \E r \in Next1(c) :
          d = [id |-> lastId + Cardinality(upto[c]), order |-> c.order,
               rung |-> r, hours |-> c.hours]
    BY <1>4
  <2>10. PICK r \in Next1(c) :
          d = [id |-> lastId + Cardinality(upto[c]), order |-> c.order,
               rung |-> r, hours |-> c.hours]
    BY <2>1
  <2>2. c \in Chunk /\ book[c.order] \in Order
    BY RestChunks DEF IInv, TypeOK, Chunk
  <2>3. r \in OpenRungs(book[c.order], view, TRUE)
    BY DEF Best, RungsBelow
  <2>4. r \in Nat \ {0}
    BY <2>2, <2>3 DEF OpenRungs, Order
  <2>5. lastId \in Nat /\ Cardinality(upto[c]) \in 1..n
    BY <1>3 DEF IInv, TypeOK
  <2>6. lastId + Cardinality(upto[c]) \in (lastId + 1)..(lastId + n)
    BY <2>5, <1>1
  <2>7. lastId + Cardinality(upto[c]) \in Nat
    BY <2>5, <1>1
  <2> QED
    BY <2>10, <2>2, <2>3, <2>4, <2>6, <2>7 DEF Chunk
<1>7. ASSUME NEW d \in below, NEW e \in below, d.id = e.id
      PROVE  d = e
  <2>1. PICK c \in C : \E r \in Next1(c) :
          d = [id |-> lastId + Cardinality(upto[c]), order |-> c.order,
               rung |-> r, hours |-> c.hours]
    BY <1>4
  <2>2. PICK b \in C : \E s \in Next1(b) :
          e = [id |-> lastId + Cardinality(upto[b]), order |-> b.order,
               rung |-> s, hours |-> b.hours]
    BY <1>4
  <2>3. lastId + Cardinality(upto[c]) = lastId + Cardinality(upto[b])
    BY <1>7, <2>1, <2>2
  <2>4. Cardinality(upto[c]) = Cardinality(upto[b])
    BY <2>3, <1>3, <1>1 DEF IInv, TypeOK
  <2>5. c = b
    BY <2>4, <1>3
  <2> QED
    BY <2>1, <2>2, <2>5, <1>5
<1> QED
  BY <1>1, <1>6, <1>7

-----------------------------------------------------------------------------
(* The invariant is inductive.                                             *)

\* A clearing begins, of whatever orders in whatever pools.
Begun ==
  /\ book \in [Orders -> Order] /\ view \in [Pools -> PoolView] /\ limit \in Nat \ {0}
  /\ Begins(book, view)

LEMMA BeginInv == Begun => IInv
<1> SUFFICES ASSUME Begun PROVE IInv
  OBVIOUS
<1> DEFINE upto == [o \in Orders |-> EnteredUpTo(book, o)]
           First(o) == Best(OpenRungs(book[o], view, TRUE))
<1>1. book \in [Orders -> Order] /\ view \in [Pools -> PoolView]
  BY DEF Begun
<1>2. \A o \in Orders : o \in Nat /\ book[o].lottery \in Nat
  BY <1>1, LadderAssumption DEF Order
<1>3. /\ \A o \in Orders : Cardinality(upto[o]) \in 1..Cardinality(Orders)
      /\ \A o, q \in Orders : Cardinality(upto[o]) = Cardinality(upto[q]) => o = q
  <2>1. upto \in [Orders -> SUBSET Orders]
    BY DEF EnteredUpTo
  <2>2. /\ \A o, q \in Orders : o \in upto[q] \/ q \in upto[o]
        /\ \A o, q \in Orders : o \in upto[q] /\ q \in upto[o] => o = q
        /\ \A o, q \in Orders : o \in upto[q] => upto[o] \subseteq upto[q]
    BY <1>2 DEF EnteredUpTo
  <2> HIDE DEF upto
  <2> QED
    BY <2>1, <2>2, NumberInjective, LadderAssumption
<1>4. Cardinality(Orders) \in Nat
  BY FS_CardinalityType, LadderAssumption
<1>5. \A o \in Orders : book[o].rungs \in Seq(Rung) /\ book[o].hours \in 1..MaxHours
  BY <1>1 DEF Order
<1>6. \A o \in Orders : \A r \in First(o) :
        /\ r \in OpenRungs(book[o], view, TRUE)
        /\ r \in DOMAIN book[o].rungs
        /\ r \in Nat \ {0}
  <2> SUFFICES ASSUME NEW o \in Orders, NEW r \in First(o)
               PROVE  /\ r \in OpenRungs(book[o], view, TRUE)
                      /\ r \in DOMAIN book[o].rungs
                      /\ r \in Nat \ {0}
    OBVIOUS
  <2>1. r \in OpenRungs(book[o], view, TRUE)
    BY DEF Best
  <2>2. r \in DOMAIN book[o].rungs
    BY <2>1 DEF OpenRungs
  <2>3. book[o].rungs \in Seq(Rung)
    BY <1>5
  <2>4. r \in Nat \ {0}
    BY <2>2, <2>3
  <2> QED
    BY <2>1, <2>2, <2>4
<1>7. \A o \in Orders : \A r, s \in First(o) : r = s
  <2> SUFFICES ASSUME NEW o \in Orders, NEW r \in First(o), NEW s \in First(o)
               PROVE  r = s
    OBVIOUS
  <2>1. r <= s /\ s <= r
    BY DEF Best
  <2>2. r \in Nat /\ s \in Nat
    BY <1>6
  <2> QED
    BY <2>1, <2>2
<1>8. ASSUME NEW c \in seeking
      PROVE  \E o \in Orders : \E r \in First(o) :
               c = [id |-> Cardinality(upto[o]), order |-> o, rung |-> r,
                    hours |-> book[o].hours]
  BY DEF Begun, Begins, FirstChunks
<1>9. ASSUME NEW c \in seeking
      PROVE  /\ c \in Chunk
             /\ c.id <= lastId
             /\ c.rung \in DOMAIN book[c.order].rungs
             /\ c.rung \in OpenRungs(book[c.order], view, TRUE)
  <2>1. PICK o \in Orders : \E r \in First(o) :
               c = [id |-> Cardinality(upto[o]), order |-> o, rung |-> r,
                    hours |-> book[o].hours]
    BY <1>8
  <2>2. PICK r \in First(o) :
               c = [id |-> Cardinality(upto[o]), order |-> o, rung |-> r,
                    hours |-> book[o].hours]
    BY <2>1
  <2>3. Cardinality(upto[o]) \in Nat /\ Cardinality(upto[o]) <= lastId
    BY <1>3, <1>4 DEF Begun, Begins
  <2> QED
    BY <2>2, <2>3, <1>5, <1>6 DEF Chunk
<1>10. ASSUME NEW c \in seeking, NEW d \in seeking, c.id = d.id
       PROVE  c = d
  <2>1. PICK o \in Orders : \E r \in First(o) :
               c = [id |-> Cardinality(upto[o]), order |-> o, rung |-> r,
                    hours |-> book[o].hours]
    BY <1>8
  <2>2. PICK q \in Orders : \E r \in First(q) :
               d = [id |-> Cardinality(upto[q]), order |-> q, rung |-> r,
                    hours |-> book[q].hours]
    BY <1>8
  <2>3. Cardinality(upto[o]) = Cardinality(upto[q])
    BY <1>10, <2>1, <2>2
  <2>4. o = q
    BY <2>3, <1>3
  <2> QED
    BY <2>1, <2>2, <2>4, <1>7
<1>11. Standing = seeking
  BY DEF Begun, Begins, Standing
<1>12. TypeOK
  <2>1. placed = {} /\ seeking \subseteq Chunk
    BY <1>9 DEF Begun, Begins
  <2>2. \A c \in placed \cup seeking : c.rung \in DOMAIN book[c.order].rungs
    BY <1>9, <2>1
  <2>3. passes \in 0..limit
    BY DEF Begun, Begins
  <2>4. /\ limit \in Nat \ {0} /\ phase \in {"passing", "done"}
        /\ lastId \in Nat /\ fills = {}
        /\ price \in [Pools -> Nat \cup {NoPrice}] /\ bidHours \in [Pools -> Nat]
        /\ orgCap \in [Pools -> BOOLEAN]
    BY <1>4 DEF Begun, Begins
  <2> QED
    BY <1>1, <2>1, <2>2, <2>3, <2>4 DEF TypeOK
<1> QED
  BY <1>9, <1>10, <1>11, <1>12 DEF IInv, IdsDistinct, IdsGivenOut, OnOpenRungs, Apart, Begun, Begins

LEMMA InitInv == Init => IInv
<1>1. Init => Begun
  BY DayAheadAssumption DEF Init, Begun
<1> QED
  BY <1>1, BeginInv

LEMMA PassInv ==
  ASSUME IInv, ClearPass
  PROVE  IInv'
<1> DEFINE n == Cardinality(Rest(OutcomeNow))
<1>1. placed' = Kept(OutcomeNow) /\ lastId' = lastId + n
      /\ seeking' = Descend(book, view, Rest(OutcomeNow), lastId, TRUE)
  BY PassEffect
<1>2. n \in Nat /\ lastId \in Nat
  BY DescendChunks DEF IInv, TypeOK
<1>3. \A k \in placed' : \E c \in Standing :
        /\ k = [c EXCEPT !.hours = Granted(ServedNow, c)]
        /\ k \in Chunk
        /\ k.id = c.id /\ k.order = c.order /\ k.rung = c.rung
  BY <1>1, KeptChunks
<1>4. \A d \in seeking' : /\ d \in Chunk
                          /\ d.id \in (lastId + 1)..(lastId + n)
                          /\ d.rung \in OpenRungs(book[d.order], view, TRUE)
  BY <1>1, DescendChunks
<1>5. \A d, e \in seeking' : d.id = e.id => d = e
  BY <1>1, DescendChunks
<1>6. UNCHANGED <<book, view, phase, fills>>
  BY DEF ClearPass
<1>7. \A k \in placed' : k.id <= lastId
  BY <1>3 DEF IInv, IdsGivenOut
<1>12. ASSUME NEW a \in placed', NEW b \in seeking' PROVE a.id # b.id
  <2>1. a.id \in Nat /\ a.id <= lastId
    BY <1>3, <1>7 DEF Chunk
  <2>2. b.id \in (lastId + 1)..(lastId + n)
    BY <1>4
  <2> HIDE DEF n
  <2> QED
    BY <2>1, <2>2, <1>2
<1>8. IdsDistinct'
  <2> SUFFICES ASSUME NEW k \in Standing', NEW l \in Standing', k.id = l.id
               PROVE  k = l
    BY DEF IdsDistinct
  <2>1. CASE k \in placed' /\ l \in placed'
    BY <2>1, <1>3 DEF IInv, IdsDistinct
  <2>2. CASE k \in seeking' /\ l \in seeking'
    BY <2>2, <1>5
  <2> QED
    BY <2>1, <2>2, <1>12 DEF Standing
<1>9. IdsGivenOut'
  <2>1. ASSUME NEW k \in Standing' PROVE k.id <= lastId'
    <3>1. CASE k \in placed'
      <4>1. k.id \in Nat /\ k.id <= lastId
        BY <1>3, <1>7, <3>1 DEF Chunk
      <4> QED
        BY <4>1, <1>1, <1>2
    <3>2. CASE k \in seeking'
      <4>1. k.id \in (lastId + 1)..(lastId + n) /\ lastId' = lastId + n
        BY <1>1, <1>4, <3>2
      <4> HIDE DEF n
      <4> QED
        BY <4>1, <1>2
    <3> QED
      BY <3>1, <3>2 DEF Standing
  <2> QED
    BY <2>1 DEF IdsGivenOut
<1>10. OnOpenRungs'
  <2>1. ASSUME NEW k \in Standing'
        PROVE  k.rung \in OpenRungs(book[k.order], view, TRUE)
    <3>1. CASE k \in placed'
      BY <1>3, <3>1 DEF IInv, OnOpenRungs
    <3>2. CASE k \in seeking'
      BY <1>4, <3>2
    <3> QED
      BY <3>1, <3>2 DEF Standing
  <2>2. book' = book /\ view' = view
    BY <1>6
  <2>3. ASSUME NEW k \in Standing'
        PROVE  (k.rung \in OpenRungs(book[k.order], view, TRUE))'
    BY <2>1, <2>2, <2>3 DEF OpenRungs, Affordable
  <2> QED
    BY <2>3 DEF OnOpenRungs
<1>11. TypeOK'
  <2>1. placed' \subseteq Chunk /\ seeking' \subseteq Chunk
    BY <1>3, <1>4
  <2>2. \A k \in Standing' : k.rung \in DOMAIN book'[k.order].rungs
    BY <1>10 DEF OnOpenRungs, OpenRungs
  <2>3. lastId' \in Nat
    BY <1>1, <1>2
  <2>4. passes' \in 0..limit'
    BY DEF ClearPass, IInv, TypeOK
  <2>5. \A p \in Pools : AskedAt(p) \subseteq Standing
    BY DEF AskedAt, At
  <2>6. price' \in [Pools -> Nat \cup {NoPrice}]
    <3>1. \A p \in Pools : UniformPrice(Slices(AskedAt(p), p), p) \in Nat
      BY <2>5, PriceIs
    <3> QED
      BY <3>1 DEF ClearPass, AskedAt, Standing
  <2>7. bidHours' \in [Pools -> Nat] /\ orgCap' \in [Pools -> BOOLEAN]
    <3>1. \A p \in Pools : Cardinality(Slices(AskedAt(p), p)) \in Nat
      BY <2>5, SlicesCount, FS_CardinalityType
    <3> QED
      BY <3>1 DEF ClearPass, AskedAt, Standing
  <2>8. /\ book' \in [Orders -> Order] /\ view' \in [Pools -> PoolView]
        /\ limit' \in Nat \ {0} /\ phase' \in {"passing", "done"}
        /\ fills' \subseteq [id : Nat, order : Orders, rung : Nat \ {0},
                      hours : 1..MaxHours, pay : Int]
    BY DEF ClearPass, IInv, TypeOK
  <2> QED
    BY <2>1, <2>2, <2>3, <2>4, <2>6, <2>7, <2>8 DEF TypeOK, Standing
<1>13. Apart'
  BY <1>12 DEF Apart
<1> QED
  BY <1>8, <1>9, <1>10, <1>11, <1>13 DEF IInv

LEMMA SettleInv ==
  ASSUME IInv, Settle
  PROVE  IInv'
<1>1. UNCHANGED <<book, view, limit, passes, placed, seeking, lastId, price, bidHours, orgCap>>
  BY DEF Settle
<1>2. \A c \in placed : FillOf(c) \in [id : Nat, order : Orders, rung : Nat \ {0},
                                      hours : 1..MaxHours, pay : Int]
  <2> SUFFICES ASSUME NEW c \in placed
               PROVE  FillOf(c) \in [id : Nat, order : Orders, rung : Nat \ {0},
                                     hours : 1..MaxHours, pay : Int]
    OBVIOUS
  <2>1. c \in Standing
    BY DEF Standing
  <2>2. c \in Chunk /\ PoolOf(book, c) \in Pools /\ view[PoolOf(book, c)].reserve \in Nat
    BY <2>1, ChunkContext DEF IInv, PoolView
  <2>3. Bid(c) \in Nat
    BY <2>1, BidNat DEF IInv
  <2>4. price[PoolOf(book, c)] \in Int
    BY <2>2 DEF IInv, TypeOK, NoPrice
  <2>5. Pay(c) \in Int
    BY <2>2, <2>3, <2>4 DEF Pay, AtLeast
  <2> QED
    BY <2>2, <2>5 DEF FillOf, Chunk
<1>3. TypeOK'
  <2>1. phase' = "done" /\ fills' \subseteq
          [id : Nat, order : Orders, rung : Nat \ {0}, hours : 1..MaxHours, pay : Int]
    BY <1>2 DEF Settle
  <2> QED
    BY <1>1, <2>1 DEF IInv, TypeOK
<1>4. (IdsDistinct /\ IdsGivenOut /\ OnOpenRungs /\ Apart)'
  BY <1>1 DEF IInv, IdsDistinct, IdsGivenOut, OnOpenRungs, Apart, Standing, OpenRungs,
              Affordable
<1> QED
  BY <1>3, <1>4 DEF IInv

LEMMA NextInv == IInv /\ [Next]_clearingVars => IInv'
<1> SUFFICES ASSUME IInv, [Next]_clearingVars PROVE IInv'
  OBVIOUS
<1>1. CASE ClearPass
  BY <1>1, PassInv
<1>2. CASE Settle
  BY <1>2, SettleInv
<1>3. CASE UNCHANGED clearingVars
  BY <1>3 DEF clearingVars, IInv, TypeOK, IdsDistinct, IdsGivenOut, OnOpenRungs, Apart,
              Standing, OpenRungs, Affordable
<1> QED
  BY <1>1, <1>2, <1>3 DEF Next

LEMMA Invariant == Spec => []IInv
<1>1. Init => IInv
  BY InitInv
<1>2. IInv /\ [Next]_clearingVars => IInv'
  BY NextInv
<1> QED
  BY <1>1, <1>2, PTL DEF Spec

\* Type correctness: chunks stay well formed through any number of splits and
\* descents, on rungs that exist.
THEOREM TypeCorrect == Spec => []TypeOK
<1>1. IInv => TypeOK
  BY DEF IInv
<1> QED
  BY <1>1, Invariant, PTL

-----------------------------------------------------------------------------
(* Hours in a pass: those of a set of chunks that stand are served or turned *)
(* away, and those turned away come down to the next rung, none lost and     *)
(* none made.                                                                *)

LEMMA UnitsAreCounted ==
  ASSUME NEW C
  PROVE  Units(C) = CountBy(C, [c \in C |-> c.hours], MaxHours)
BY DEF Units, CountBy

LEMMA ServedFinite ==
  ASSUME IInv
  PROVE  IsFiniteSet(ServedNow)
<1> DEFINE f == [p \in Pools |-> Chosen(AskedAt(p), p)]
           parts == {Chosen(AskedAt(p), p) : p \in Pools}
<1>1. \A p \in Pools : IsFiniteSet(f[p])
  <2> SUFFICES ASSUME NEW p \in Pools PROVE IsFiniteSet(Chosen(AskedAt(p), p))
    OBVIOUS
  <2>1. AskedAt(p) \subseteq Standing
    BY DEF AskedAt, At
  <2>2. IsFiniteSet(Slices(AskedAt(p), p))
    BY <2>1, SlicesCount
  <2>3. Chosen(AskedAt(p), p) \subseteq Slices(AskedAt(p), p)
    BY DEF Chosen, Accepted, Served
  <2> QED
    BY <2>2, <2>3, FS_Subset
<1>2. f \in [Pools -> parts] /\ \A x \in parts : \E p \in Pools : f[p] = x
  OBVIOUS
<1>3. \A x \in parts : IsFiniteSet(x)
  BY <1>1, <1>2
<1> HIDE DEF f, parts
<1>4. f \in Surjection(Pools, parts)
  BY <1>2, Fun_IsSurj
<1>5. IsFiniteSet(parts)
  BY <1>4, FS_Surjection, LadderAssumption
<1>6. IsFiniteSet(UNION parts)
  BY <1>3, <1>5, FS_UNION
<1> QED
  BY <1>6 DEF ServedNow, parts

\* The parts that a pass makes of the chunks D.
PartsOf(C, D) == {k \in C : \E c \in D : c.id = k.id}

LEMMA GrantedCounts ==
  ASSUME IInv, NEW D, D \subseteq Standing
  PROVE  /\ IsFiniteSet(D)
         /\ IsFiniteSet({s \in ServedNow : s.chunk \in D})
         /\ [c \in D |-> Granted(ServedNow, c)] \in [D -> 0..MaxHours]
         /\ [c \in D |-> c.hours] \in [D -> 0..MaxHours]
         /\ \A c \in D : Granted(ServedNow, c) \in 0..c.hours /\ c \in Chunk
         /\ Cardinality(CountBy(D, [c \in D |-> Granted(ServedNow, c)], MaxHours)) =
              Cardinality({s \in ServedNow : s.chunk \in D})
<1> DEFINE S == {s \in ServedNow : s.chunk \in D}
           g == [c \in D |-> Granted(ServedNow, c)]
           owner == [s \in S |-> s.chunk]
           own == [c \in D |-> {s \in ServedNow : s.chunk = c}]
<1>1. IsFiniteSet(D) /\ IsFiniteSet(S)
  BY StandingFinite, ServedFinite, FS_Subset
<1>2. \A c \in D : Granted(ServedNow, c) \in 0..c.hours /\ c \in Chunk
  BY MineBounds, ChunkContext DEF IInv
<1>3. \A c \in D : c.hours \in 0..MaxHours
  BY <1>2, LadderAssumption DEF Chunk
<1>4. \A c \in D : Granted(ServedNow, c) \in 0..MaxHours
  BY <1>2, <1>3, LadderAssumption
<1>5. g \in [D -> 0..MaxHours] /\ [c \in D |-> c.hours] \in [D -> 0..MaxHours]
  BY <1>3, <1>4
<1>6. owner \in [S -> D]
  OBVIOUS
<1>7. /\ own \in [D -> SUBSET S]
      /\ \A s \in S, c \in D : s \in own[c] <=> owner[s] = c
      /\ \A c \in D : g[c] = Cardinality(own[c])
  BY DEF Granted
<1>8. Cardinality(CountBy(D, g, MaxHours)) = Cardinality(S)
  <2> HIDE DEF S, g, owner, own
  <2> QED
    BY <1>1, <1>5, <1>6, <1>7, CountOwned, LadderAssumption
<1> QED
  BY <1>1, <1>2, <1>5, <1>8

\* What the pools keep of D is what they serve to D.
LEMMA KeptHours ==
  ASSUME IInv, NEW D, D \subseteq Standing
  PROVE  Hours(PartsOf(Kept(OutcomeNow), D)) = Cardinality({s \in ServedNow : s.chunk \in D})
<1> DEFINE g == [c \in D |-> Granted(ServedNow, c)]
           P == {c \in D : Granted(ServedNow, c) > 0}
           E == PartsOf(Kept(OutcomeNow), D)
           name == [c \in P |-> [c EXCEPT !.hours = Granted(ServedNow, c)]]
           k == [e \in E |-> e.hours]
<1>1. \A c \in D : /\ Granted(ServedNow, c) \in 0..c.hours
                   /\ c \in Chunk
  BY GrantedCounts
<1>2. IsFiniteSet(P)
  <2>1. P \subseteq D
    OBVIOUS
  <2> QED
    BY <2>1, GrantedCounts, FS_Subset
<1>3. \A c \in P : /\ name[c] \in E
                   /\ name[c].id = c.id
                   /\ name[c].hours = Granted(ServedNow, c)
  <2> SUFFICES ASSUME NEW c \in P
               PROVE  /\ name[c] \in E
                      /\ name[c].id = c.id
                      /\ name[c].hours = Granted(ServedNow, c)
    OBVIOUS
  <2>1. name[c].id = c.id /\ name[c].hours = Granted(ServedNow, c)
    BY <1>1 DEF Chunk
  <2> DEFINE e == <<c, Granted(ServedNow, c)>>
  <2>2. e \in OutcomeNow /\ e[1] = c /\ e[2] = Granted(ServedNow, c) /\ e[2] > 0
    BY DEF OutcomeNow
  <2>3. name[c] = [e[1] EXCEPT !.hours = e[2]]
    BY <2>2
  <2> HIDE DEF e, name
  <2>4. name[c] \in Kept(OutcomeNow)
    BY <2>2, <2>3 DEF Kept
  <2> QED
    BY <2>1, <2>4 DEF PartsOf
<1>4. \A e \in E : \E c \in P : name[c] = e
  <2> SUFFICES ASSUME NEW e \in E PROVE \E c \in P : name[c] = e
    OBVIOUS
  <2>1. PICK c \in D : c.id = e.id
    BY DEF PartsOf
  <2>2. PICK b \in Standing : /\ e = [b EXCEPT !.hours = Granted(ServedNow, b)]
                             /\ Granted(ServedNow, b) > 0
                             /\ e.id = b.id
    BY KeptChunks DEF PartsOf
  <2>3. b = c
    BY <2>1, <2>2 DEF IInv, IdsDistinct
  <2> QED
    BY <2>2, <2>3
<1>5. name \in [P -> E]
  BY <1>3
<1>6. \A c, d \in P : name[c] = name[d] => c = d
  <2>1. \A c, d \in P : name[c] = name[d] => c.id = d.id
    BY <1>3
  <2> QED
    BY <2>1 DEF IInv, IdsDistinct
<1>7. \A c \in P : k[name[c]] = g[c]
  BY <1>3
<1>8. CountBy(P, g, MaxHours) = CountBy(D, g, MaxHours)
  <2>1. ASSUME NEW u \in CountBy(D, g, MaxHours) PROVE u \in CountBy(P, g, MaxHours)
    <3>1. u \in D \X (1..MaxHours) /\ u[2] <= g[u[1]]
      BY DEF CountBy
    <3>2. u = <<u[1], u[2]>> /\ u[1] \in D /\ u[2] \in 1..MaxHours /\ u[2] <= Granted(ServedNow, u[1])
      BY <3>1
    <3>3. Granted(ServedNow, u[1]) > 0
      BY <3>2, <1>1, LadderAssumption DEF Chunk
    <3> QED
      BY <3>1, <3>2, <3>3 DEF CountBy
  <2> QED
    BY <2>1 DEF CountBy
<1>9. Cardinality(CountBy(E, k, MaxHours)) = Cardinality(CountBy(P, g, MaxHours))
  <2> HIDE DEF P, E, name, k, g
  <2> QED
    BY <1>2, <1>4, <1>5, <1>6, <1>7, CountRenamed, LadderAssumption
<1>10. Hours(E) = Cardinality(CountBy(E, k, MaxHours))
  <2> HIDE DEF E
  <2> QED
    BY UnitsAreCounted DEF Hours
<1> QED
  BY <1>8, <1>9, <1>10, GrantedCounts

\* The rest of D is what they do not serve.
LEMMA RestHours ==
  ASSUME IInv, NEW D, D \subseteq Standing
  PROVE  Hours(D) = Cardinality({s \in ServedNow : s.chunk \in D})
                      + Hours(PartsOf(Rest(OutcomeNow), D))
<1> DEFINE h == [c \in D |-> c.hours]
           a == [c \in D |-> Granted(ServedNow, c)]
           b == [c \in D |-> c.hours - Granted(ServedNow, c)]
           P == {c \in D : Granted(ServedNow, c) < c.hours}
           E == PartsOf(Rest(OutcomeNow), D)
           name == [c \in P |-> [c EXCEPT !.hours = c.hours - Granted(ServedNow, c)]]
           k == [e \in E |-> e.hours]
<1>1. \A c \in D : /\ Granted(ServedNow, c) \in 0..c.hours
                   /\ c \in Chunk
                   /\ c.hours \in Nat /\ c.hours <= MaxHours
  <2>1. \A c \in D : c.hours \in 1..MaxHours /\ c \in Chunk
    BY GrantedCounts, ZenonT(60) DEF Chunk
  <2>2. \A c \in D : Granted(ServedNow, c) \in 0..c.hours
    BY GrantedCounts
  <2> QED
    BY <2>1, <2>2, LadderAssumption
<1>2. IsFiniteSet(P) /\ IsFiniteSet(D)
  <2>1. P \subseteq D
    OBVIOUS
  <2> QED
    BY <2>1, GrantedCounts, FS_Subset
<1>3. \A c \in P : /\ name[c] \in E
                   /\ name[c].id = c.id
                   /\ name[c].hours = c.hours - Granted(ServedNow, c)
  <2> SUFFICES ASSUME NEW c \in P
               PROVE  /\ name[c] \in E
                      /\ name[c].id = c.id
                      /\ name[c].hours = c.hours - Granted(ServedNow, c)
    OBVIOUS
  <2>1. name[c].id = c.id /\ name[c].hours = c.hours - Granted(ServedNow, c)
    BY <1>1 DEF Chunk
  <2> DEFINE e == <<c, Granted(ServedNow, c)>>
  <2>2. e \in OutcomeNow /\ e[1] = c /\ e[2] = Granted(ServedNow, c) /\ e[2] < e[1].hours
    BY DEF OutcomeNow
  <2>3. name[c] = [e[1] EXCEPT !.hours = e[1].hours - e[2]]
    BY <2>2
  <2> HIDE DEF e, name
  <2>4. name[c] \in Rest(OutcomeNow)
    BY <2>2, <2>3 DEF Rest
  <2> QED
    BY <2>1, <2>4 DEF PartsOf
<1>4. \A e \in E : \E c \in P : name[c] = e
  <2> SUFFICES ASSUME NEW e \in E PROVE \E c \in P : name[c] = e
    OBVIOUS
  <2>1. PICK c \in D : c.id = e.id
    BY DEF PartsOf
  <2>2. PICK f \in OutcomeNow : /\ f[2] < f[1].hours
                               /\ e = [f[1] EXCEPT !.hours = f[1].hours - f[2]]
    BY DEF PartsOf, Rest
  <2>3. PICK x \in Standing : f = <<x, Granted(ServedNow, x)>>
    BY DEF OutcomeNow
  <2>4. e = [x EXCEPT !.hours = x.hours - Granted(ServedNow, x)]
        /\ Granted(ServedNow, x) < x.hours
    BY <2>2, <2>3
  <2>5. x \in Chunk
    BY ChunkContext DEF IInv
  <2>6. e.id = x.id
    BY <2>4, <2>5 DEF Chunk
  <2>7. x = c
    BY <2>1, <2>6 DEF IInv, IdsDistinct
  <2> QED
    BY <2>4, <2>7
<1>5. name \in [P -> E]
  BY <1>3
<1>6. \A c, d \in P : name[c] = name[d] => c = d
  <2>1. \A c, d \in P : name[c] = name[d] => c.id = d.id
    BY <1>3
  <2> QED
    BY <2>1 DEF IInv, IdsDistinct
<1>7. \A c \in P : k[name[c]] = b[c]
  BY <1>3
<1>8. CountBy(P, b, MaxHours) = CountBy(D, b, MaxHours)
  <2>1. ASSUME NEW u \in CountBy(D, b, MaxHours) PROVE u \in CountBy(P, b, MaxHours)
    <3>1. u \in D \X (1..MaxHours) /\ u[2] <= b[u[1]]
      BY DEF CountBy
    <3>2. u = <<u[1], u[2]>> /\ u[1] \in D /\ u[2] \in 1..MaxHours
          /\ u[2] <= u[1].hours - Granted(ServedNow, u[1])
      BY <3>1
    <3>3. Granted(ServedNow, u[1]) < u[1].hours
      BY <3>2, <1>1, LadderAssumption
    <3> QED
      BY <3>1, <3>2, <3>3 DEF CountBy
  <2> QED
    BY <2>1 DEF CountBy
<1>9. Cardinality(CountBy(E, k, MaxHours)) = Cardinality(CountBy(P, b, MaxHours))
  <2> HIDE DEF P, E, name, k, b
  <2> QED
    BY <1>2, <1>4, <1>5, <1>6, <1>7, CountRenamed, LadderAssumption
<1>10. /\ Hours(E) = Cardinality(CountBy(E, k, MaxHours))
       /\ Hours(D) = Cardinality(CountBy(D, h, MaxHours))
  <2> HIDE DEF E
  <2> QED
    BY UnitsAreCounted DEF Hours
<1>11. b \in [D -> 0..MaxHours] /\ \A c \in D : h[c] = a[c] + b[c]
  BY <1>1, LadderAssumption
<1>12. h \in [D -> 0..MaxHours] /\ a \in [D -> 0..MaxHours]
  BY GrantedCounts
<1>13. Cardinality(CountBy(D, h, MaxHours)) =
         Cardinality(CountBy(D, a, MaxHours)) + Cardinality(CountBy(D, b, MaxHours))
  <2> HIDE DEF h, a, b
  <2> QED
    BY <1>2, <1>11, <1>12, CountSplit, LadderAssumption
<1> QED
  BY <1>8, <1>9, <1>10, <1>13, GrantedCounts

\* Hours that come down are those turned away from rungs above.
LEMMA DescendHours ==
  ASSUME IInv, NEW o \in Orders, NEW R
  PROVE  Hours({d \in Descend(book, view, Rest(OutcomeNow), lastId, TRUE) :
                  d.order = o /\ d.rung \in R}) =
         Hours({k \in Rest(OutcomeNow) :
                  /\ k.order = o
                  /\ \E r \in R : r \in Best(RungsBelow(book[o], k.rung, view, TRUE))})
<1> DEFINE C == Rest(OutcomeNow)
           Down(k) == Best(RungsBelow(book[k.order], k.rung, view, TRUE))
           D == {k \in C : k.order = o /\ \E r \in R : r \in Best(RungsBelow(book[o], k.rung, view, TRUE))}
           E == {d \in Descend(book, view, C, lastId, TRUE) : d.order = o /\ d.rung \in R}
           num == [k \in C |-> lastId + Cardinality(WalkedUpTo(book, C, k))]
           new == [k \in D |-> [id |-> num[k], order |-> k.order,
                                rung |-> (CHOOSE r \in R : r \in Down(k)), hours |-> k.hours]]
           hD == [k \in D |-> k.hours]
           hE == [k \in E |-> k.hours]
<1>1. /\ IsFiniteSet(C) /\ Cardinality(C) \in Nat /\ lastId \in Nat
      /\ \A k \in C : Cardinality(WalkedUpTo(book, C, k)) \in 1..Cardinality(C)
      /\ \A k, l \in C : Cardinality(WalkedUpTo(book, C, k)) = Cardinality(WalkedUpTo(book, C, l)) => k = l
  BY WalkedApart DEF IInv, TypeOK
<1>2. \A k, l \in C : num[k] = num[l] => k = l
  <2> SUFFICES ASSUME NEW k \in C, NEW l \in C, num[k] = num[l] PROVE k = l
    OBVIOUS
  <2> DEFINE a == Cardinality(WalkedUpTo(book, C, k))
             b == Cardinality(WalkedUpTo(book, C, l))
  <2>1. a \in Nat /\ b \in Nat /\ lastId + a = lastId + b
    BY <1>1
  <2>2. a = b
    <3> HIDE DEF a, b
    <3> QED
      BY <2>1, <1>1
  <2> QED
    BY <2>2, <1>1
<1>3. \A k \in C : \A r, s \in Down(k) : r = s
  <2> SUFFICES ASSUME NEW k \in C, NEW r \in Down(k), NEW s \in Down(k) PROVE r = s
    OBVIOUS
  <2>1. k \in Chunk /\ book[k.order] \in Order
    BY RestChunks DEF IInv, TypeOK, Chunk
  <2>2. book[k.order].rungs \in Seq(Rung)
    BY <2>1 DEF Order
  <2>3. r \in DOMAIN book[k.order].rungs /\ s \in DOMAIN book[k.order].rungs
    BY DEF Best, RungsBelow, OpenRungs
  <2>4. r \in Nat /\ s \in Nat
    BY <2>2, <2>3
  <2>5. r <= s /\ s <= r
    BY DEF Best
  <2> QED
    BY <2>4, <2>5
<1>4. \A k \in D : /\ (CHOOSE r \in R : r \in Down(k)) \in R
                   /\ (CHOOSE r \in R : r \in Down(k)) \in Down(k)
  OBVIOUS
<1>5. \A e \in E : \E k \in C : \E r \in Down(k) :
        e = [id |-> num[k], order |-> k.order, rung |-> r, hours |-> k.hours]
  BY DEF Descend
<1>6. \A k \in C : \A r \in Down(k) :
        [id |-> num[k], order |-> k.order, rung |-> r, hours |-> k.hours]
           \in Descend(book, view, C, lastId, TRUE)
  <2> SUFFICES ASSUME NEW k \in C, NEW r \in Down(k)
               PROVE  [id |-> num[k], order |-> k.order, rung |-> r, hours |-> k.hours]
                        \in Descend(book, view, C, lastId, TRUE)
    OBVIOUS
  <2> DEFINE Made(c) == {[id |-> lastId + Cardinality(WalkedUpTo(book, C, c)), order |-> c.order,
                          rung |-> x, hours |-> c.hours] :
                            x \in Best(RungsBelow(book[c.order], c.rung, view, TRUE))}
  <2>1. [id |-> num[k], order |-> k.order, rung |-> r, hours |-> k.hours] \in Made(k)
    OBVIOUS
  <2>2. Descend(book, view, C, lastId, TRUE) = UNION {Made(c) : c \in C}
    BY DEF Descend
  <2> HIDE DEF Made, C
  <2> QED
    BY <2>1, <2>2
<1>7. \A k \in D : k \in C /\ k.order = o
  OBVIOUS
<1>8. \A k \in C : k.order = o /\ (\E r \in R : r \in Down(k)) => k \in D
  OBVIOUS
<1>9. \A e : e \in E <=> e \in Descend(book, view, C, lastId, TRUE) /\ e.order = o /\ e.rung \in R
  OBVIOUS
<1> HIDE DEF C, D, E, Down, num
<1>10. new \in [D -> E]
  <2> SUFFICES ASSUME NEW k \in D PROVE new[k] \in E
    OBVIOUS
  <2> DEFINE r == CHOOSE x \in R : x \in Down(k)
  <2>1. r \in R /\ r \in Down(k)
    BY <1>4
  <2>2. new[k] = [id |-> num[k], order |-> k.order, rung |-> r, hours |-> k.hours]
    OBVIOUS
  <2> HIDE DEF r, new
  <2>3. new[k].order = o /\ new[k].rung \in R
    BY <2>1, <2>2, <1>7
  <2> QED
    BY <2>1, <2>2, <2>3, <1>6, <1>7, <1>9
<1>11. \A k, l \in D : new[k] = new[l] => k = l
  <2> SUFFICES ASSUME NEW k \in D, NEW l \in D, new[k] = new[l] PROVE k = l
    OBVIOUS
  <2>1. new[k].id = num[k] /\ new[l].id = num[l]
    OBVIOUS
  <2> QED
    BY <2>1, <1>2, <1>7
<1>12. \A e \in E : \E k \in D : new[k] = e
  <2> SUFFICES ASSUME NEW e \in E PROVE \E k \in D : new[k] = e
    OBVIOUS
  <2>1. PICK k \in C : \E r \in Down(k) :
           e = [id |-> num[k], order |-> k.order, rung |-> r, hours |-> k.hours]
    BY <1>5
  <2>2. PICK r \in Down(k) :
           e = [id |-> num[k], order |-> k.order, rung |-> r, hours |-> k.hours]
    BY <2>1
  <2>3. e.order = k.order /\ e.rung = r /\ e.order = o /\ e.rung \in R
    BY <2>2, <1>9
  <2>4. k \in D
    BY <2>3, <1>8
  <2>5. (CHOOSE x \in R : x \in Down(k)) = r
    BY <2>3, <2>4, <1>3, <1>4
  <2> QED
    BY <2>2, <2>4, <2>5
<1>13. \A k \in D : hE[new[k]] = hD[k]
  BY <1>10
<1>14. IsFiniteSet(D)
  BY <1>1, <1>7, FS_Subset
<1> HIDE DEF new
<1>15. Cardinality(CountBy(E, hE, MaxHours)) = Cardinality(CountBy(D, hD, MaxHours))
  <2> HIDE DEF hE, hD
  <2> QED
    BY <1>10, <1>11, <1>12, <1>13, <1>14, CountRenamed, LadderAssumption
<1>16. Hours(E) = Hours(D)
  BY <1>15, UnitsAreCounted DEF Hours
<1> QED
  BY <1>16 DEF D, E, C

LEMMA HoursOfOne ==
  ASSUME NEW c \in Chunk
  PROVE  Hours({c}) = c.hours
<1> DEFINE f == [i \in 1..c.hours |-> <<c, i>>]
<1>1. c.hours \in 1..MaxHours
  BY DEF Chunk
<1>2. c.hours \in Nat /\ c.hours <= MaxHours
  BY <1>1, LadderAssumption
<1>3. \A u : u \in Units({c}) <=> \E i \in 1..c.hours : u = <<c, i>>
  <2>1. ASSUME NEW u \in Units({c}) PROVE \E i \in 1..c.hours : u = <<c, i>>
    <3>1. u = <<c, u[2]>> /\ u[2] \in 1..MaxHours /\ u[2] <= c.hours
      BY DEF Units
    <3>2. u[2] \in 1..c.hours
      BY <3>1, <1>2, LadderAssumption
    <3> QED
      BY <3>1, <3>2
  <2>2. ASSUME NEW i \in 1..c.hours PROVE <<c, i>> \in Units({c})
    BY <1>2, LadderAssumption DEF Units
  <2> QED
    BY <2>1, <2>2
<1>4. f \in [1..c.hours -> Units({c})] /\ (\A u \in Units({c}) : \E i \in 1..c.hours : f[i] = u)
  BY <1>3
<1>5. \A i, j \in 1..c.hours : f[i] = f[j] => i = j
  OBVIOUS
<1>6. IsFiniteSet(1..c.hours) /\ Cardinality(1..c.hours) = c.hours
  BY <1>2, FS_Interval
<1>7. Cardinality(Units({c})) = Cardinality(1..c.hours)
  <2> DEFINE S == 1..c.hours
             T == Units({c})
  <2>1. /\ f \in [S -> T] /\ IsFiniteSet(S)
        /\ \A x, y \in S : f[x] = f[y] => x = y
        /\ \A z \in T : \E x \in S : f[x] = z
    BY <1>4, <1>5, <1>6
  <2> HIDE DEF f, S, T
  <2>2. Cardinality(T) = Cardinality(S)
    BY <2>1, SameSize
  <2> QED
    BY <2>2 DEF S, T
<1> QED
  BY <1>6, <1>7 DEF Hours

LEMMA HoursApart ==
  ASSUME NEW C, NEW D, IsFiniteSet(C), IsFiniteSet(D), C \cap D = {}
  PROVE  Hours(C \cup D) = Hours(C) + Hours(D)
<1>1. /\ IsFiniteSet(Units(C)) /\ IsFiniteSet(Units(D))
      /\ Hours(C) \in Nat /\ Hours(D) \in Nat
  BY UnitsFinite
<1>2. Units(C \cup D) = Units(C) \cup Units(D) /\ Units(C) \cap Units(D) = {}
  BY DEF Units
<1>3. Cardinality(Units(C) \cup Units(D)) =
        Cardinality(Units(C)) + Cardinality(Units(D)) - Cardinality(Units(C) \cap Units(D))
  BY <1>1, FS_Union
<1>4. Cardinality(Units(C) \cap Units(D)) = 0
  BY <1>2, FS_EmptySet
<1>5. Hours(C \cup D) = Hours(C) + Hours(D) - 0
  BY <1>2, <1>3, <1>4 DEF Hours
<1> QED
  BY <1>1, <1>5

\* The chunks of an order on some of its rungs, and the hours served to them.
On(C, o, R) == {c \in C : c.order = o /\ c.rung \in R}

ServedOn(o, R) ==
  Cardinality({s \in ServedNow : s.chunk.order = o /\ s.chunk.rung \in R})

\* The chunks turned away whose next rung is one of these.
ComingTo(o, R) ==
  {k \in Rest(OutcomeNow) :
     k.order = o /\ \E r \in R : r \in Best(RungsBelow(book[o], k.rung, view, TRUE))}

\* What a pass does to the hours of an order on some of its rungs.
LEMMA RungHours ==
  ASSUME IInv, ClearPass, NEW o \in Orders, NEW R
  PROVE  /\ Hours(On(placed', o, R)) = ServedOn(o, R)
         /\ Hours(On(Standing, o, R)) = ServedOn(o, R) + Hours(On(Rest(OutcomeNow), o, R))
         /\ Hours(On(Standing', o, R)) = ServedOn(o, R) + Hours(ComingTo(o, R))
         /\ ServedOn(o, R) \in Nat
         /\ Hours(On(Rest(OutcomeNow), o, R)) \in Nat
         /\ Hours(ComingTo(o, R)) \in Nat
<1> DEFINE D == On(Standing, o, R)
<1>1. /\ placed' = Kept(OutcomeNow)
      /\ seeking' = Descend(book, view, Rest(OutcomeNow), lastId, TRUE)
      /\ IInv'
  BY PassEffect, PassInv
<1>2. D \subseteq Standing
  BY DEF On
<1>3. {s \in ServedNow : s.chunk \in D} =
        {s \in ServedNow : s.chunk.order = o /\ s.chunk.rung \in R}
  <2>1. \A s \in ServedNow : s.chunk \in Standing
    <3> SUFFICES ASSUME NEW s \in ServedNow PROVE s.chunk \in Standing
      OBVIOUS
    <3>1. PICK p \in Pools : s \in Chosen(AskedAt(p), p)
      BY DEF ServedNow
    <3>2. PICK u \in Units(AskedAt(p)) :
            s = [chunk |-> u[1], hour |-> u[2], band |-> Band(u, Units(AskedAt(p)), p)]
      BY <3>1 DEF Chosen, Accepted, Served, Slices
    <3> QED
      BY <3>2 DEF Units, AskedAt, At
  <2> QED
    BY <2>1 DEF On
<1>4. PartsOf(Kept(OutcomeNow), D) = On(placed', o, R)
  <2>1. ASSUME NEW k \in Kept(OutcomeNow)
        PROVE  (\E c \in D : c.id = k.id) <=> k.order = o /\ k.rung \in R
    <3>1. PICK c \in Standing : k.id = c.id /\ k.order = c.order /\ k.rung = c.rung
      BY KeptChunks
    <3>2. \A d \in D : d.id = k.id => d = c
      BY <3>1, <1>2 DEF IInv, IdsDistinct
    <3> QED
      BY <3>1, <3>2 DEF On
  <2> QED
    BY <1>1, <2>1 DEF PartsOf, On
<1>5. PartsOf(Rest(OutcomeNow), D) = On(Rest(OutcomeNow), o, R)
  <2>1. ASSUME NEW k \in Rest(OutcomeNow)
        PROVE  (\E c \in D : c.id = k.id) <=> k.order = o /\ k.rung \in R
    <3>1. PICK c \in Standing : k.id = c.id /\ k.order = c.order /\ k.rung = c.rung
      BY RestChunks
    <3>2. \A d \in D : d.id = k.id => d = c
      BY <3>1, <1>2 DEF IInv, IdsDistinct
    <3> QED
      BY <3>1, <3>2 DEF On
  <2> QED
    BY <2>1 DEF PartsOf, On
<1>6. Hours(On(placed', o, R)) = ServedOn(o, R)
  BY <1>2, <1>3, <1>4, KeptHours DEF ServedOn
<1>7. Hours(D) = ServedOn(o, R) + Hours(On(Rest(OutcomeNow), o, R))
  BY <1>2, <1>3, <1>5, RestHours DEF ServedOn
<1>8. Hours(On(seeking', o, R)) = Hours(ComingTo(o, R))
  <2>1. On(seeking', o, R) =
          {d \in Descend(book, view, Rest(OutcomeNow), lastId, TRUE) : d.order = o /\ d.rung \in R}
    BY <1>1 DEF On
  <2> QED
    BY <2>1, DescendHours, ZenonT(60) DEF ComingTo
<1>9. Hours(On(Standing', o, R)) = Hours(On(placed', o, R)) + Hours(On(seeking', o, R))
  <2>1. IsFiniteSet(Standing)'
    BY <1>1, AlwaysFinite, PTL
  <2>2. On(Standing', o, R) = On(placed', o, R) \cup On(seeking', o, R)
    BY DEF On, Standing
  <2>3. On(placed', o, R) \cap On(seeking', o, R) = {}
    BY <1>1 DEF On, IInv, Apart
  <2>4. On(placed', o, R) \subseteq Standing' /\ On(seeking', o, R) \subseteq Standing'
    BY DEF On, Standing
  <2>5. IsFiniteSet(On(placed', o, R)) /\ IsFiniteSet(On(seeking', o, R))
    BY <2>1, <2>4, FS_Subset
  <2> QED
    BY <2>2, <2>3, <2>5, HoursApart
<1>10. /\ Hours(On(Rest(OutcomeNow), o, R)) \in Nat
       /\ Hours(ComingTo(o, R)) \in Nat
  <2>1. On(Rest(OutcomeNow), o, R) \subseteq Rest(OutcomeNow) /\ ComingTo(o, R) \subseteq Rest(OutcomeNow)
    BY DEF On, ComingTo
  <2>2. IsFiniteSet(Rest(OutcomeNow))
    BY RestChunks
  <2> QED
    BY <2>1, <2>2, FS_Subset, UnitsFinite
<1>11. ServedOn(o, R) \in Nat
  <2>1. {s \in ServedNow : s.chunk.order = o /\ s.chunk.rung \in R} \subseteq ServedNow
    OBVIOUS
  <2> QED
    BY <2>1, ServedFinite, FS_Subset, FS_CardinalityType DEF ServedOn
<1> QED
  BY <1>6, <1>7, <1>8, <1>9, <1>10, <1>11

-----------------------------------------------------------------------------
(* What a pool holds after a pass is exactly what it served.               *)

LEMMA ServedAtPool ==
  ASSUME IInv, NEW p \in Pools
  PROVE  {s \in ServedNow : s.chunk \in AskedAt(p)} = Chosen(AskedAt(p), p)
<1>1. ASSUME NEW q \in Pools, NEW s \in Chosen(AskedAt(q), q)
      PROVE  s.chunk \in AskedAt(q)
  <2>1. PICK u \in Units(AskedAt(q)) :
          s = [chunk |-> u[1], hour |-> u[2], band |-> Band(u, Units(AskedAt(q)), q)]
    BY DEF Chosen, Accepted, Served, Slices
  <2> QED
    BY <2>1 DEF Units
<1>2. \A q \in Pools : AskedAt(p) \cap AskedAt(q) # {} => p = q
  BY DEF AskedAt, At
<1> QED
  BY <1>1, <1>2 DEF ServedNow

LEMMA HeldAfterPass ==
  ASSUME IInv, ClearPass, NEW p \in Pools
  PROVE  HeldAt(p)' = Cardinality(Chosen(AskedAt(p), p))
<1>1. placed' = Kept(OutcomeNow) /\ book' = book
  BY PassEffect DEF ClearPass
<1>2. At(book', placed', p) = PartsOf(Kept(OutcomeNow), AskedAt(p))
  <2>1. ASSUME NEW k \in Kept(OutcomeNow)
        PROVE  PoolOf(book, k) = p <=> \E c \in AskedAt(p) : c.id = k.id
    <3>1. PICK c \in Standing : k.id = c.id /\ k.order = c.order /\ k.rung = c.rung
      BY KeptChunks
    <3>2. PoolOf(book, k) = PoolOf(book, c)
      BY <3>1 DEF PoolOf
    <3>3. \A d \in AskedAt(p) : d.id = k.id => d = c
      BY <3>1 DEF IInv, IdsDistinct, AskedAt, At
    <3> QED
      BY <3>1, <3>2, <3>3 DEF AskedAt, At
  <2> QED
    BY <1>1, <2>1 DEF At, PartsOf
<1>3. AskedAt(p) \subseteq Standing
  BY DEF AskedAt, At
<1>4. Hours(At(book', placed', p)) = Cardinality(Chosen(AskedAt(p), p))
  BY <1>2, <1>3, KeptHours, ServedAtPool
<1> QED
  BY <1>4 DEF HeldAt

LEMMA HeldBounds ==
  ASSUME IInv, NEW p \in Pools
  PROVE  /\ HeldAt(p) \in Nat
         /\ view[p].supply \in Nat
         /\ Hours(AskedAt(p)) \in Nat
         /\ HeldAt(p) <= Hours(AskedAt(p))
         /\ placed = {} => HeldAt(p) = 0
<1>1. IsFiniteSet(Standing) /\ placed \subseteq Standing
  BY StandingFinite DEF Standing
<1>2. IsFiniteSet(AskedAt(p)) /\ IsFiniteSet(At(book, placed, p))
  BY <1>1, FS_Subset DEF AskedAt, At
<1>3. IsFiniteSet(Units(AskedAt(p))) /\ HeldAt(p) \in Nat /\ Hours(AskedAt(p)) \in Nat
  BY <1>2, UnitsFinite DEF HeldAt
<1>4. Units(At(book, placed, p)) \subseteq Units(AskedAt(p))
  BY <1>1 DEF Units, At, AskedAt
<1>5. HeldAt(p) <= Hours(AskedAt(p))
  BY <1>3, <1>4, FS_Subset DEF HeldAt, Hours
<1>6. view[p].supply \in Nat
  BY DEF IInv, TypeOK, PoolView
<1>7. placed = {} => Units(At(book, placed, p)) = {}
  BY DEF Units, At
<1>8. placed = {} => HeldAt(p) = 0
  BY <1>7, FS_EmptySet DEF HeldAt, Hours
<1> QED
  BY <1>3, <1>5, <1>6, <1>8

LEMMA HeldAfterPassIs ==
  ASSUME IInv, ClearPass, NEW p \in Pools
  PROVE  HeldAt(p)' = IF Hours(AskedAt(p)) <= view[p].supply
                      THEN Hours(AskedAt(p)) ELSE view[p].supply
<1>1. AskedAt(p) \subseteq Standing /\ \A c \in AskedAt(p) : PoolOf(book, c) = p
  BY DEF AskedAt, At
<1> QED
  BY <1>1, HeldAfterPass, ChosenCount

LEMMA RungContext ==
  ASSUME IInv, NEW o \in Orders, NEW r \in DOMAIN book[o].rungs
  PROVE  r \in Nat \ {0} /\ book[o].rungs[r] \in Rung /\ book[o].rungs[r].pool \in Pools
<1>1. book[o].rungs \in Seq(Rung)
  BY DEF IInv, TypeOK, Order
<1>2. r \in Nat \ {0} /\ book[o].rungs[r] \in Rung
  BY <1>1
<1> QED
  BY <1>2 DEF Rung

LEMMA OpenContext ==
  ASSUME IInv, NEW o \in Orders
  PROVE  /\ OpenRungs(book[o], view, TRUE) \subseteq Nat
         /\ \A r \in OpenRungs(book[o], view, TRUE) :
              r \in DOMAIN book[o].rungs /\ book[o].rungs[r].pool \in Pools
<1>1. \A r \in OpenRungs(book[o], view, TRUE) : r \in DOMAIN book[o].rungs
  BY DEF OpenRungs
<1>2. \A r \in OpenRungs(book[o], view, TRUE) :
        r \in Nat /\ book[o].rungs[r].pool \in Pools
  BY <1>1, RungContext
<1> QED
  BY <1>1, <1>2

-----------------------------------------------------------------------------
(* Prices.                                                                 *)

(***************************************************************************)
(* The inductive invariant of the prices: those who hold hours bid at      *)
(* least the price of the last pass, which they made or outbid, and the    *)
(* result sells all that is held.                                          *)
(***************************************************************************)
PriceInv ==
  /\ \A p \in Pools : price[p] # NoPrice => price[p] >= view[p].reserve
  /\ \A c \in placed : /\ price[PoolOf(book, c)] # NoPrice
                       /\ price[PoolOf(book, c)] <= Bid(c)
  /\ phase = "done" => fills = {FillOf(c) : c \in placed}

LEMMA PassPrices ==
  ASSUME IInv, ClearPass
  PROVE  PriceInv' /\ DearOnlyWhenSoldOut'
<1> DEFINE U(p) == UniformPrice(Slices(AskedAt(p), p), p)
<1>1. /\ placed' = Kept(OutcomeNow) /\ book' = book /\ view' = view /\ phase' # "done"
      /\ \A p \in Pools : price'[p] = IF Slices(AskedAt(p), p) = {} THEN NoPrice ELSE U(p)
  BY PassEffect DEF ClearPass, AskedAt, Standing
<1>2. \A p \in Pools : AskedAt(p) \subseteq Standing /\ \A c \in AskedAt(p) : PoolOf(book, c) = p
  BY DEF AskedAt, At
<1>3. \A p \in Pools : U(p) \in Nat /\ U(p) >= view[p].reserve /\ view[p].reserve \in Nat
  BY <1>2, PriceIs DEF IInv, TypeOK, PoolView
<1> HIDE DEF U
<1>4. ASSUME NEW p \in Pools, price'[p] # NoPrice PROVE price'[p] >= view[p].reserve
  BY <1>1, <1>3, <1>4
<1>5. ASSUME NEW k \in placed'
      PROVE  /\ price'[PoolOf(book, k)] # NoPrice
             /\ price'[PoolOf(book, k)] <= Bid(k)
  <2>1. PICK c \in Standing : /\ k.order = c.order /\ k.rung = c.rung
                              /\ Granted(ServedNow, c) > 0
    BY <1>1, <1>5, KeptChunks
  <2>2. PoolOf(book, k) = PoolOf(book, c) /\ Bid(k) = Bid(c)
    BY <2>1 DEF PoolOf, Bid
  <2>3. PICK p \in Pools : p = PoolOf(book, c)
    BY ChunkContext DEF IInv
  <2>4. Mine(c) = {s \in Chosen(AskedAt(p), p) : s.chunk = c} /\ Mine(c) # {}
    <3>1. Cardinality(Mine(c)) > 0
      BY <2>1, MineBounds
    <3>2. Mine(c) # {}
      BY <3>1, FS_EmptySet
    <3> QED
      BY <2>3, <3>2, MineBounds
  <2>5. PICK s \in Chosen(AskedAt(p), p) : s.chunk = c
    BY <2>4
  <2>6. s \in Slices(AskedAt(p), p)
    BY <1>2, ChosenCount
  <2>7. U(p) <= Bid(c)
    BY <1>2, <2>5, WinnersBid DEF U
  <2>8. price'[p] = U(p)
    BY <1>1, <2>6
  <2> QED
    BY <1>3, <2>2, <2>3, <2>7, <2>8 DEF NoPrice
<1>6. PriceInv'
  <2>1. \A k \in placed' : PoolOf(book', k) = PoolOf(book, k) /\ Bid(k)' = Bid(k)
    BY <1>1 DEF PoolOf, Bid
  <2> QED
    BY <1>1, <1>4, <1>5, <2>1 DEF PriceInv
<1>7. DearOnlyWhenSoldOut'
  <2> SUFFICES ASSUME NEW p \in Pools, price'[p] > view[p].reserve
               PROVE  HeldAt(p)' = view[p].supply
    BY <1>1 DEF DearOnlyWhenSoldOut
  <2>1. U(p) > view[p].reserve
    BY <1>1, <1>3 DEF NoPrice
  <2>2. Cardinality(Chosen(AskedAt(p), p)) = view[p].supply
    BY <1>2, <2>1, ChosenCount DEF U
  <2> QED
    BY <2>2, HeldAfterPass
<1> QED
  BY <1>6, <1>7

\* A chunk held in the last pass can be paid for, and its price is not cut.
LEMMA PayIs ==
  ASSUME IInv, PriceInv, NEW c \in placed
  PROVE  /\ Payable(c)
         /\ Pay(c) = price[PoolOf(book, c)]
         /\ Pay(c) <= Bid(c)
<1>1. PoolOf(book, c) \in Pools /\ c \in Standing
  BY ChunkContext DEF IInv, Standing
<1>2. Bid(c) \in Nat /\ price[PoolOf(book, c)] \in Int /\ view[PoolOf(book, c)].reserve \in Nat
  BY <1>1, BidNat DEF IInv, TypeOK, PoolView, NoPrice
<1>3. /\ price[PoolOf(book, c)] >= view[PoolOf(book, c)].reserve
      /\ price[PoolOf(book, c)] <= Bid(c)
  BY <1>1 DEF PriceInv
<1>4. Pay(c) = price[PoolOf(book, c)]
  BY <1>2, <1>3 DEF Pay, AtLeast
<1> QED
  BY <1>3, <1>4 DEF Payable

LEMMA SettlePrices ==
  ASSUME IInv, PriceInv, Settle
  PROVE  PriceInv'
<1>1. /\ UNCHANGED <<book, view, placed, price>>
      /\ fills' = {FillOf(c) : c \in {d \in placed : Payable(d)}}
  BY DEF Settle
<1>2. \A c \in placed : Payable(c)
  BY PayIs
<1>3. fills' = {FillOf(c) : c \in placed}
  BY <1>1, <1>2
<1>4. \A c \in placed : FillOf(c)' = FillOf(c)
  BY <1>1 DEF FillOf, Pay, PoolOf, Bid
<1>5. fills' = {FillOf(c)' : c \in placed'}
  BY <1>1, <1>3, <1>4
<1> QED
  BY <1>1, <1>5 DEF PriceInv, PoolOf, Bid

LEMMA NextPrices ==
  IInv /\ PriceInv /\ DearOnlyWhenSoldOut /\ [Next]_clearingVars =>
    PriceInv' /\ DearOnlyWhenSoldOut'
<1> SUFFICES ASSUME IInv, PriceInv, DearOnlyWhenSoldOut, [Next]_clearingVars
             PROVE  PriceInv' /\ DearOnlyWhenSoldOut'
  OBVIOUS
<1>1. CASE ClearPass
  BY <1>1, PassPrices
<1>2. CASE Settle
  <2>1. DearOnlyWhenSoldOut'
    BY <1>2 DEF Settle, DearOnlyWhenSoldOut, HeldAt, At, PoolOf
  <2> QED
    BY <1>2, <2>1, SettlePrices
<1>3. CASE UNCHANGED clearingVars
  BY <1>3 DEF clearingVars, PriceInv, DearOnlyWhenSoldOut, HeldAt, At, PoolOf, Bid, FillOf, Pay
<1> QED
  BY <1>1, <1>2, <1>3 DEF Next

LEMMA BeginPrices == Begun => PriceInv /\ DearOnlyWhenSoldOut
<1> SUFFICES ASSUME Begun PROVE PriceInv /\ DearOnlyWhenSoldOut
  OBVIOUS
<1>1. placed = {} /\ phase = "passing" /\ \A p \in Pools : price[p] = NoPrice
  BY DEF Begun, Begins
<1>2. \A p \in Pools : view[p].reserve \in Nat
  BY DEF Begun, PoolView
<1> QED
  BY <1>1, <1>2 DEF PriceInv, DearOnlyWhenSoldOut, NoPrice

LEMMA PriceInvariant == Spec => [](PriceInv /\ DearOnlyWhenSoldOut)
<1>1. Init => Begun
  BY DayAheadAssumption DEF Init, Begun
<1>2. Init => PriceInv /\ DearOnlyWhenSoldOut
  BY <1>1, BeginPrices
<1>3. IInv /\ PriceInv /\ DearOnlyWhenSoldOut /\ [Next]_clearingVars =>
        PriceInv' /\ DearOnlyWhenSoldOut'
  BY NextPrices
<1> QED
  BY <1>2, <1>3, Invariant, PTL DEF Spec

\* A pool is dearer than its reserve only where it is sold out.
THEOREM DearPoolsAreSoldOut == Spec => []DearOnlyWhenSoldOut
BY PriceInvariant, PTL

LEMMA WinnersPay == IInv /\ PriceInv => WinnersPayTheUniformPrice
<1> SUFFICES ASSUME IInv, PriceInv, phase = "done"
             PROVE  /\ \A c \in placed : \E f \in fills : f.id = c.id /\ f.hours = c.hours
                    /\ \A f \in fills :
                         LET rung == book[f.order].rungs[f.rung]
                         IN f.pay = FinalPrice(rung.pool) /\ f.pay <= rung.max
  BY DEF WinnersPayTheUniformPrice
<1>1. fills = {FillOf(c) : c \in placed}
  BY DEF PriceInv
<1>2. ASSUME NEW c \in placed PROVE \E f \in fills : f.id = c.id /\ f.hours = c.hours
  <2>1. FillOf(c) \in fills /\ FillOf(c).id = c.id /\ FillOf(c).hours = c.hours
    BY <1>1 DEF FillOf
  <2> QED
    BY <2>1
<1>3. ASSUME NEW f \in fills
      PROVE  /\ f.pay = FinalPrice(book[f.order].rungs[f.rung].pool)
             /\ f.pay <= book[f.order].rungs[f.rung].max
  <2>1. PICK c \in placed : f = FillOf(c)
    BY <1>1
  <2>2. f.order = c.order /\ f.rung = c.rung /\ f.pay = Pay(c)
    BY <2>1 DEF FillOf
  <2>3. Pay(c) = price[PoolOf(book, c)] /\ Pay(c) <= Bid(c) /\ price[PoolOf(book, c)] # NoPrice
    BY PayIs DEF PriceInv
  <2> QED
    BY <2>2, <2>3 DEF FinalPrice, PoolOf, Bid
<1> QED
  BY <1>2, <1>3

\* Every winner is in the result and pays the one price of its pool, never more
\* than it bid: the price is made of other bids, and none of those who win bid less.
THEOREM AllWinnersPayTheUniformPrice == Spec => []WinnersPayTheUniformPrice
BY Invariant, PriceInvariant, WinnersPay, PTL

-----------------------------------------------------------------------------
(* A block is deferred acceptance by hours.                                *)

\* The open rung from which hours come down to r, if there is one.
Above(o, r) ==
  {q \in OpenRungs(book[o], view, TRUE) :
     q < r /\ \A s \in OpenRungs(book[o], view, TRUE) : s < r => s <= q}

LEMMA ComingFrom ==
  ASSUME IInv, NEW o \in Orders, NEW r \in DOMAIN book[o].rungs
  PROVE  /\ \A q \in Above(o, r) : r \in OpenRungs(book[o], view, TRUE) =>
              ComingTo(o, {r}) = On(Rest(OutcomeNow), o, {q})
         /\ r \notin OpenRungs(book[o], view, TRUE) \/ Above(o, r) = {} =>
              ComingTo(o, {r}) = {}
<1> DEFINE open == OpenRungs(book[o], view, TRUE)
<1>1. open \subseteq Nat /\ r \in Nat
  BY OpenContext, RungContext
<1>2. \A k \in Rest(OutcomeNow) : k.order = o => k.rung \in open
  <2> SUFFICES ASSUME NEW k \in Rest(OutcomeNow), k.order = o PROVE k.rung \in open
    OBVIOUS
  <2>1. PICK c \in Standing : k.id = c.id /\ k.order = c.order /\ k.rung = c.rung
    BY RestChunks
  <2> QED
    BY <2>1 DEF IInv, OnOpenRungs
<1>3. \A k \in Rest(OutcomeNow) : k.order = o =>
        (r \in Best(RungsBelow(book[o], k.rung, view, TRUE)) <=> r \in open /\ k.rung \in Above(o, r))
  <2> SUFFICES ASSUME NEW q \in open
               PROVE  r \in Best(RungsBelow(book[o], q, view, TRUE)) <=> r \in open /\ q \in Above(o, r)
    BY <1>2
  <2>1. r \in Best(RungsBelow(book[o], q, view, TRUE)) <=>
          r \in open /\ r > q /\ \A s \in open : s > q => r <= s
    BY DEF Best, RungsBelow
  <2>2. q \in Above(o, r) <=> q < r /\ \A s \in open : s < r => s <= q
    BY DEF Above
  <2>3. \A s \in open : s \in Nat
    BY <1>1
  <2>4. q \in open /\ q \in Nat /\ r \in Nat
    BY <1>1
  <2> HIDE DEF open
  <2>5. ASSUME r \in open, r > q, \A s \in open : s > q => r <= s
        PROVE  q < r /\ \A s \in open : s < r => s <= q
    BY <2>3, <2>4, <2>5
  <2>6. ASSUME r \in open, q < r, \A s \in open : s < r => s <= q
        PROVE  r > q /\ \A s \in open : s > q => r <= s
    BY <2>3, <2>4, <2>6
  <2> QED
    BY <2>1, <2>2, <2>5, <2>6
<1>4. \A k \in Rest(OutcomeNow) :
        k \in ComingTo(o, {r}) <=> k.order = o /\ r \in open /\ k.rung \in Above(o, r)
  <2> SUFFICES ASSUME NEW k \in Rest(OutcomeNow)
               PROVE  k \in ComingTo(o, {r}) <=> k.order = o /\ r \in open /\ k.rung \in Above(o, r)
    OBVIOUS
  <2>1. k \in ComingTo(o, {r}) <=>
          k.order = o /\ r \in Best(RungsBelow(book[o], k.rung, view, TRUE))
    BY DEF ComingTo
  <2> QED
    BY <1>3, <2>1
<1>5. \A q, s \in Above(o, r) : q = s
  <2> SUFFICES ASSUME NEW q \in Above(o, r), NEW s \in Above(o, r) PROVE q = s
    OBVIOUS
  <2>1. q <= s /\ s <= q
    BY DEF Above
  <2>2. q \in Nat /\ s \in Nat
    BY <1>1 DEF Above
  <2> QED
    BY <2>1, <2>2
<1>6. ComingTo(o, {r}) \subseteq Rest(OutcomeNow)
  BY DEF ComingTo
<1>7. ASSUME NEW q \in Above(o, r), r \in open
      PROVE  ComingTo(o, {r}) = On(Rest(OutcomeNow), o, {q})
  BY <1>4, <1>5, <1>6, <1>7 DEF On
<1>8. ASSUME r \notin open \/ Above(o, r) = {}
      PROVE  ComingTo(o, {r}) = {}
  BY <1>4, <1>6, <1>8
<1> QED
  BY <1>7, <1>8

LEMMA StandMoves ==
  ASSUME IInv, ClearPass, NEW o \in Orders, NEW r \in DOMAIN book[o].rungs
  PROVE  Hours(On(Standing', o, {r})) =
           IF r \in OpenRungs(book[o], view, TRUE) /\ Above(o, r) # {}
           THEN LET q == CHOOSE s \in Above(o, r) : TRUE
                IN Hours(On(placed', o, {r})) + Hours(On(Standing, o, {q}))
                     - Hours(On(placed', o, {q}))
           ELSE Hours(On(placed', o, {r}))
<1>1. CASE r \in OpenRungs(book[o], view, TRUE) /\ Above(o, r) # {}
  <2> DEFINE q == CHOOSE s \in Above(o, r) : TRUE
             back == Hours(On(Rest(OutcomeNow), o, {q}))
  <2>1. q \in Above(o, r)
    BY <1>1
  <2> HIDE DEF q
  <2>2. ComingTo(o, {r}) = On(Rest(OutcomeNow), o, {q})
    BY <1>1, <2>1, ComingFrom
  <2>3. /\ Hours(On(placed', o, {q})) = ServedOn(o, {q})
        /\ Hours(On(Standing, o, {q})) = ServedOn(o, {q}) + back
        /\ ServedOn(o, {q}) \in Nat /\ back \in Nat
    BY RungHours
  <2>4. /\ Hours(On(placed', o, {r})) = ServedOn(o, {r})
        /\ Hours(On(Standing', o, {r})) = ServedOn(o, {r}) + back
        /\ ServedOn(o, {r}) \in Nat
    BY <2>2, RungHours
  <2> HIDE DEF back
  <2>5. Hours(On(Standing', o, {r})) =
          Hours(On(placed', o, {r})) + Hours(On(Standing, o, {q})) - Hours(On(placed', o, {q}))
    BY <2>3, <2>4
  <2> QED
    BY <1>1, <2>5 DEF q
<1>2. CASE ~(r \in OpenRungs(book[o], view, TRUE) /\ Above(o, r) # {})
  <2>1. ComingTo(o, {r}) = {}
    BY <1>2, ComingFrom
  <2>2. Units(ComingTo(o, {r})) = {}
    BY <2>1 DEF Units
  <2>3. Hours(ComingTo(o, {r})) = 0
    BY <2>2, FS_EmptySet DEF Hours
  <2>4. /\ Hours(On(placed', o, {r})) = ServedOn(o, {r})
        /\ Hours(On(Standing', o, {r})) = ServedOn(o, {r}) + 0
        /\ ServedOn(o, {r}) \in Nat
    BY <2>3, RungHours
  <2>5. Hours(On(Standing', o, {r})) = Hours(On(placed', o, {r}))
    BY <2>4
  <2> QED
    BY <1>2, <2>5
<1> QED
  BY <1>1, <1>2

-----------------------------------------------------------------------------
(* The operators of the promise are those of the block.                    *)

LEMMA SameOpen ==
  ASSUME NEW o
  PROVE  /\ Promise!Open(o) = OpenRungs(book[o], view, TRUE)
         /\ \A r : Promise!RungAbove(o, r) = Above(o, r)
         /\ Promise!Best(Promise!Open(o)) = Best(OpenRungs(book[o], view, TRUE))
<1>1. Promise!Open(o) = OpenRungs(book[o], view, TRUE)
  BY DEF Promise!Open, Promise!OpenRungs, OpenRungs, Promise!Affordable, Affordable
<1> QED
  BY <1>1 DEF Promise!RungAbove, Above, Promise!Best, Best

LEMMA SameSizes == \A S : Promise!Cardinality(S) = Cardinality(S)
BY DEF Promise!Cardinality, Cardinality

LEMMA ByRungIs ==
  ASSUME NEW C, NEW o \in Orders, NEW r \in DOMAIN book[o].rungs
  PROVE  HoursByRung(C)[o][r] = Hours(On(C, o, {r}))
<1>1. {c \in OfOrder(C, o) : c.rung = r} = On(C, o, {r})
  BY DEF OfOrder, On
<1> QED
  BY <1>1 DEF HoursByRung

\* The hours at a pool are the hours of all orders at their rungs there.
LEMMA PoolSum ==
  ASSUME IInv, NEW C, IsFiniteSet(C), NEW p \in Pools, C \subseteq Chunk,
         \A c \in C : c.rung \in DOMAIN book[c.order].rungs
  PROVE  Promise!Cardinality(Promise!AtPool(HoursByRung(C), p)) = Hours(At(book, C, p))
<1> DEFINE H == HoursByRung(C)
           S == Units(At(book, C, p))
           D == {d \in Orders \X Nat : /\ d[2] \in DOMAIN book[d[1]].rungs
                                       /\ book[d[1]].rungs[d[2]].pool = p}
           owner == [u \in S |-> <<u[1].order, u[1].rung>>]
           own == [d \in D |-> Units(On(C, d[1], {d[2]}))]
           h == [d \in D |-> Hours(On(C, d[1], {d[2]}))]
           m == Cardinality(S)
           V == CountBy(D, h, m)
           A == Promise!AtPool(H, p)
           f == [v \in V |-> <<v[1][1], v[1][2], v[2]>>]
<1>1. IsFiniteSet(S) /\ m \in Nat
  <2>1. IsFiniteSet(At(book, C, p))
    BY FS_Subset DEF At
  <2> QED
    BY <2>1, UnitsFinite, FS_CardinalityType
<1>2. \A u \in S : /\ u[1] \in C /\ u[1].order \in Orders /\ u[1].rung \in Nat
                   /\ u[1].rung \in DOMAIN book[u[1].order].rungs
                   /\ book[u[1].order].rungs[u[1].rung].pool = p
  BY DEF Units, At, PoolOf, Chunk
<1>3. owner \in [S -> D]
  BY <1>2
<1>4. \A d \in D : own[d] \subseteq S
  BY DEF Units, On, At, PoolOf
<1>5. own \in [D -> SUBSET S]
  BY <1>4
<1>6. \A u \in S, d \in D : u \in own[d] <=> owner[u] = d
  <2> SUFFICES ASSUME NEW u \in S, NEW d \in D PROVE u \in own[d] <=> owner[u] = d
    OBVIOUS
  <2>1. d = <<d[1], d[2]>>
    OBVIOUS
  <2>2. u \in own[d] <=> u[1].order = d[1] /\ u[1].rung = d[2]
    BY <1>2 DEF Units, On, At
  <2>3. owner[u] = <<u[1].order, u[1].rung>>
    OBVIOUS
  <2>4. <<u[1].order, u[1].rung>> = <<d[1], d[2]>> <=> u[1].order = d[1] /\ u[1].rung = d[2]
    OBVIOUS
  <2> HIDE DEF owner, own
  <2> QED
    BY <2>1, <2>2, <2>3, <2>4, Zenon
<1>7. \A d \in D : h[d] = Cardinality(own[d])
  BY DEF Hours
<1>8. \A d \in D : h[d] \in 0..m
  <2> SUFFICES ASSUME NEW d \in D PROVE Cardinality(own[d]) \in 0..m
    BY <1>7
  <2>1. IsFiniteSet(own[d]) /\ Cardinality(own[d]) <= m
    BY <1>1, <1>4, FS_Subset
  <2>2. Cardinality(own[d]) \in Nat
    BY <2>1, FS_CardinalityType
  <2> HIDE DEF own, m
  <2> QED
    BY <1>1, <2>1, <2>2
<1>9. h \in [D -> 0..m]
  BY <1>8
<1>10. Cardinality(V) = Cardinality(S) /\ IsFiniteSet(V)
  <2> HIDE DEF S, D, owner, own, h, m
  <2> QED
    BY <1>1, <1>3, <1>5, <1>6, <1>7, <1>9, CountOwned
<1>11. \A d \in D : H[d[1]][d[2]] = h[d]
  BY ByRungIs
<1>12. \A x : x \in A <=> \E o \in Orders : \E r \in DOMAIN book[o].rungs :
                            /\ book[o].rungs[r].pool = p
                            /\ \E k \in 1..H[o][r] : x = <<o, r, k>>
  BY DEF Promise!AtPool
<1>13. \A v \in V : /\ v = <<v[1], v[2]>> /\ v[1] \in D /\ v[2] \in 1..m /\ v[2] <= h[v[1]]
                    /\ v[1] = <<v[1][1], v[1][2]>>
  <2>1. \A d \in D : d = <<d[1], d[2]>>
    OBVIOUS
  <2> HIDE DEF D, h, m
  <2>2. \A v \in V : v = <<v[1], v[2]>> /\ v[1] \in D /\ v[2] \in 1..m /\ v[2] <= h[v[1]]
    BY DEF CountBy
  <2> QED
    BY <2>1, <2>2
<1>14. \A d \in D : \A i \in 1..h[d] : <<d, i>> \in V
  <2> SUFFICES ASSUME NEW d \in D, NEW i \in 1..h[d] PROVE <<d, i>> \in V
    OBVIOUS
  <2>1. h[d] \in 0..m /\ m \in Nat
    BY <1>1, <1>8
  <2> HIDE DEF h, m, D
  <2>2. i \in 1..m /\ i <= h[d]
    BY <2>1
  <2> QED
    BY <2>2 DEF CountBy
<1>15. \A o \in Orders : \A r \in DOMAIN book[o].rungs :
         book[o].rungs[r].pool = p => <<o, r>> \in D
  BY RungContext
<1>16. \A v \in V : /\ v[1][1] \in Orders /\ v[1][2] \in DOMAIN book[v[1][1]].rungs
                    /\ book[v[1][1]].rungs[v[1][2]].pool = p
                    /\ v[2] \in 1..h[v[1]]
  <2> SUFFICES ASSUME NEW v \in V
               PROVE  /\ v[1][1] \in Orders /\ v[1][2] \in DOMAIN book[v[1][1]].rungs
                      /\ book[v[1][1]].rungs[v[1][2]].pool = p
                      /\ v[2] \in 1..h[v[1]]
    OBVIOUS
  <2>1. v[1] \in D /\ v[2] \in 1..m /\ v[2] <= h[v[1]]
    BY <1>13
  <2>2. h[v[1]] \in 0..m
    BY <1>8, <2>1
  <2>3. /\ v[1][1] \in Orders /\ v[1][2] \in DOMAIN book[v[1][1]].rungs
        /\ book[v[1][1]].rungs[v[1][2]].pool = p
    BY <2>1
  <2> HIDE DEF D, h, m, V
  <2> QED
    BY <1>1, <2>1, <2>2, <2>3
<1> HIDE DEF H, D, h, m, V, A
<1>17. f \in [V -> A]
  <2> SUFFICES ASSUME NEW v \in V PROVE <<v[1][1], v[1][2], v[2]>> \in A
    OBVIOUS
  <2> DEFINE o == v[1][1]
             r == v[1][2]
             k == v[2]
  <2>1. /\ o \in Orders /\ r \in DOMAIN book[o].rungs /\ book[o].rungs[r].pool = p
        /\ k \in 1..H[o][r]
    BY <1>11, <1>13, <1>16
  <2> HIDE DEF o, r, k
  <2>2. <<o, r, k>> \in A
    BY <2>1, <1>12
  <2> QED
    BY <2>2 DEF o, r, k
<1>18. \A v, w \in V : f[v] = f[w] => v = w
  BY <1>13
<1>19. ASSUME NEW x \in A PROVE \E v \in V : f[v] = x
  <2>1. PICK o \in Orders : \E r \in DOMAIN book[o].rungs :
                              /\ book[o].rungs[r].pool = p
                              /\ \E k \in 1..H[o][r] : x = <<o, r, k>>
    BY <1>12
  <2>2. PICK r \in DOMAIN book[o].rungs : /\ book[o].rungs[r].pool = p
                                          /\ \E k \in 1..H[o][r] : x = <<o, r, k>>
    BY <2>1
  <2>3. PICK k \in 1..H[o][r] : x = <<o, r, k>>
    BY <2>2
  <2>4. <<o, r>> \in D
    BY <1>15, <2>2
  <2>5. H[o][r] = h[<<o, r>>]
    BY <1>11, <2>4
  <2>6. <<<<o, r>>, k>> \in V
    BY <1>14, <2>3, <2>4, <2>5
  <2> QED
    BY <2>3, <2>6
<1>20. IsFiniteSet(V)
  BY <1>10
<1> HIDE DEF f
<1>21. Cardinality(A) = Cardinality(V)
  BY <1>17, <1>18, <1>19, <1>20, SameSize
<1>22. Cardinality(A) = Cardinality(S)
  BY <1>10, <1>21
<1> QED
  BY <1>22, SameSizes DEF A, H, Hours
-----------------------------------------------------------------------------
(* Every step of a clearing is a step of the promise, or none.             *)

\* A chunk that seeks adds to the hours that stand at its rung.
LEMMA SeekingStands ==
  ASSUME IInv, NEW c \in seeking
  PROVE  HoursByRung(Standing) # HoursByRung(placed)
<1> DEFINE o == c.order
           r == c.rung
<1>1. c \in Chunk /\ o \in Orders /\ r \in DOMAIN book[o].rungs
  BY DEF IInv, TypeOK, Chunk
<1>2. IsFiniteSet(On(placed, o, {r})) /\ IsFiniteSet(On(seeking, o, {r}))
  BY StandingFinite, FS_Subset DEF On, Standing
<1>3. Hours(On(Standing, o, {r})) = Hours(On(placed, o, {r})) + Hours(On(seeking, o, {r}))
  <2>1. On(Standing, o, {r}) = On(placed, o, {r}) \cup On(seeking, o, {r})
    BY DEF On, Standing
  <2>2. On(placed, o, {r}) \cap On(seeking, o, {r}) = {}
    BY DEF On, IInv, Apart
  <2> QED
    BY <1>2, <2>1, <2>2, HoursApart
<1>4. Hours(On(placed, o, {r})) \in Nat /\ Hours(On(seeking, o, {r})) \in Nat
  BY <1>2, UnitsFinite
<1>5. Hours({c}) <= Hours(On(seeking, o, {r}))
  <2>1. Units({c}) \subseteq Units(On(seeking, o, {r}))
    BY DEF Units, On
  <2>2. IsFiniteSet(Units(On(seeking, o, {r})))
    BY <1>2, UnitsFinite
  <2> QED
    BY <2>1, <2>2, FS_Subset DEF Hours
<1>6. Hours({c}) \in Nat /\ Hours({c}) >= 1
  BY <1>1, HoursOfOne, LadderAssumption DEF Chunk
<1> HIDE DEF o, r
<1>7. Hours(On(Standing, o, {r})) # Hours(On(placed, o, {r}))
  BY <1>3, <1>4, <1>5, <1>6
<1>8. HoursByRung(Standing)[o][r] # HoursByRung(placed)[o][r]
  BY <1>1, <1>7, ByRungIs
<1> QED
  BY <1>8

LEMMA PassIsPass ==
  ASSUME IInv, ClearPass
  PROVE  Promise!Pass
<1> DEFINE S0 == HoursByRung(Standing)
           H1 == HoursByRung(placed')
           S1 == HoursByRung(Standing')
           Stand(o, r) ==
             IF r \in Promise!Open(o) /\ Promise!RungAbove(o, r) # {}
             THEN LET q == CHOOSE s \in Promise!RungAbove(o, r) : TRUE
                  IN HoursByRung(placed)'[o][r] + HoursByRung(placed \cup seeking)[o][q]
                       - HoursByRung(placed)'[o][q]
             ELSE HoursByRung(placed)'[o][r]
<1>1. /\ IInv'
      /\ book' = book /\ view' = view /\ phase' = phase /\ fills' = fills
      /\ phase = "passing" /\ seeking # {}
      /\ placed' = Kept(OutcomeNow)
  BY PassInv, PassEffect DEF ClearPass
<1>2. /\ HoursByRung(placed)' = H1
      /\ HoursByRung(placed \cup seeking)' = S1
      /\ HoursByRung(fills)' = HoursByRung(fills)
      /\ HoursByRung(placed \cup seeking) = S0
  BY <1>1 DEF HoursByRung, Standing
<1>3. S0 # HoursByRung(placed)
  BY <1>1, SeekingStands
<1>4. ASSUME NEW o \in Orders, NEW r \in DOMAIN book[o].rungs
      PROVE  H1[o][r] \in 0..S0[o][r]
  <2>1. H1[o][r] = ServedOn(o, {r})
    BY ByRungIs, RungHours, ZenonT(60)
  <2>2. S0[o][r] = ServedOn(o, {r}) + Hours(On(Rest(OutcomeNow), o, {r}))
    BY ByRungIs, RungHours, ZenonT(60)
  <2>3. ServedOn(o, {r}) \in Nat /\ Hours(On(Rest(OutcomeNow), o, {r})) \in Nat
    BY RungHours
  <2> HIDE DEF H1, S0
  <2> QED
    BY <2>1, <2>2, <2>3
<1>5. ASSUME NEW p \in Pools
      PROVE  Promise!Cardinality(Promise!AtPool(H1, p)) =
               Promise!Least(Promise!Cardinality(Promise!AtPool(S0, p)), view[p].supply)
  <2>1. Promise!Cardinality(Promise!AtPool(S0, p)) = Hours(AskedAt(p))
    <3>1. IsFiniteSet(Standing) /\ Standing \subseteq Chunk
      BY StandingFinite DEF IInv, TypeOK, Standing
    <3>2. \A c \in Standing : c.rung \in DOMAIN book[c.order].rungs
      BY DEF IInv, TypeOK, Standing
    <3> QED
      BY <3>1, <3>2, PoolSum DEF AskedAt
  <2>2. Promise!Cardinality(Promise!AtPool(H1, p)) = HeldAt(p)'
    <3>1. IsFiniteSet(Standing)'
      BY <1>1, AlwaysFinite, PTL
    <3>2. IsFiniteSet(placed') /\ placed' \subseteq Chunk
      BY <1>1, <3>1, FS_Subset DEF IInv, TypeOK, Standing
    <3>3. \A c \in placed' : c.rung \in DOMAIN book[c.order].rungs
      BY <1>1 DEF IInv, TypeOK
    <3>4. Promise!Cardinality(Promise!AtPool(HoursByRung(Kept(OutcomeNow)), p)) =
            Hours(At(book, Kept(OutcomeNow), p))
      BY <1>1, <3>2, <3>3, PoolSum
    <3> QED
      BY <1>1, <3>4 DEF HeldAt
  <2>3. HeldAt(p)' = IF Hours(AskedAt(p)) <= view[p].supply
                     THEN Hours(AskedAt(p)) ELSE view[p].supply
    BY HeldAfterPassIs
  <2>4. Hours(AskedAt(p)) \in Nat /\ view[p].supply \in Nat
    BY HeldBounds
  <2> HIDE DEF H1, S0
  <2> QED
    BY <2>1, <2>2, <2>3, <2>4 DEF Promise!Least
<1>6. S1 = [o \in Orders |-> [r \in DOMAIN book[o].rungs |-> Stand(o, r)]]
  <2> SUFFICES ASSUME NEW o \in Orders, NEW r \in DOMAIN book[o].rungs
               PROVE  S1[o][r] = Stand(o, r)
    BY DEF HoursByRung
  <2>1. /\ S1[o][r] = Hours(On(Standing', o, {r}))
        /\ H1[o][r] = Hours(On(placed', o, {r}))
    BY ByRungIs
  <2>2. /\ Promise!Open(o) = OpenRungs(book[o], view, TRUE)
        /\ Promise!RungAbove(o, r) = Above(o, r)
    BY SameOpen
  <2>3. CASE r \in OpenRungs(book[o], view, TRUE) /\ Above(o, r) # {}
    <3> DEFINE q == CHOOSE s \in Above(o, r) : TRUE
    <3>1. q \in Above(o, r)
      BY <2>3
    <3>2. q \in DOMAIN book[o].rungs
      BY <3>1 DEF Above, OpenRungs
    <3>3. S1[o][r] = Hours(On(placed', o, {r})) + Hours(On(Standing, o, {q}))
                       - Hours(On(placed', o, {q}))
      BY <2>1, <2>3, StandMoves
    <3>4. Stand(o, r) = HoursByRung(placed)'[o][r] + HoursByRung(placed \cup seeking)[o][q]
                          - HoursByRung(placed)'[o][q]
      BY <2>2, <2>3
    <3> HIDE DEF q, Stand
    <3>5. S0[o][q] = Hours(On(Standing, o, {q})) /\ H1[o][q] = Hours(On(placed', o, {q}))
      BY <3>2, ByRungIs
    <3> HIDE DEF S0, H1, S1
    <3> QED
      BY <1>2, <2>1, <3>3, <3>4, <3>5
  <2>4. CASE ~(r \in OpenRungs(book[o], view, TRUE) /\ Above(o, r) # {})
    <3>1. S1[o][r] = Hours(On(placed', o, {r}))
      BY <2>1, <2>4, StandMoves
    <3>2. Stand(o, r) = HoursByRung(placed)'[o][r]
      BY <2>2, <2>4
    <3> HIDE DEF Stand, S0, H1, S1
    <3> QED
      BY <1>2, <2>1, <3>1, <3>2
  <2> QED
    BY <2>3, <2>4
<1> HIDE DEF S0, H1, S1
<1>7. ~(phase = "done") /\ (phase = "done")' = (phase = "done")
  BY <1>1
<1>8. HoursByRung(placed \cup seeking)' =
        LET Moved(o, r) ==
              IF r \in Promise!Open(o) /\ Promise!RungAbove(o, r) # {}
              THEN LET q == CHOOSE s \in Promise!RungAbove(o, r) : TRUE
                   IN HoursByRung(placed)'[o][r] + HoursByRung(placed \cup seeking)[o][q]
                        - HoursByRung(placed)'[o][q]
              ELSE HoursByRung(placed)'[o][r]
        IN Promise!ByRung(Moved)
  BY <1>2, <1>6 DEF Promise!ByRung, Stand
<1>9. HoursByRung(placed \cup seeking) # HoursByRung(placed)
  BY <1>2, <1>3
<1>10. \A o \in Orders : \A r \in DOMAIN book[o].rungs :
         HoursByRung(placed)'[o][r] \in 0..HoursByRung(placed \cup seeking)[o][r]
  BY <1>2, <1>4
<1>11. \A p \in Pools :
         Promise!Cardinality(Promise!AtPool(HoursByRung(placed)', p)) =
           Promise!Least(Promise!Cardinality(Promise!AtPool(HoursByRung(placed \cup seeking), p)),
                         view[p].supply)
  BY <1>2, <1>5
<1>12. UNCHANGED <<book, view, HoursByRung(fills), phase = "done">>
  BY <1>1, <1>2, <1>7
<1> QED
  BY <1>7, <1>8, <1>9, <1>10, <1>11, <1>12 DEF Promise!Pass

LEMMA InitIsInit == Init => Promise!Init
<1> SUFFICES ASSUME Init PROVE Promise!Init
  OBVIOUS
<1>1. IInv
  BY InitInv
<1>2. /\ book \in Books /\ view \in Views /\ phase = "passing" /\ fills = {}
      /\ placed = {} /\ Standing = seeking /\ seeking = FirstChunks(book, view, TRUE)
  BY DEF Init, Begins, Standing
<1>3. ASSUME NEW o \in Orders, NEW r \in DOMAIN book[o].rungs
      PROVE  Hours(On(Standing, o, {r})) =
               IF r \in Best(OpenRungs(book[o], view, TRUE)) THEN book[o].hours ELSE 0
  <2> DEFINE Made(q) == {[id |-> Cardinality(EnteredUpTo(book, q)), order |-> q, rung |-> x,
                          hours |-> book[q].hours] : x \in Best(OpenRungs(book[q], view, TRUE))}
             c == [id |-> Cardinality(EnteredUpTo(book, o)), order |-> o, rung |-> r,
                   hours |-> book[o].hours]
  <2>1. seeking = UNION {Made(q) : q \in Orders}
    BY <1>2 DEF FirstChunks
  <2>2. \A d \in seeking : d.order = o /\ d.rung = r =>
          d = c /\ r \in Best(OpenRungs(book[o], view, TRUE))
    <3> SUFFICES ASSUME NEW q \in Orders, NEW d \in Made(q), d.order = o, d.rung = r
                 PROVE  d = c /\ r \in Best(OpenRungs(book[o], view, TRUE))
      <4> HIDE DEF Made, c
      <4> QED
        BY <2>1
    <3>1. PICK x \in Best(OpenRungs(book[q], view, TRUE)) :
            d = [id |-> Cardinality(EnteredUpTo(book, q)), order |-> q, rung |-> x,
                 hours |-> book[q].hours]
      OBVIOUS
    <3>2. q = o /\ x = r
      BY <3>1
    <3> QED
      BY <3>1, <3>2
  <2>3. r \in Best(OpenRungs(book[o], view, TRUE)) => c \in seeking
    <3>1. r \in Best(OpenRungs(book[o], view, TRUE)) => c \in Made(o)
      OBVIOUS
    <3> HIDE DEF Made, c
    <3> QED
      BY <2>1, <3>1
  <2>4. c.order = o /\ c.rung = r /\ c.hours = book[o].hours
    OBVIOUS
  <2> HIDE DEF c, Made
  <2>5. CASE r \in Best(OpenRungs(book[o], view, TRUE))
    <3>1. c \in seeking /\ c \in Chunk
      BY <1>1, <2>3, <2>5 DEF IInv, TypeOK
    <3>2. On(Standing, o, {r}) = {c}
      BY <1>2, <2>2, <2>4, <3>1 DEF On
    <3> QED
      BY <2>4, <2>5, <3>1, <3>2, HoursOfOne
  <2>6. CASE r \notin Best(OpenRungs(book[o], view, TRUE))
    <3>1. On(Standing, o, {r}) = {}
      BY <1>2, <2>2, <2>6 DEF On
    <3>2. Units(On(Standing, o, {r})) = {}
      BY <3>1 DEF Units
    <3> QED
      BY <2>6, <3>2, FS_EmptySet DEF Hours
  <2> QED
    BY <2>5, <2>6
<1>4. \A o \in Orders : \A r \in DOMAIN book[o].rungs : HoursByRung({})[o][r] = 0
  <2> SUFFICES ASSUME NEW o \in Orders, NEW r \in DOMAIN book[o].rungs
               PROVE  HoursByRung({})[o][r] = 0
    OBVIOUS
  <2>1. Units(On({}, o, {r})) = {}
    BY DEF Units, On
  <2>2. Hours(On({}, o, {r})) = 0
    BY <2>1, FS_EmptySet DEF Hours
  <2> QED
    BY <2>2, ByRungIs
<1>5. HoursByRung(Standing) =
        [o \in Orders |-> [r \in DOMAIN book[o].rungs |->
           IF r \in Promise!Best(Promise!Open(o)) THEN book[o].hours ELSE 0]]
  <2>1. \A o \in Orders : \A r \in DOMAIN book[o].rungs :
          HoursByRung(Standing)[o][r] =
            IF r \in Promise!Best(Promise!Open(o)) THEN book[o].hours ELSE 0
    <3> SUFFICES ASSUME NEW o \in Orders, NEW r \in DOMAIN book[o].rungs
                 PROVE  HoursByRung(Standing)[o][r] =
                          IF r \in Promise!Best(Promise!Open(o)) THEN book[o].hours ELSE 0
      OBVIOUS
    <3>1. HoursByRung(Standing)[o][r] = Hours(On(Standing, o, {r}))
      BY ByRungIs
    <3>2. Promise!Best(Promise!Open(o)) = Best(OpenRungs(book[o], view, TRUE))
      BY SameOpen
    <3> QED
      BY <1>3, <3>1, <3>2
  <2> QED
    BY <2>1 DEF HoursByRung
<1>6. HoursByRung({}) = [o \in Orders |-> [r \in DOMAIN book[o].rungs |-> 0]]
  BY <1>4 DEF HoursByRung
<1> QED
  BY <1>2, <1>5, <1>6 DEF Promise!Init, Promise!ByRung, Standing

\* A fill is a placed chunk, with what it pays: as many hours are sold as are held.
LEMMA FillsAreHeld ==
  ASSUME IInv, \A c \in placed : Payable(c), NEW o, NEW r
  PROVE  Hours(On({FillOf(c) : c \in {d \in placed : Payable(d)}}, o, {r})) =
           Hours(On(placed, o, {r}))
<1> DEFINE F == {FillOf(c) : c \in {d \in placed : Payable(d)}}
           D == On(placed, o, {r})
           E == On(F, o, {r})
           name == [c \in D |-> FillOf(c)]
           h == [c \in D |-> c.hours]
           k == [e \in E |-> e.hours]
<1>1. IsFiniteSet(D)
  BY StandingFinite, FS_Subset DEF On, Standing
<1>2. \A c \in placed : /\ FillOf(c).id = c.id /\ FillOf(c).order = c.order
                        /\ FillOf(c).rung = c.rung /\ FillOf(c).hours = c.hours
  BY DEF FillOf
<1>3. \A c \in D : c \in placed /\ FillOf(c) \in E
  BY <1>2 DEF On
<1>4. \A e \in E : \E c \in D : FillOf(c) = e
  <2> SUFFICES ASSUME NEW e \in E PROVE \E c \in D : FillOf(c) = e
    OBVIOUS
  <2>1. PICK c \in placed : e = FillOf(c)
    BY DEF On
  <2>2. c.order = o /\ c.rung = r
    BY <1>2, <2>1 DEF On
  <2> QED
    BY <2>1, <2>2 DEF On
<1>5. \A c, d \in D : FillOf(c) = FillOf(d) => c = d
  <2>1. \A c, d \in placed : c.id = d.id => c = d
    BY DEF IInv, IdsDistinct, Standing
  <2> SUFFICES ASSUME NEW c \in D, NEW d \in D, FillOf(c) = FillOf(d) PROVE c = d
    OBVIOUS
  <2>2. c \in placed /\ d \in placed
    BY <1>3
  <2>3. c.id = d.id
    BY <1>2, <2>2
  <2> QED
    BY <2>1, <2>2, <2>3
<1> HIDE DEF D, E
<1>6. /\ name \in [D -> E]
      /\ \A c, d \in D : name[c] = name[d] => c = d
      /\ \A e \in E : \E d \in D : name[d] = e
      /\ \A d \in D : k[name[d]] = h[d]
  BY <1>2, <1>3, <1>4, <1>5
<1> HIDE DEF name, h, k
<1>7. Cardinality(CountBy(E, k, MaxHours)) = Cardinality(CountBy(D, h, MaxHours))
  BY <1>1, <1>6, CountRenamed, LadderAssumption
<1>8. Hours(E) = Hours(D)
  BY <1>7, UnitsAreCounted DEF Hours, h, k
<1> QED
  BY <1>8 DEF D, E

LEMMA SettleIsReturn ==
  ASSUME IInv, PriceInv, Settle
  PROVE  Promise!Return
<1>1. /\ UNCHANGED <<book, view, placed, seeking>>
      /\ phase = "passing" /\ phase' = "done"
      /\ fills' = {FillOf(c) : c \in {d \in placed : Payable(d)}}
  BY DEF Settle
<1>2. \A c \in placed : Payable(c)
  BY PayIs
<1>3. HoursByRung(fills') = HoursByRung(placed)
  <2>1. \A o \in Orders : \A r \in DOMAIN book[o].rungs :
          HoursByRung(fills')[o][r] = HoursByRung(placed)[o][r]
    <3> SUFFICES ASSUME NEW o \in Orders, NEW r \in DOMAIN book[o].rungs
                 PROVE  HoursByRung(fills')[o][r] = HoursByRung(placed)[o][r]
      OBVIOUS
    <3>1. /\ HoursByRung(fills')[o][r] = Hours(On(fills', o, {r}))
          /\ HoursByRung(placed)[o][r] = Hours(On(placed, o, {r}))
      BY ByRungIs
    <3>2. Hours(On(fills', o, {r})) = Hours(On(placed, o, {r}))
      BY <1>1, <1>2, FillsAreHeld
    <3> QED
      BY <3>1, <3>2
  <2> QED
    BY <2>1 DEF HoursByRung
<1>4. /\ HoursByRung(fills)' = HoursByRung(placed)
      /\ HoursByRung(placed)' = HoursByRung(placed)
      /\ HoursByRung(placed \cup seeking)' = HoursByRung(placed \cup seeking)
  BY <1>1, <1>3 DEF HoursByRung
<1>5. ~(phase = "done") /\ (phase = "done")' = TRUE
  BY <1>1
<1> QED
  BY <1>1, <1>4, <1>5 DEF Promise!Return

\* A block is renter-proposing deferred acceptance by hours, as a real-time
\* round is: clear_day_ahead serves hours over the cap at a price that it makes in
\* the same pass, and yet leaves none idle that was bid for, loses none and makes none.
THEOREM BlocksKeepThePromise == Spec => KeepsItsPromise
<1>1. Init => Promise!Init
  BY InitIsInit
<1>2. IInv /\ PriceInv /\ [Next]_clearingVars => [Promise!Next]_(Promise!vars)
  <2> SUFFICES ASSUME IInv, PriceInv, [Next]_clearingVars
               PROVE  [Promise!Next]_(Promise!vars)
    OBVIOUS
  <2>1. CASE ClearPass
    BY <2>1, PassIsPass DEF Promise!Next
  <2>2. CASE Settle
    BY <2>2, SettleIsReturn DEF Promise!Next
  <2>3. CASE UNCHANGED clearingVars
    BY <2>3 DEF clearingVars, Promise!vars, HoursByRung
  <2> QED
    BY <2>1, <2>2, <2>3 DEF Next
<1> QED
  BY <1>1, <1>2, Invariant, PriceInvariant, PTL DEF Spec, KeepsItsPromise, Promise!Spec

-----------------------------------------------------------------------------
(* A pool that turned an hour away is full, and what it holds is fair.     *)

\* A pool that is not asked for more than it has turns nobody away.
LEMMA RoomForAll ==
  ASSUME IInv, ClearPass, NEW p \in Pools, Hours(AskedAt(p)) <= view[p].supply
  PROVE  \A k \in Rest(OutcomeNow) : PoolOf(book, k) # p
<1> DEFINE D == AskedAt(p)
           E == PartsOf(Rest(OutcomeNow), D)
<1>1. D \subseteq Standing /\ \A c \in D : PoolOf(book, c) = p
  BY DEF AskedAt, At
<1>2. Hours(D) = Cardinality(Chosen(D, p)) /\ Hours(D) \in Nat
  BY <1>1, ChosenCount, HeldBounds
<1>3. IsFiniteSet(E) /\ IsFiniteSet(Units(E)) /\ Hours(E) \in Nat
  <2>1. IsFiniteSet(E)
    BY RestChunks, FS_Subset DEF PartsOf
  <2> QED
    BY <2>1, UnitsFinite
<1>4. Hours(D) = Cardinality(Chosen(D, p)) + Hours(E)
  BY <1>1, RestHours, ServedAtPool
<1>5. Hours(E) = 0
  <2> HIDE DEF D, E
  <2> QED
    BY <1>2, <1>3, <1>4
<1>6. Units(E) = {}
  BY <1>3, <1>5, FS_EmptySet DEF Hours
<1>7. ASSUME NEW k \in Rest(OutcomeNow), PoolOf(book, k) = p
      PROVE  FALSE
  <2>1. PICK c \in Standing : k.id = c.id /\ k.order = c.order /\ k.rung = c.rung
    BY RestChunks
  <2>2. c \in D
    BY <1>7, <2>1 DEF AskedAt, At, PoolOf
  <2>3. k \in E
    BY <2>1, <2>2 DEF PartsOf
  <2>4. k.hours \in 1..MaxHours
    BY RestChunks DEF Chunk
  <2>5. 1 \in 1..MaxHours /\ 1 <= k.hours
    BY <2>4, LadderAssumption
  <2>6. <<k, 1>> \in Units(E)
    <3> HIDE DEF E
    <3> QED
      BY <2>3, <2>5 DEF Units
  <2> QED
    BY <2>6, <1>6
<1> QED
  BY <1>7

\* On the ladder of an order, rungs are numbers and some open rung below is next.
LEMMA NextOpen ==
  ASSUME IInv, NEW o \in Orders, NEW q, NEW r \in OpenRungs(book[o], view, TRUE), q < r,
         q \in Nat
  PROVE  \E s \in Best(RungsBelow(book[o], q, view, TRUE)) : s \in Nat /\ s <= r /\ q < s
<1> DEFINE below == RungsBelow(book[o], q, view, TRUE)
<1>1. OpenRungs(book[o], view, TRUE) \subseteq Nat
  BY OpenContext
<1>2. below \subseteq Nat /\ r \in below
  BY <1>1 DEF RungsBelow
<1>3. PICK s \in below : \A x \in below : s <= x
  <2> HIDE DEF below
  <2> QED
    BY <1>2, LeastOf
<1>4. s \in Best(below)
  BY <1>3 DEF Best
<1>5. s \in Nat /\ s <= r /\ q < s
  BY <1>2, <1>3 DEF RungsBelow
<1> QED
  BY <1>4, <1>5

UpTo(r) == {q \in Nat : q <= r}

DownTo(o, r) == Hours(On(Standing, o, UpTo(r)))

DownToAgrees == \A o \in Orders : \A r \in Nat : HoursDownTo(o, r) = DownTo(o, r)

LEMMA DownToIs == IInv => DownToAgrees
<1> SUFFICES ASSUME IInv, NEW o \in Orders, NEW r \in Nat
             PROVE  HoursDownTo(o, r) = DownTo(o, r)
  BY DEF DownToAgrees
<1>1. \A c \in Standing : c.rung \in Nat
  BY DEF IInv, TypeOK, Standing, Chunk
<1>2. {c \in OfOrder(placed \cup seeking, o) : c.rung <= r} = On(Standing, o, UpTo(r))
  BY <1>1 DEF OfOrder, On, UpTo, Standing
<1> QED
  BY <1>2 DEF HoursDownTo, DownTo

\* Hours leave the rungs down to an open rung r by r alone.
LEMMA DownToStays ==
  ASSUME IInv, ClearPass, NEW o \in Orders, NEW r \in OpenRungs(book[o], view, TRUE),
         \A k \in Rest(OutcomeNow) : k.order = o => k.rung # r
  PROVE  DownTo(o, r)' = DownTo(o, r)
<1> DEFINE p == book[o].rungs[r].pool
           R == UpTo(r)
<1>2. r \in Nat /\ p \in Pools
  BY OpenContext
<1>3. \A k \in Rest(OutcomeNow) : k.order = o => k.rung # r
  OBVIOUS
<1>4. \A k \in Rest(OutcomeNow) : k.rung \in Nat
  BY RestChunks DEF Chunk
<1>5. ASSUME NEW k \in Rest(OutcomeNow), k.order = o
      PROVE  k.rung \in R <=> \E s \in R : s \in Best(RungsBelow(book[o], k.rung, view, TRUE))
  <2>1. ASSUME k.rung \in R
        PROVE  \E s \in R : s \in Best(RungsBelow(book[o], k.rung, view, TRUE))
    <3>1. k.rung < r
      BY <2>1, <1>2, <1>3, <1>4, <1>5 DEF UpTo
    <3> QED
      BY <3>1, <1>4, NextOpen DEF UpTo
  <2>2. ASSUME NEW s \in R, s \in Best(RungsBelow(book[o], k.rung, view, TRUE))
        PROVE  k.rung \in R
    <3>1. s > k.rung /\ s \in Nat /\ s <= r
      BY <2>2 DEF Best, RungsBelow, UpTo
    <3> QED
      BY <3>1, <1>2, <1>4 DEF UpTo
  <2> QED
    BY <2>1, <2>2
<1>6. On(Rest(OutcomeNow), o, R) = ComingTo(o, R)
  BY <1>5 DEF On, ComingTo
<1> HIDE DEF R
<1>7. Hours(On(Standing', o, R)) = Hours(On(Standing, o, R))
  BY <1>6, RungHours
<1> QED
  BY <1>7 DEF R, DownTo

\* A pool that turned an hour away is full from then on.
FullOnceRefusing ==
  \A o \in Orders : \A r \in DOMAIN book[o].rungs :
    TurnedAway(o, r) => HeldAt(book[o].rungs[r].pool) = view[book[o].rungs[r].pool].supply

LEMMA BeginFull == Begun => FullOnceRefusing
<1> SUFFICES ASSUME Begun, IInv, NEW o \in Orders, NEW r \in DOMAIN book[o].rungs,
                    TurnedAway(o, r)
             PROVE  FALSE
  BY BeginInv DEF FullOnceRefusing
<1>1. book[o] \in Order
  BY DEF IInv, TypeOK
<1>2. OpenRungs(book[o], view, TRUE) \subseteq Nat
  BY OpenContext
<1>3. r \in OpenRungs(book[o], view, TRUE)
  BY DEF TurnedAway
<1>4. PICK s \in OpenRungs(book[o], view, TRUE) :
        \A x \in OpenRungs(book[o], view, TRUE) : s <= x
  BY <1>2, <1>3, LeastOf
<1> DEFINE c == [id |-> Cardinality(EnteredUpTo(book, o)), order |-> o, rung |-> s,
                 hours |-> book[o].hours]
<1>5. s \in Best(OpenRungs(book[o], view, TRUE))
  BY <1>4 DEF Best
<1>6. c \in seeking
  <2> DEFINE Made(q) == {[id |-> Cardinality(EnteredUpTo(book, q)), order |-> q, rung |-> x,
                          hours |-> book[q].hours] : x \in Best(OpenRungs(book[q], view, TRUE))}
  <2>1. c \in Made(o)
    BY <1>5
  <2>2. seeking = UNION {Made(q) : q \in Orders}
    BY DEF Begun, Begins, FirstChunks
  <2> HIDE DEF Made, c
  <2> QED
    BY <2>1, <2>2
<1>7. c \in Chunk /\ c \in Standing /\ c.order = o /\ c.rung = s /\ c.hours = book[o].hours
  BY <1>6 DEF IInv, TypeOK, Standing
<1> HIDE DEF c
<1>8. s \in UpTo(r)
  BY <1>2, <1>3, <1>4 DEF UpTo
<1>9. {c} \subseteq On(Standing, o, UpTo(r))
  BY <1>7, <1>8 DEF On
<1>10. Hours({c}) <= DownTo(o, r)
  <2>1. On(Standing, o, UpTo(r)) \subseteq Standing
    BY DEF On
  <2>2. IsFiniteSet(Units(On(Standing, o, UpTo(r))))
    BY <2>1, StandingFinite, FS_Subset, UnitsFinite
  <2>3. Units({c}) \subseteq Units(On(Standing, o, UpTo(r)))
    BY <1>9 DEF Units
  <2> QED
    BY <2>2, <2>3, FS_Subset DEF Hours, DownTo
<1>11. Hours({c}) = book[o].hours
  BY <1>7, HoursOfOne
<1>12. HoursDownTo(o, r) = DownTo(o, r)
  BY <1>2, <1>3, DownToIs DEF DownToAgrees
<1>13. book[o].hours \in Nat /\ DownTo(o, r) \in Nat
  <2>1. On(Standing, o, UpTo(r)) \subseteq Standing
    BY DEF On
  <2>2. DownTo(o, r) \in Nat
    BY <2>1, StandingFinite, FS_Subset, UnitsFinite DEF DownTo
  <2> QED
    BY <2>2, <1>1, LadderAssumption DEF Order
<1> QED
  BY <1>10, <1>11, <1>12, <1>13 DEF TurnedAway

LEMMA NextFull == IInv /\ FullOnceRefusing /\ [Next]_clearingVars => FullOnceRefusing'
<1> SUFFICES ASSUME IInv, FullOnceRefusing, [Next]_clearingVars
             PROVE  FullOnceRefusing'
  OBVIOUS
<1>1. CASE ClearPass
  <2>1. book' = book /\ view' = view /\ IInv'
    BY <1>1, PassInv DEF ClearPass
  <2>2. IInv'
    BY <2>1
  <2>3. DownToAgrees' /\ DownToAgrees
    BY <2>2, DownToIs, PTL
  <2> SUFFICES ASSUME NEW o \in Orders, NEW r \in DOMAIN book[o].rungs, NEW p \in Pools,
                      TurnedAway(o, r)', p = book[o].rungs[r].pool
               PROVE  HeldAt(p)' = view[p].supply
    <3>1. \A o \in Orders : \A r \in DOMAIN book[o].rungs : book[o].rungs[r].pool \in Pools
      BY RungContext
    <3> QED
      BY <2>1, <3>1 DEF FullOnceRefusing, HeldAt
  <2>4. r \in OpenRungs(book[o], view, TRUE) /\ r \in Nat
    BY <2>1, RungContext DEF TurnedAway, OpenRungs, Affordable
  <2>5. HoursDownTo(o, r)' = DownTo(o, r)' /\ HoursDownTo(o, r) = DownTo(o, r)
    BY <2>3, <2>4 DEF DownToAgrees
  <2>6. HoursDownTo(o, r)' < book[o].hours
    BY <2>1 DEF TurnedAway
  <2>7. CASE Hours(AskedAt(p)) <= view[p].supply
    <3>1. \A k \in Rest(OutcomeNow) : k.order = o => k.rung # r
      BY <1>1, <2>7, RoomForAll DEF PoolOf
    <3>2. HoursDownTo(o, r) < book[o].hours
      BY <1>1, <2>4, <2>5, <2>6, <3>1, DownToStays
    <3>3. TurnedAway(o, r)
      BY <3>2, <2>4 DEF TurnedAway
    <3>4. HeldAt(p) = view[p].supply
      BY <3>3 DEF FullOnceRefusing
    <3> QED
      BY <1>1, <3>4, HeldAfterPassIs, HeldBounds
  <2>8. CASE ~(Hours(AskedAt(p)) <= view[p].supply)
    BY <1>1, <2>8, HeldAfterPassIs
  <2> QED
    BY <2>7, <2>8
<1>2. CASE Settle \/ UNCHANGED clearingVars
  <2>1. UNCHANGED <<book, view, placed, seeking>>
    BY <1>2 DEF Settle, clearingVars
  <2>2. \A o, r : /\ TurnedAway(o, r)' = TurnedAway(o, r)
                  /\ HeldAt(book[o].rungs[r].pool)' = HeldAt(book[o].rungs[r].pool)
    BY <2>1 DEF TurnedAway, HoursDownTo, OpenRungs, Affordable, HeldAt, At, PoolOf
  <2> QED
    BY <2>1, <2>2 DEF FullOnceRefusing
<1> QED
  BY <1>1, <1>2 DEF Next

-----------------------------------------------------------------------------
(* A pool chooses among the hours that ask for it by rank, in two bands:   *)
(* the choice of the common facts, whose owners are the organisations.     *)

HourOrg == [u \in Chunk \X (1..MaxHours) |-> OrgOf(u[1])]

HourRank(U) == [u \in U |-> {v \in U : HourBefore(v, u)}]

Share(p) == CapHours(view[p])

FirstHours(U, p) == FirstBand(U, HourOrg, HourRank(U), Share(p))

ChosenHours(U, p) == ChosenOf(U, FirstHours(U, p), HourRank(U), view[p].supply)

Rankable(C) ==
  /\ C \subseteq Chunk
  /\ \A c \in C : /\ Bid(c) \in Nat
                  /\ book[c.order].tier \in Int
                  /\ book[c.order].lottery \in Nat
  /\ \A c, d \in C : c.id = d.id => c = d

LEMMA StandingRankable ==
  ASSUME IInv, NEW C, C \subseteq Standing
  PROVE  Rankable(C)
<1>1. \A c \in C : /\ c \in Chunk
                   /\ Bid(c) \in Nat
                   /\ book[c.order].tier \in Int
                   /\ book[c.order].lottery \in Nat
  BY BidNat, ChunkContext DEF IInv, Order
<1> QED
  BY <1>1 DEF Rankable, IInv, IdsDistinct

LEMMA ShareNat ==
  ASSUME IInv, NEW p \in Pools
  PROVE  Share(p) \in Nat /\ view[p].supply \in Nat
<1>1. view[p].supply \in Nat
  BY DEF IInv, TypeOK, PoolView
<1>2. ShareNum * view[p].supply \in Nat
  BY <1>1, LadderAssumption
<1> QED
  BY <1>1, <1>2, DivNat, LadderAssumption DEF Share, CapHours

LEMMA UnitForm ==
  ASSUME NEW C, C \subseteq Chunk, NEW u \in Units(C)
  PROVE  /\ u = <<u[1], u[2]>> /\ u[1] \in C /\ u[2] \in 1..MaxHours
         /\ u[2] \in Nat /\ u[2] <= u[1].hours
         /\ u[1] \in Chunk /\ u[1].order \in Nat /\ u[1].id \in Nat
         /\ HourOrg[u] = OrgOf(u[1])
<1>1. u = <<u[1], u[2]>> /\ u[1] \in C /\ u[2] \in 1..MaxHours /\ u[2] <= u[1].hours
  BY DEF Units
<1>2. u[1] \in Chunk /\ u[1].order \in Nat /\ u[1].id \in Nat
  BY <1>1, LadderAssumption DEF Chunk
<1>3. u \in Chunk \X (1..MaxHours)
  BY <1>1, <1>2
<1>4. u[2] \in Nat
  BY <1>1, LadderAssumption
<1> QED
  BY <1>1, <1>2, <1>3, <1>4 DEF HourOrg

LEMMA RankableStrict ==
  ASSUME NEW C, Rankable(C)
  PROVE  StrictOrderBy(Units(C), HourRank(Units(C)))
<1> DEFINE U == Units(C)
<1>1. \A c \in C : /\ Bid(c) \in Nat /\ book[c.order].tier \in Int
                   /\ book[c.order].lottery \in Nat
                   /\ c.order \in Nat /\ c.id \in Nat
  BY LadderAssumption DEF Rankable, Chunk
<1>2. \A c \in C : ~Outranks(c, c)
  BY <1>1 DEF Outranks
<1>3. \A c, d \in C : c = d \/ Outranks(c, d) \/ Outranks(d, c)
  BY <1>1 DEF Outranks, Rankable
<1>4. \A c, d, e \in C : Outranks(c, d) /\ Outranks(d, e) => Outranks(c, e)
  BY <1>1 DEF Outranks
<1>5. \A u \in U : u = <<u[1], u[2]>> /\ u[1] \in C /\ u[2] \in Nat
  BY UnitForm DEF Rankable
<1> HIDE DEF U
<1>6. \A u \in U : ~HourBefore(u, u)
  BY <1>2, <1>5 DEF HourBefore
<1>7. \A u, v \in U : u = v \/ HourBefore(u, v) \/ HourBefore(v, u)
  <2> SUFFICES ASSUME NEW u \in U, NEW v \in U
               PROVE  u = v \/ HourBefore(u, v) \/ HourBefore(v, u)
    OBVIOUS
  <2>1. CASE u[1] = v[1]
    BY <2>1, <1>5 DEF HourBefore
  <2>2. CASE u[1] # v[1]
    BY <2>2, <1>3, <1>5 DEF HourBefore
  <2> QED
    BY <2>1, <2>2
<1>8. \A u, v, w \in U : HourBefore(u, v) /\ HourBefore(v, w) => HourBefore(u, w)
  BY <1>4, <1>5 DEF HourBefore
<1>9. StrictOrderBy(U, HourRank(U))
  BY <1>6, <1>7, <1>8 DEF StrictOrderBy, HourRank
<1> QED
  BY <1>9 DEF U

\* In a pool asked for more than it has, band 0 is the first band.
LEMMA BandsAre ==
  ASSUME IInv, NEW p \in Pools, NEW C, C \subseteq Chunk, IsFiniteSet(C),
         Cardinality(Units(C)) > view[p].supply, NEW u \in Units(C)
  PROVE  Band(u, Units(C), p) = 0 <=> u \in FirstHours(Units(C), p)
<1> DEFINE U == Units(C)
           sooner == {v \in U : OrgOf(v[1]) = OrgOf(u[1]) /\ HourBefore(v, u)}
<1>1. sooner = Own(HourRank(U)[u], HourOrg, HourOrg[u])
  <2>1. \A v \in U : HourOrg[v] = OrgOf(v[1])
    BY UnitForm
  <2>2. HourRank(U)[u] = {v \in U : HourBefore(v, u)}
    BY DEF HourRank
  <2> QED
    BY <2>1, <2>2 DEF Own
<1>2. Cardinality(sooner) \in Nat
  <2>1. sooner \subseteq U
    OBVIOUS
  <2> QED
    BY <2>1, UnitsFinite, FS_Subset, FS_CardinalityType
<1>3. Band(u, U, p) = IF Cardinality(sooner) >= Share(p) THEN 1 ELSE 0
  BY DEF Band, Share
<1>4. u \in FirstHours(U, p) <=> Cardinality(sooner) < Share(p)
  BY <1>1 DEF FirstHours, FirstBand
<1>5. Share(p) \in Nat
  BY ShareNat
<1> HIDE DEF sooner, U
<1>6. Band(u, U, p) = 0 <=> u \in FirstHours(U, p)
  BY <1>2, <1>3, <1>4, <1>5
<1> QED
  BY <1>6 DEF U

HourOf(s) == <<s.chunk, s.hour>>

LEMMA SlicesAreHours ==
  ASSUME IInv, NEW p \in Pools, NEW C, C \subseteq Chunk
  PROVE  /\ \A s \in Slices(C, p) : /\ HourOf(s) \in Units(C)
                                    /\ s.band = Band(HourOf(s), Units(C), p)
                                    /\ s.chunk \in C
         /\ \A s, t \in Slices(C, p) : HourOf(s) = HourOf(t) => s = t
         /\ \A u \in Units(C) : \E s \in Slices(C, p) : HourOf(s) = u
<1> DEFINE Cut(u) == [chunk |-> u[1], hour |-> u[2], band |-> Band(u, Units(C), p)]
<1>1. \A u \in Units(C) : u = <<u[1], u[2]>> /\ u[1] \in C
  BY UnitForm
<1>2. Slices(C, p) = {Cut(u) : u \in Units(C)}
  BY DEF Slices
<1>3. \A u \in Units(C) : HourOf(Cut(u)) = u /\ Cut(u).band = Band(u, Units(C), p)
                          /\ Cut(u).chunk = u[1]
  BY <1>1 DEF HourOf
<1> HIDE DEF Cut
<1>4. \A s \in Slices(C, p) : s = Cut(HourOf(s)) /\ HourOf(s) \in Units(C)
  BY <1>2, <1>3
<1> QED
  BY <1>1, <1>2, <1>3, <1>4

LEMMA HoursOfSlices ==
  ASSUME IInv, NEW p \in Pools, NEW C, C \subseteq Chunk, IsFiniteSet(C)
  PROVE  /\ IsFiniteSet(Slices(C, p)) /\ Cardinality(Slices(C, p)) = Cardinality(Units(C))
         /\ IsFiniteSet(Units(C)) /\ Cardinality(Units(C)) \in Nat
<1> DEFINE U == Units(C)
           S == Slices(C, p)
           hour == [s \in S |-> HourOf(s)]
<1>1. IsFiniteSet(U) /\ Cardinality(U) \in Nat
  BY UnitsFinite, FS_CardinalityType
<1>2. hour \in [S -> U]
  BY SlicesAreHours
<1>3. hour \in Injection(S, U)
  BY <1>2, SlicesAreHours, Fun_IsInj
<1>4. hour \in Surjection(S, U)
  BY <1>2, SlicesAreHours, Fun_IsSurj
<1>5. IsFiniteSet(S) /\ Cardinality(S) = Cardinality(U)
  <2> HIDE DEF S, U, hour
  <2> QED
    BY <1>1, <1>3, <1>4, FS_Injection
<1> QED
  BY <1>1, <1>5

\* The price of the hours in the cap only keeps hours over the cap out of a pool
\* that is full without them, so a pool serves the first hours of both bands.
LEMMA TwoBands ==
  ASSUME IInv, NEW p \in Pools, NEW C, Rankable(C), IsFiniteSet(C),
         \A c \in C : Bid(c) >= view[p].reserve
  PROVE  Chosen(C, p) = {s \in Slices(C, p) :
                           Cardinality({t \in Slices(C, p) : Ahead(t, s)}) < view[p].supply}
<1> DEFINE S == Slices(C, p)
           I == InCapSlices(C, p)
           K == view[p].supply
           U == UniformPrice(S, p)
           some == {s \in S : s.band = 0 \/ Bid(s.chunk) >= U}
           before(X, s) == {t \in X : Ahead(t, s)}
<1>1. C \subseteq Chunk /\ K \in Nat /\ view[p].reserve \in Nat
  BY ShareNat DEF Rankable, IInv, TypeOK, PoolView
<1>2. IsFiniteSet(S)
  BY <1>1, HoursOfSlices
<1>3. \A s \in S : s.band \in {0, 1} /\ s.chunk \in C /\ ~Ahead(s, s)
  <2> SUFFICES ASSUME NEW s \in S PROVE s.band \in {0, 1} /\ s.chunk \in C /\ ~Ahead(s, s)
    OBVIOUS
  <2>1. /\ HourOf(s) \in Units(C) /\ s.band = Band(HourOf(s), Units(C), p)
        /\ s.chunk \in C
    BY <1>1, SlicesAreHours
  <2>2. ~HourBefore(HourOf(s), HourOf(s))
    BY <2>1, RankableStrict DEF StrictOrderBy, HourRank
  <2>3. s.band \in {0, 1}
    BY <2>1 DEF Band
  <2> QED
    BY <2>1, <2>2, <2>3 DEF Ahead, HourOf
<1>4. \A X \in SUBSET S : IsFiniteSet(X) /\ Cardinality(X) \in Nat
  BY <1>2, FS_Subset, FS_CardinalityType
<1>5. I \in SUBSET S /\ some \in SUBSET S /\ I \subseteq some
  BY DEF InCapSlices
<1>6. Chosen(C, p) = Served(some, p)
  BY DEF Chosen, Accepted
<1>7. CASE Cardinality(I) <= K
  <2>1. ASSUME NEW s \in I PROVE s \in Served(I, p)
    <3>1. before(I, s) \subseteq I /\ s \notin before(I, s)
      BY <1>3, <1>5
    <3>2. Cardinality(before(I, s)) <= Cardinality(I) /\ Cardinality(before(I, s)) # Cardinality(I)
      BY <1>4, <1>5, <3>1, FS_Subset
    <3>3. Cardinality(before(I, s)) \in Nat /\ Cardinality(I) \in Nat
      BY <1>4, <1>5, <3>1
    <3>4. Cardinality(before(I, s)) < K
      BY <1>1, <1>7, <3>2, <3>3
    <3> QED
      BY <3>4 DEF Served
  <2>2. I \ Served(I, p) = {}
    BY <2>1
  <2>3. U = CHOOSE b \in {view[p].reserve} : \A x \in {view[p].reserve} : b >= x
    <3>1. {view[p].reserve} \cup {Bid(s.chunk) : s \in I \ Served(I, p)} = {view[p].reserve}
      BY <2>2
    <3>2. U = LET bids == {view[p].reserve} \cup {Bid(s.chunk) : s \in I \ Served(I, p)}
              IN CHOOSE b \in bids : \A x \in bids : b >= x
      BY DEF UniformPrice, InCapSlices
    <3> QED
      BY <3>1, <3>2
  <2>4. U = view[p].reserve
    BY <1>1, <2>3
  <2>5. some = S
    BY <1>3, <2>4
  <2> QED
    BY <1>6, <2>5 DEF Served
<1>8. CASE ~(Cardinality(I) <= K)
  <2>1. ASSUME NEW s \in S, s.band = 0 PROVE s \in some /\ before(some, s) = before(S, s)
    BY <1>3, <2>1 DEF Ahead
  <2>2. ASSUME NEW s \in S, s.band = 1
        PROVE  /\ ~(Cardinality(before(some, s)) < K)
               /\ ~(Cardinality(before(S, s)) < K)
    <3>1. I \subseteq before(some, s) /\ I \subseteq before(S, s)
      BY <1>5, <2>2 DEF InCapSlices, Ahead
    <3>2. before(some, s) \in SUBSET S /\ before(S, s) \in SUBSET S
      BY <1>5
    <3> HIDE DEF I, some, S, before
    <3>3. /\ Cardinality(I) <= Cardinality(before(some, s))
          /\ Cardinality(I) <= Cardinality(before(S, s))
      BY <1>4, <3>1, <3>2, FS_Subset
    <3>4. /\ Cardinality(I) \in Nat /\ Cardinality(before(some, s)) \in Nat
          /\ Cardinality(before(S, s)) \in Nat
      BY <1>4, <1>5, <3>2
    <3> QED
      BY <1>1, <1>8, <3>3, <3>4
  <2>3. Served(some, p) = {s \in some : Cardinality(before(some, s)) < K}
    BY DEF Served
  <2>4. \A s \in S : s.band = 0 \/ s.band = 1
    BY <1>3
  <2>5. Served(some, p) = {s \in S : Cardinality(before(S, s)) < K}
    <3> HIDE DEF some, S, K
    <3> QED
      BY <1>5, <2>1, <2>2, <2>3, <2>4
  <2> QED
    BY <1>6, <2>5
<1> QED
  BY <1>7, <1>8

\* Slices are served when their hours are chosen.
LEMMA ChosenAre ==
  ASSUME IInv, NEW p \in Pools, NEW C, Rankable(C), IsFiniteSet(C),
         \A c \in C : Bid(c) >= view[p].reserve
  PROVE  \A s \in Slices(C, p) :
           s \in Chosen(C, p) <=> HourOf(s) \in ChosenHours(Units(C), p)
<1> DEFINE U == Units(C)
           S == Slices(C, p)
           rank == HourRank(U)
           early == FirstHours(U, p)
           K == view[p].supply
<1>1. C \subseteq Chunk /\ StrictOrderBy(U, rank)
  BY RankableStrict DEF Rankable
<1>2. IsFiniteSet(U) /\ Cardinality(U) \in Nat /\ K \in Nat
  BY UnitsFinite, ShareNat, FS_CardinalityType
<1>3. /\ \A s \in S : HourOf(s) \in U /\ s.band = Band(HourOf(s), U, p)
      /\ \A s, t \in S : HourOf(s) = HourOf(t) => s = t
      /\ \A u \in U : \E s \in S : HourOf(s) = u
  BY <1>1, SlicesAreHours
<1>4. IsFiniteSet(S) /\ Cardinality(S) = Cardinality(U)
  BY <1>1, HoursOfSlices
<1>5. \A t, s \in S : HourOf(t) \in rank[HourOf(s)] <=> HourBefore(HourOf(t), HourOf(s))
  BY <1>3 DEF HourRank
<1>6. SUFFICES ASSUME NEW s \in S
               PROVE  s \in Chosen(C, p) <=> HourOf(s) \in ChosenHours(U, p)
  OBVIOUS
<1> DEFINE A == {t \in S : Ahead(t, s)}
           F == InFront(U, early, rank, HourOf(s))
<1>7. s \in Chosen(C, p) <=> Cardinality(A) < K
  BY TwoBands
<1>8. HourOf(s) \in ChosenHours(U, p) <=> Cardinality(F) < K
  BY <1>3 DEF ChosenHours, ChosenOf
<1>9. CASE Cardinality(U) > K
  <2>1. \A t \in S : t.band \in {0, 1} /\ (t.band = 0 <=> HourOf(t) \in early)
    <3> SUFFICES ASSUME NEW t \in S
                 PROVE  t.band \in {0, 1} /\ (t.band = 0 <=> HourOf(t) \in early)
      OBVIOUS
    <3>1. HourOf(t) \in Units(C) /\ t.band = Band(HourOf(t), Units(C), p)
      BY <1>3
    <3>2. t.band \in {0, 1}
      BY <3>1 DEF Band
    <3>3. Band(HourOf(t), Units(C), p) = 0 <=> HourOf(t) \in FirstHours(Units(C), p)
      BY <1>1, <1>9, <3>1, BandsAre
    <3> QED
      BY <3>1, <3>2, <3>3
  <2>2. \A t \in S : Ahead(t, s) <=> HourOf(t) \in F
    <3> SUFFICES ASSUME NEW t \in S PROVE Ahead(t, s) <=> HourOf(t) \in F
      OBVIOUS
    <3>1. /\ t.band \in {0, 1} /\ (t.band = 0 <=> HourOf(t) \in early)
          /\ s.band \in {0, 1} /\ (s.band = 0 <=> HourOf(s) \in early)
      BY <2>1
    <3>2. /\ t.band < s.band <=> (HourOf(t) \in early /\ HourOf(s) \notin early)
          /\ t.band = s.band <=> (HourOf(t) \in early <=> HourOf(s) \in early)
      BY <3>1
    <3>3. Ahead(t, s) <=> \/ t.band < s.band
                          \/ t.band = s.band /\ HourBefore(HourOf(t), HourOf(s))
      BY DEF Ahead, HourOf
    <3> QED
      BY <1>3, <1>5, <3>2, <3>3 DEF InFront
  <2> DEFINE f == [t \in A |-> HourOf(t)]
  <2>3. f \in [A -> F]
    BY <2>2
  <2>4. \A x, y \in A : f[x] = f[y] => x = y
    BY <1>3
  <2>5. \A z \in F : \E x \in A : f[x] = z
    BY <1>3, <2>2 DEF InFront
  <2>6. IsFiniteSet(A)
    BY <1>4, FS_Subset
  <2> HIDE DEF f, A, F
  <2>7. Cardinality(F) = Cardinality(A)
    BY <2>3, <2>4, <2>5, <2>6, SameSize
  <2> QED
    BY <1>7, <1>8, <2>7
<1>10. CASE ~(Cardinality(U) > K)
  <2>1. A \subseteq S /\ s \notin A
    <3>1. ~HourBefore(HourOf(s), HourOf(s))
      BY <1>1, <1>3, <1>5 DEF StrictOrderBy
    <3>2. s.band \in {0, 1}
      BY <1>3 DEF Band
    <3> QED
      BY <3>1, <3>2 DEF Ahead, HourOf
  <2>2. F \subseteq U /\ HourOf(s) \notin F
    BY <1>1, <1>3 DEF InFront, StrictOrderBy
  <2> HIDE DEF A, F, S, U
  <2>3. /\ IsFiniteSet(A) /\ Cardinality(A) <= Cardinality(S)
        /\ Cardinality(A) # Cardinality(S)
    BY <1>4, <1>6, <2>1, FS_Subset
  <2>4. /\ IsFiniteSet(F) /\ Cardinality(F) <= Cardinality(U)
        /\ Cardinality(F) # Cardinality(U)
    BY <1>2, <1>3, <2>2, FS_Subset
  <2>5. Cardinality(A) \in Nat /\ Cardinality(F) \in Nat
    BY <2>3, <2>4, FS_CardinalityType
  <2>6. Cardinality(A) < K /\ Cardinality(F) < K
    BY <1>2, <1>4, <1>10, <2>3, <2>4, <2>5
  <2> QED
    BY <1>7, <1>8, <2>6
<1> QED
  BY <1>9, <1>10

-----------------------------------------------------------------------------
(* What a pass leaves of the chosen hours.                                 *)

HeldHours(p) == Units(At(book, placed, p))

AskedHours(p) == Units(AskedAt(p))

OrgHeld(g, p) == Hours({c \in At(book, placed, p) : OrgOf(c) = g})

OrgHeldAgrees ==
  \A p \in Pools : \A g : Cardinality(Own(HeldHours(p), HourOrg, g)) = OrgHeld(g, p)

LEMMA OrgHeldIs == IInv => OrgHeldAgrees
<1> SUFFICES ASSUME IInv, NEW p \in Pools, NEW g
             PROVE  Cardinality(Own(HeldHours(p), HourOrg, g)) = OrgHeld(g, p)
  BY DEF OrgHeldAgrees
<1>1. At(book, placed, p) \subseteq Chunk
  BY DEF IInv, TypeOK, At
<1>2. \A u \in HeldHours(p) : HourOrg[u] = OrgOf(u[1])
  BY <1>1, UnitForm DEF HeldHours
<1>3. Own(HeldHours(p), HourOrg, g) = Units({c \in At(book, placed, p) : OrgOf(c) = g})
  BY <1>2 DEF Own, HeldHours, Units
<1> QED
  BY <1>3 DEF OrgHeld, Hours

\* No order stands where it cannot pay the reserve.
LEMMA BidsReachReserve ==
  ASSUME IInv, NEW p \in Pools, NEW c \in Standing, PoolOf(book, c) = p
  PROVE  Bid(c) >= view[p].reserve
<1>1. c.rung \in OpenRungs(book[c.order], view, TRUE)
  BY DEF IInv, OnOpenRungs
<1>2. Affordable(book[c.order].rungs[c.rung].max, view[p], TRUE)
  BY <1>1 DEF OpenRungs, PoolOf
<1> QED
  BY <1>2 DEF Affordable, Bid

LEMMA AskedContext ==
  ASSUME IInv, NEW p \in Pools
  PROVE  /\ AskedAt(p) \subseteq Standing
         /\ Rankable(AskedAt(p)) /\ AskedAt(p) \subseteq Chunk
         /\ IsFiniteSet(AskedAt(p)) /\ IsFiniteSet(AskedHours(p))
         /\ StrictOrderBy(AskedHours(p), HourRank(AskedHours(p)))
         /\ Share(p) \in Nat /\ view[p].supply \in Nat
         /\ HeldHours(p) \in SUBSET AskedHours(p)
         /\ \A c \in AskedAt(p) : Bid(c) >= view[p].reserve
<1>1. AskedAt(p) \subseteq Standing
  BY DEF AskedAt, At
<1>5. \A c \in AskedAt(p) : Bid(c) >= view[p].reserve
  BY <1>1, BidsReachReserve DEF AskedAt, At
<1>2. Rankable(AskedAt(p)) /\ AskedAt(p) \subseteq Chunk
  BY <1>1, StandingRankable DEF Rankable
<1>3. IsFiniteSet(AskedAt(p))
  BY <1>1, StandingFinite, FS_Subset
<1>4. HeldHours(p) \in SUBSET AskedHours(p)
  BY DEF HeldHours, AskedHours, AskedAt, At, Units, Standing
<1> QED
  BY <1>1, <1>2, <1>3, <1>4, <1>5, UnitsFinite, RankableStrict, ShareNat DEF AskedHours

LEMMA PassKeepsHours ==
  ASSUME IInv, ClearPass, NEW p \in Pools, NEW g
  PROVE  OrgHeld(g, p)' = Cardinality(Own(ChosenHours(AskedHours(p), p), HourOrg, g))
<1> DEFINE C == AskedAt(p)
           D == {c \in C : OrgOf(c) = g}
           S == {s \in ServedNow : s.chunk \in D}
           O == Own(ChosenHours(AskedHours(p), p), HourOrg, g)
<1>1. placed' = Kept(OutcomeNow) /\ book' = book
  BY PassEffect DEF ClearPass
<1>2. {k \in At(book', placed', p) : OrgOf(k)' = g} = PartsOf(Kept(OutcomeNow), D)
  <2>1. ASSUME NEW k \in Kept(OutcomeNow)
        PROVE  PoolOf(book, k) = p /\ OrgOf(k) = g <=> \E c \in D : c.id = k.id
    <3>1. PICK c \in Standing : k.id = c.id /\ k.order = c.order /\ k.rung = c.rung
      BY KeptChunks
    <3>2. PoolOf(book, k) = PoolOf(book, c) /\ OrgOf(k) = OrgOf(c)
      BY <3>1 DEF PoolOf, OrgOf
    <3>3. \A d \in D : d.id = k.id => d = c
      BY <3>1 DEF IInv, IdsDistinct, AskedAt, At
    <3> QED
      BY <3>1, <3>2, <3>3 DEF AskedAt, At
  <2>2. \A k : OrgOf(k)' = OrgOf(k)
    BY <1>1 DEF OrgOf
  <2> QED
    BY <1>1, <2>1, <2>2 DEF At, PartsOf
<1>3. D \subseteq Standing
  BY AskedContext
<1>4. OrgHeld(g, p)' = Cardinality(S)
  <2>1. OrgHeld(g, p)' = Hours({k \in At(book', placed', p) : OrgOf(k)' = g})
    BY DEF OrgHeld
  <2>2. Hours(PartsOf(Kept(OutcomeNow), D)) = Cardinality(S)
    BY <1>3, KeptHours
  <2> QED
    BY <1>2, <2>1, <2>2
<1>5. S = {s \in Chosen(C, p) : OrgOf(s.chunk) = g}
  <2>1. {s \in ServedNow : s.chunk \in C} = Chosen(C, p)
    BY ServedAtPool
  <2> QED
    BY <2>1
<1>6. /\ \A s \in Slices(C, p) : HourOf(s) \in Units(C) /\ s.chunk \in C
      /\ \A s, t \in Slices(C, p) : HourOf(s) = HourOf(t) => s = t
      /\ \A u \in Units(C) : \E s \in Slices(C, p) : HourOf(s) = u
  BY AskedContext, SlicesAreHours
<1>7. \A s \in Slices(C, p) :
        s \in Chosen(C, p) <=> HourOf(s) \in ChosenHours(AskedHours(p), p)
  BY AskedContext, ChosenAre DEF AskedHours
<1>8. \A s \in Slices(C, p) : HourOrg[HourOf(s)] = OrgOf(s.chunk)
  <2> SUFFICES ASSUME NEW s \in Slices(C, p) PROVE HourOrg[HourOf(s)] = OrgOf(s.chunk)
    OBVIOUS
  <2>1. HourOrg[HourOf(s)] = OrgOf(HourOf(s)[1])
    BY <1>6, AskedContext, UnitForm
  <2> QED
    BY <2>1 DEF HourOf
<1>9. Chosen(C, p) \subseteq Slices(C, p)
  BY DEF Chosen, Accepted, Served
<1>10. ChosenHours(AskedHours(p), p) \subseteq Units(C)
  BY DEF ChosenHours, ChosenOf, AskedHours
<1>11. Cardinality(O) = Cardinality(S)
  <2> DEFINE f == [s \in S |-> HourOf(s)]
  <2>1. f \in [S -> O]
    BY <1>5, <1>7, <1>8, <1>9 DEF Own
  <2>2. \A x, y \in S : f[x] = f[y] => x = y
    BY <1>5, <1>6, <1>9
  <2>3. \A z \in O : \E x \in S : f[x] = z
    <3> SUFFICES ASSUME NEW z \in O PROVE \E x \in S : HourOf(x) = z
      OBVIOUS
    <3>1. z \in Units(C) /\ z \in ChosenHours(AskedHours(p), p) /\ HourOrg[z] = g
      BY <1>10 DEF Own
    <3>2. PICK x \in Slices(C, p) : HourOf(x) = z
      BY <1>6, <3>1
    <3>3. x \in S
      BY <1>5, <1>7, <1>8, <3>1, <3>2
    <3> QED
      BY <3>2, <3>3
  <2>4. IsFiniteSet(S)
    BY ServedFinite, FS_Subset
  <2> HIDE DEF f, S, O
  <2> QED
    BY <2>1, <2>2, <2>3, <2>4, SameSize
<1> QED
  BY <1>4, <1>11

\* A chunk that a pool keeps has a chosen hour.
LEMMA KeptByChosen ==
  ASSUME IInv, ClearPass, NEW p \in Pools, NEW k \in At(book, placed', p)
  PROVE  \E u \in ChosenHours(AskedHours(p), p) :
           u[1].id = k.id /\ u[1].order = k.order /\ u[1].rung = k.rung
<1>1. k \in Kept(OutcomeNow) /\ PoolOf(book, k) = p
  BY PassEffect DEF At
<1>2. PICK c \in Standing : /\ Granted(ServedNow, c) > 0
                           /\ k.id = c.id /\ k.order = c.order /\ k.rung = c.rung
  BY <1>1, KeptChunks
<1>3. PoolOf(book, c) = p /\ c \in AskedAt(p)
  BY <1>1, <1>2 DEF PoolOf, AskedAt, At
<1>4. Mine(c) # {}
  <2>1. Granted(ServedNow, c) = Cardinality(Mine(c))
    BY MineBounds
  <2>2. Mine(c) = {} => Cardinality(Mine(c)) = 0
    BY FS_EmptySet
  <2> QED
    BY <1>2, <2>1, <2>2
<1>5. PICK s \in Chosen(AskedAt(p), p) : s.chunk = c
  BY <1>3, <1>4, MineBounds
<1>6. HourOf(s) \in ChosenHours(AskedHours(p), p)
  BY <1>5, AskedContext, ChosenAre DEF AskedHours, Chosen, Accepted, Served
<1>7. HourOf(s)[1] = c
  BY <1>5 DEF HourOf
<1> QED
  BY <1>2, <1>6, <1>7

\* A chunk whose first n hours are chosen is granted n hours at least.
LEMMA GrantedAtLeast ==
  ASSUME IInv, NEW c \in Standing, NEW p \in Pools, PoolOf(book, c) = p,
         NEW n \in Nat, n <= c.hours,
         \A i \in 1..n : <<c, i>> \in ChosenHours(AskedHours(p), p)
  PROVE  Granted(ServedNow, c) \in Nat /\ n <= Granted(ServedNow, c)
<1>1. c \in AskedAt(p) /\ c \in Chunk
  BY ChunkContext DEF IInv, AskedAt, At
<1>2. c.hours \in Nat
  BY <1>1, LadderAssumption DEF Chunk
<1>3. \A i \in 1..n : <<c, i>> \in AskedHours(p)
  BY DEF ChosenHours, ChosenOf
<1> DEFINE f == [i \in 1..n |-> CHOOSE s \in Slices(AskedAt(p), p) : HourOf(s) = <<c, i>>]
<1>4. \A i \in 1..n : f[i] \in Slices(AskedAt(p), p) /\ HourOf(f[i]) = <<c, i>>
  BY <1>3, AskedContext, SlicesAreHours DEF AskedHours
<1>5. \A i \in 1..n : f[i] \in Mine(c)
  <2> SUFFICES ASSUME NEW i \in 1..n PROVE f[i] \in Mine(c)
    OBVIOUS
  <2>1. PICK s : s = f[i]
    OBVIOUS
  <2>2. s \in Slices(AskedAt(p), p) /\ HourOf(s) = <<c, i>>
    BY <1>4, <2>1
  <2> HIDE DEF f
  <2>3. s \in Chosen(AskedAt(p), p)
    BY <2>2, AskedContext, ChosenAre DEF AskedHours
  <2>4. s.chunk = c
    BY <2>2 DEF HourOf
  <2> QED
    BY <2>1, <2>3, <2>4, MineBounds
<1>6. \A i, j \in 1..n : f[i] = f[j] => i = j
  <2> HIDE DEF f
  <2>1. \A i, j \in 1..n : f[i] = f[j] => <<c, i>> = <<c, j>>
    BY <1>4
  <2> QED
    BY <2>1
<1>7. f \in Injection(1..n, Mine(c))
  <2>1. f \in [1..n -> Mine(c)]
    BY <1>5
  <2> HIDE DEF f
  <2> QED
    BY <1>6, <2>1, Fun_IsInj
<1> HIDE DEF f
<1>8. Cardinality(1..n) <= Cardinality(Mine(c))
  BY <1>7, MineBounds, FS_Injection
<1>9. Cardinality(1..n) = n
  BY FS_Interval
<1>10. Granted(ServedNow, c) = Cardinality(Mine(c)) /\ Granted(ServedNow, c) \in Nat
  BY <1>2, MineBounds
<1> QED
  BY <1>8, <1>9, <1>10

\* A chunk of which something is turned away has an hour that is not chosen.
LEMMA LeftOutHour ==
  ASSUME IInv, ClearPass, NEW p \in Pools, NEW k \in Rest(OutcomeNow), PoolOf(book, k) = p
  PROVE  \E u \in AskedHours(p) : /\ u \notin ChosenHours(AskedHours(p), p)
                                  /\ u[1].order = k.order /\ u[1].rung = k.rung
<1>1. PICK c \in Standing : /\ k = [c EXCEPT !.hours = c.hours - Granted(ServedNow, c)]
                           /\ Granted(ServedNow, c) < c.hours
  BY DEF Rest, OutcomeNow
<1>2. c \in Chunk
  BY ChunkContext DEF IInv
<1>3. k.order = c.order /\ k.rung = c.rung
  BY <1>1, <1>2 DEF Chunk
<1>4. PoolOf(book, c) = p /\ c \in AskedAt(p)
  BY <1>3 DEF PoolOf, AskedAt, At
<1>5. c.hours \in Nat /\ c.hours \in 1..MaxHours
  BY <1>2, LadderAssumption DEF Chunk
<1>6. \A i \in 1..c.hours : <<c, i>> \in AskedHours(p)
  BY <1>4, <1>5, LadderAssumption DEF AskedHours, Units
<1>7. ASSUME \A i \in 1..c.hours : <<c, i>> \in ChosenHours(AskedHours(p), p) PROVE FALSE
  BY <1>1, <1>4, <1>5, <1>7, GrantedAtLeast
<1> QED
  BY <1>3, <1>6, <1>7

-----------------------------------------------------------------------------
(* What a pool holds is fair to the orders it turned away.                 *)

\* One more hour of order o asking at its rung r.
Asker(o, r, i) == [id |-> i, order |-> o, rung |-> r, hours |-> 1]

Better(c, o, r) == Outranks(c, Asker(o, r, c.id + 1))

HighIn(U, o, r) == {u \in U : Better(u[1], o, r)}

FairlyAt(o, r) ==
  LET p == book[o].rungs[r].pool
  IN /\ Guarded(HeldHours(p), HourOrg, Share(p), HighIn(HeldHours(p), o, r), book[o].org)
     /\ Yielding(HeldHours(p), HourOrg, Share(p), book[o].org)

(***************************************************************************)
(* The inductive invariant of fairness.  At a pool that turned order o     *)
(* away, every hour held ranks higher than o, save those of an             *)
(* organisation within its share while the organisation of o has reached   *)
(* its own; and no organisation is above its share while that of o is      *)
(* below it.                                                               *)
(***************************************************************************)
FairTurns ==
  \A o \in Orders : \A r \in DOMAIN book[o].rungs : TurnedAway(o, r) => FairlyAt(o, r)

LEMMA AskerContext ==
  ASSUME IInv, NEW o \in Orders, NEW r \in DOMAIN book[o].rungs, NEW i
  PROVE  /\ Bid(Asker(o, r, i)) \in Nat
         /\ \A c : c.order = o /\ c.rung = r => Bid(Asker(o, r, i)) = Bid(c)
         /\ book[o].tier \in Int /\ book[o].lottery \in Nat
         /\ Asker(o, r, i).order = o /\ Asker(o, r, i).id = i
         /\ OrgOf(Asker(o, r, i)) = book[o].org
         /\ PoolOf(book, Asker(o, r, i)) = book[o].rungs[r].pool
         /\ o \in Nat
<1>1. /\ Asker(o, r, i).order = o /\ Asker(o, r, i).id = i /\ Asker(o, r, i).rung = r
      /\ PoolOf(book, Asker(o, r, i)) = book[o].rungs[r].pool
      /\ OrgOf(Asker(o, r, i)) = book[o].org
  BY DEF Asker, PoolOf, OrgOf
<1>2. book[o] \in Order /\ book[o].rungs[r] \in Rung
  BY RungContext DEF IInv, TypeOK
<1>3. book[o].tier \in Int /\ book[o].lottery \in Nat /\ book[o].rungs[r].max \in Nat
  BY <1>2 DEF Order, Rung
<1>4. \A c : c.order = o /\ c.rung = r => Bid(c) = book[o].rungs[r].max
  BY DEF Bid
<1>5. Bid(Asker(o, r, i)) = book[o].rungs[r].max
  BY <1>1, <1>4
<1> QED
  BY <1>1, <1>3, <1>4, <1>5, LadderAssumption

\* What outranks a better chunk is better.
LEMMA BetterClosed ==
  ASSUME IInv, NEW o \in Orders, NEW r \in DOMAIN book[o].rungs, NEW C, Rankable(C),
         NEW c \in C, NEW d \in C, Outranks(c, d), Better(d, o, r)
  PROVE  Better(c, o, r)
<1> DEFINE a == Asker(o, r, c.id + 1)
           b == Asker(o, r, d.id + 1)
<1>1. /\ Bid(c) \in Nat /\ book[c.order].tier \in Int /\ book[c.order].lottery \in Nat
      /\ c.order \in Nat /\ c.id \in Nat
      /\ Bid(d) \in Nat /\ book[d.order].tier \in Int /\ book[d.order].lottery \in Nat
      /\ d.order \in Nat /\ d.id \in Nat
  BY LadderAssumption DEF Rankable, Chunk
<1>2. /\ Bid(a) \in Nat /\ Bid(b) = Bid(a)
      /\ book[o].tier \in Int /\ book[o].lottery \in Nat /\ o \in Nat
      /\ a.order = o /\ b.order = o /\ a.id = c.id + 1 /\ b.id = d.id + 1
  <2>1. a.order = o /\ a.rung = r
    BY DEF Asker
  <2> HIDE DEF a
  <2>2. Bid(b) = Bid(a)
    BY <2>1, AskerContext
  <2> USE DEF a
  <2> QED
    BY <2>2, AskerContext
<1>3. Outranks(d, b)
  BY DEF Better
<1> HIDE DEF a, b
<1>4. Outranks(c, a)
  BY <1>1, <1>2, <1>3 DEF Outranks
<1> QED
  BY <1>4 DEF a, Better

LEMMA HighClosed ==
  ASSUME IInv, NEW o \in Orders, NEW r \in DOMAIN book[o].rungs, NEW p \in Pools
  PROVE  /\ HighIn(AskedHours(p), o, r) \in SUBSET AskedHours(p)
         /\ \A t \in HighIn(AskedHours(p), o, r) :
              HourRank(AskedHours(p))[t] \subseteq HighIn(AskedHours(p), o, r)
<1> DEFINE U == AskedHours(p)
<1> SUFFICES ASSUME NEW t \in HighIn(U, o, r), NEW v \in HourRank(U)[t]
             PROVE  v \in HighIn(U, o, r)
  BY DEF HighIn
<1>1. t \in U /\ Better(t[1], o, r)
  BY DEF HighIn
<1>2. v \in U /\ HourBefore(v, t)
  BY <1>1 DEF HourRank
<1>3. v[1] \in AskedAt(p) /\ t[1] \in AskedAt(p)
  BY <1>1, <1>2 DEF AskedHours, Units
<1>4. Better(v[1], o, r)
  <2>1. CASE Outranks(v[1], t[1])
    BY <1>1, <1>3, <2>1, AskedContext, BetterClosed
  <2>2. CASE v[1] = t[1]
    BY <1>1, <2>2
  <2> QED
    BY <1>2, <2>1, <2>2 DEF HourBefore
<1> QED
  BY <1>2, <1>4 DEF HighIn

\* A pass that leaves order o turned away at its rung r chooses fairly there.
LEMMA PassChoosesFairly ==
  ASSUME IInv, ClearPass, FullOnceRefusing, FairTurns, DownToAgrees, DownToAgrees',
         NEW o \in Orders, NEW r \in DOMAIN book[o].rungs, TurnedAway(o, r)',
         NEW p \in Pools, p = book[o].rungs[r].pool,
         NEW S, S = ChosenHours(AskedHours(p), p)
  PROVE  /\ Guarded(S, HourOrg, Share(p), HighIn(AskedHours(p), o, r), book[o].org)
         /\ Yielding(S, HourOrg, Share(p), book[o].org)
<1> DEFINE T == AskedHours(p)
           H == HeldHours(p)
           O == HighIn(T, o, r)
           h == book[o].org
<1>1. /\ IsFiniteSet(T) /\ StrictOrderBy(T, HourRank(T))
      /\ Share(p) \in Nat /\ view[p].supply \in Nat
      /\ H \in SUBSET T
  BY AskedContext
<1>2. O \in SUBSET T /\ \A t \in O : HourRank(T)[t] \subseteq O
  BY HighClosed
<1>3. S = ChosenOf(T, FirstBand(T, HourOrg, HourRank(T), Share(p)), HourRank(T), view[p].supply)
  BY DEF ChosenHours, FirstHours
<1>4. CASE TurnedAway(o, r)
  <2>1. Cardinality(H) = view[p].supply
    BY <1>4 DEF FullOnceRefusing, HeldAt, Hours, HeldHours
  <2>2. /\ Guarded(H, HourOrg, Share(p), HighIn(H, o, r), h)
        /\ Yielding(H, HourOrg, Share(p), h)
    BY <1>4 DEF FairTurns, FairlyAt
  <2>3. HighIn(H, o, r) \subseteq O
    BY <1>1 DEF HighIn
  <2>4. Guarded(H, HourOrg, Share(p), O, h)
    BY <2>2, <2>3 DEF Guarded
  <2> HIDE DEF T, H, O, h
  <2>5. Guarded(S, HourOrg, Share(p), O, h) /\ Yielding(S, HourOrg, Share(p), h)
    BY <1>1, <1>2, <1>3, <2>1, <2>2, <2>4, ChoosingAgain
  <2> QED
    BY <2>5 DEF T, O, h
<1>5. CASE ~TurnedAway(o, r)
  <2>1. book' = book /\ view' = view
    BY DEF ClearPass
  <2>2. r \in OpenRungs(book[o], view, TRUE) /\ r \in Nat
    BY <2>1, RungContext DEF TurnedAway, OpenRungs, Affordable
  <2>3. HoursDownTo(o, r)' = DownTo(o, r)' /\ HoursDownTo(o, r) = DownTo(o, r)
    BY <2>2 DEF DownToAgrees
  <2>4. DownTo(o, r)' # DownTo(o, r)
    <3>1. HoursDownTo(o, r)' < book[o].hours
      BY <2>1 DEF TurnedAway
    <3>2. ~(HoursDownTo(o, r) < book[o].hours)
      BY <1>5, <2>2 DEF TurnedAway
    <3> QED
      BY <2>3, <3>1, <3>2
  <2>5. PICK k \in Rest(OutcomeNow) : k.order = o /\ k.rung = r
    BY <2>2, <2>4, DownToStays
  <2>6. PoolOf(book, k) = p
    BY <2>5 DEF PoolOf
  <2>7. PICK x \in T : x \notin S /\ x[1].order = o /\ x[1].rung = r
    BY <2>5, <2>6, LeftOutHour
  <2>8. x[1] \in AskedAt(p) /\ HourOrg[x] = OrgOf(x[1]) /\ x[1].id \in Nat
    BY AskedContext, UnitForm DEF AskedHours
  <2>9. HourOrg[x] = h
    BY <2>7, <2>8 DEF OrgOf
  <2>10. Better(x[1], o, r)
    <3> DEFINE a == Asker(o, r, x[1].id + 1)
    <3>1. Bid(a) = Bid(x[1]) /\ Bid(a) \in Nat /\ a.order = o /\ a.id = x[1].id + 1
      BY <2>7, AskerContext
    <3>2. book[o].tier \in Int /\ book[o].lottery \in Nat /\ o \in Nat
      BY AskerContext
    <3> HIDE DEF a
    <3>3. Outranks(x[1], a)
      BY <2>7, <2>8, <3>1, <3>2 DEF Outranks
    <3> QED
      BY <3>3 DEF a, Better
  <2>11. x \in O
    BY <2>10 DEF HighIn
  <2> HIDE DEF T, O, h
  <2>12. Guarded(S, HourOrg, Share(p), O, HourOrg[x]) /\ Yielding(S, HourOrg, Share(p), HourOrg[x])
    BY <1>1, <1>2, <1>3, <2>7, <2>11, LeavingOut, ZenonT(60)
  <2>13. Guarded(S, HourOrg, Share(p), O, h) /\ Yielding(S, HourOrg, Share(p), h)
    BY <2>9, <2>12
  <2> QED
    BY <2>13 DEF T, O, h
<1> QED
  BY <1>4, <1>5

\* Guards and yields only look at organisations, sizes and ranks.
LEMMA FairnessCarries ==
  ASSUME NEW X, NEW Y, NEW owner, NEW share, NEW O, NEW P, NEW h,
         \A y \in Y : \E x \in X : owner[y] = owner[x] /\ (x \in O => y \in P),
         \A g : Cardinality(Own(Y, owner, g)) = Cardinality(Own(X, owner, g)),
         Guarded(X, owner, share, O, h), Yielding(X, owner, share, h)
  PROVE  Guarded(Y, owner, share, P, h) /\ Yielding(Y, owner, share, h)
<1>1. Guarded(Y, owner, share, P, h)
  <2> SUFFICES ASSUME NEW y \in Y,
                      \/ owner[y] = h
                      \/ Cardinality(Own(Y, owner, owner[y])) > share
                      \/ Cardinality(Own(Y, owner, h)) < share
               PROVE  y \in P
    BY DEF Guarded
  <2>1. PICK x \in X : owner[y] = owner[x] /\ (x \in O => y \in P)
    OBVIOUS
  <2>2. /\ Cardinality(Own(Y, owner, owner[y])) = Cardinality(Own(X, owner, owner[x]))
        /\ Cardinality(Own(Y, owner, h)) = Cardinality(Own(X, owner, h))
    BY <2>1
  <2> QED
    BY <2>1, <2>2 DEF Guarded
<1>2. Yielding(Y, owner, share, h)
  <2> SUFFICES ASSUME NEW y \in Y, Cardinality(Own(Y, owner, h)) < share
               PROVE  Cardinality(Own(Y, owner, owner[y])) <= share
    BY DEF Yielding
  <2>1. PICK x \in X : owner[y] = owner[x]
    OBVIOUS
  <2>2. /\ Cardinality(Own(Y, owner, owner[y])) = Cardinality(Own(X, owner, owner[x]))
        /\ Cardinality(Own(Y, owner, h)) = Cardinality(Own(X, owner, h))
    BY <2>1
  <2> QED
    BY <2>2 DEF Yielding
<1> QED
  BY <1>1, <1>2

LEMMA PassStaysFair ==
  ASSUME IInv, ClearPass, FullOnceRefusing, FairTurns, DownToAgrees, DownToAgrees',
         IInv', OrgHeldAgrees'
  PROVE  FairTurns'
<1>1. book' = book /\ view' = view
  BY DEF ClearPass
<1> SUFFICES ASSUME NEW o \in Orders, NEW r \in DOMAIN book[o].rungs, TurnedAway(o, r)',
                    NEW p \in Pools, p = book[o].rungs[r].pool
             PROVE  FairlyAt(o, r)'
  <2>1. \A o \in Orders : \A r \in DOMAIN book[o].rungs : book[o].rungs[r].pool \in Pools
    BY RungContext
  <2> QED
    BY <1>1, <2>1 DEF FairTurns
<1> DEFINE Y == Units(At(book, placed', p))
           S == ChosenHours(AskedHours(p), p)
           h == book[o].org
           O == HighIn(AskedHours(p), o, r)
           P == HighIn(Y, o, r)
<1>2. /\ Guarded(S, HourOrg, Share(p), O, h)
      /\ Yielding(S, HourOrg, Share(p), h)
  BY PassChoosesFairly
<1>3. At(book, placed', p) \subseteq Chunk
  BY DEF IInv, TypeOK, At
<1>4. \A y \in Y : \E x \in S : HourOrg[y] = HourOrg[x] /\ (x \in O => y \in P)
  <2> SUFFICES ASSUME NEW y \in Y
               PROVE  \E x \in S : HourOrg[y] = HourOrg[x] /\ (x \in O => y \in P)
    OBVIOUS
  <2>1. y[1] \in At(book, placed', p) /\ HourOrg[y] = OrgOf(y[1])
    BY <1>3, UnitForm
  <2>2. PICK x \in S : x[1].id = y[1].id /\ x[1].order = y[1].order /\ x[1].rung = y[1].rung
    BY <2>1, KeptByChosen
  <2>3. HourOrg[x] = OrgOf(x[1])
    <3>1. x \in AskedHours(p)
      BY DEF ChosenHours, ChosenOf
    <3> QED
      BY <3>1, AskedContext, UnitForm DEF AskedHours
  <2>4. Better(x[1], o, r) <=> Better(y[1], o, r)
    <3>1. Bid(x[1]) = Bid(y[1])
      BY <2>2 DEF Bid, PoolOf
    <3> QED
      BY <2>2, <3>1 DEF Better, Outranks
  <2> QED
    BY <2>1, <2>2, <2>3, <2>4 DEF HighIn, OrgOf
<1>5. \A g : Cardinality(Own(Y, HourOrg, g)) = Cardinality(Own(S, HourOrg, g))
  <2> SUFFICES ASSUME NEW g
               PROVE  Cardinality(Own(Y, HourOrg, g)) = Cardinality(Own(S, HourOrg, g))
    OBVIOUS
  <2>1. OrgHeld(g, p)' = Cardinality(Own(S, HourOrg, g))
    BY PassKeepsHours
  <2>2. HourOrg' = HourOrg
    BY <1>1 DEF HourOrg, OrgOf
  <2>3. Own(HeldHours(p), HourOrg, g)' = Own(Y, HourOrg, g)
    BY <1>1, <2>2 DEF HeldHours, Own
  <2>4. Cardinality(Own(HeldHours(p), HourOrg, g))' = OrgHeld(g, p)'
    BY DEF OrgHeldAgrees
  <2> QED
    BY <2>1, <2>3, <2>4
<1>6. /\ Guarded(Y, HourOrg, Share(p), P, h)
      /\ Yielding(Y, HourOrg, Share(p), h)
  <2> HIDE DEF Y, S, P, O, h
  <2> QED
    BY <1>2, <1>4, <1>5, FairnessCarries
<1>7. HeldHours(p)' = Y /\ HourOrg' = HourOrg /\ Share(p)' = Share(p)
  BY <1>1 DEF HeldHours, HourOrg, OrgOf, Share
<1>8. HighIn(HeldHours(p), o, r)' = P
  BY <1>1, <1>7 DEF HighIn, Better, Outranks, Bid, PoolOf
<1>9. Guarded(HeldHours(p), HourOrg, Share(p), HighIn(HeldHours(p), o, r), book[o].org)'
  <2> HIDE DEF Y, P
  <2> QED
    BY <1>1, <1>6, <1>7, <1>8 DEF Guarded, Own
<1>10. Yielding(HeldHours(p), HourOrg, Share(p), book[o].org)'
  <2> HIDE DEF Y, P
  <2> QED
    BY <1>1, <1>6, <1>7 DEF Yielding, Own
<1> QED
  BY <1>1, <1>9, <1>10 DEF FairlyAt

LEMMA StartsFair ==
  ASSUME IInv, Begun, FullOnceRefusing
  PROVE  FairTurns
<1> SUFFICES ASSUME NEW o \in Orders, NEW r \in DOMAIN book[o].rungs, TurnedAway(o, r)
             PROVE  FALSE
  BY DEF FairTurns
<1> DEFINE p == book[o].rungs[r].pool
<1>1. p \in Pools /\ view[p].supply \in Nat
  BY RungContext, ShareNat
<1>2. HeldAt(p) = 0
  BY <1>1, HeldBounds DEF Begun, Begins
<1>3. HeldAt(p) = view[p].supply
  BY DEF FullOnceRefusing
<1>4. view[p].supply > 0
  BY DEF TurnedAway, OpenRungs, Affordable
<1> HIDE DEF p
<1> QED
  BY <1>1, <1>2, <1>3, <1>4

LEMMA NextFair ==
  IInv /\ IInv' /\ FullOnceRefusing /\ FairTurns /\ [Next]_clearingVars => FairTurns'
<1> SUFFICES ASSUME IInv, IInv', FullOnceRefusing, FairTurns, [Next]_clearingVars
             PROVE  FairTurns'
  OBVIOUS
<1>1. CASE ClearPass
  <2>1. IInv'
    OBVIOUS
  <2>2. DownToAgrees /\ DownToAgrees'
    BY <2>1, DownToIs, PTL
  <2>3. OrgHeldAgrees'
    BY <2>1, OrgHeldIs, PTL
  <2> QED
    BY <1>1, <2>2, <2>3, PassStaysFair
<1>2. CASE Settle \/ UNCHANGED clearingVars
  <2>1. UNCHANGED <<book, view, placed, seeking>>
    BY <1>2 DEF Settle, clearingVars
  <2>2. \A o, r : TurnedAway(o, r)' = TurnedAway(o, r)
    BY <2>1 DEF TurnedAway, HoursDownTo, OpenRungs, Affordable
  <2>3. HourOrg' = HourOrg
    BY <2>1 DEF HourOrg, OrgOf
  <2>4. \A p : HeldHours(p)' = HeldHours(p) /\ Share(p)' = Share(p)
    BY <2>1 DEF HeldHours, Share, At, PoolOf
  <2> SUFFICES ASSUME NEW o \in Orders, NEW r \in DOMAIN book[o].rungs,
                      NEW p, p = book[o].rungs[r].pool, TurnedAway(o, r)
               PROVE  FairlyAt(o, r)'
    BY <2>1, <2>2 DEF FairTurns
  <2>5. \A c : Better(c, o, r)' <=> Better(c, o, r)
    <3> SUFFICES ASSUME NEW c PROVE Better(c, o, r)' <=> Better(c, o, r)
      OBVIOUS
    <3>1. \A d : Bid(d)' = Bid(d)
      BY <2>1 DEF Bid, PoolOf
    <3> QED
      BY <2>1, <3>1 DEF Better, Outranks
  <2>6. HighIn(HeldHours(p), o, r)' = HighIn(HeldHours(p), o, r)
    BY <2>4, <2>5 DEF HighIn
  <2>7. /\ Guarded(HeldHours(p), HourOrg, Share(p), HighIn(HeldHours(p), o, r), book[o].org)
        /\ Yielding(HeldHours(p), HourOrg, Share(p), book[o].org)
    BY DEF FairTurns, FairlyAt
  <2>8. Guarded(HeldHours(p), HourOrg, Share(p), HighIn(HeldHours(p), o, r), book[o].org)'
    BY <2>1, <2>3, <2>4, <2>6, <2>7 DEF Guarded, Own
  <2>9. Yielding(HeldHours(p), HourOrg, Share(p), book[o].org)'
    BY <2>1, <2>3, <2>4, <2>7 DEF Yielding, Own
  <2> QED
    BY <2>1, <2>8, <2>9 DEF FairlyAt
<1> QED
  BY <1>1, <1>2 DEF Next

-----------------------------------------------------------------------------
(* Passes enough.  Every pass but the last turns an hour away, and an hour *)
(* only moves down: what has left the rungs of the ladders, hour by hour   *)
(* and rung by rung, grows with every pass, up to all there is.            *)

LadderSteps(b) ==
  {u \in Orders \X (1..MaxHours) \X UNION {DOMAIN b[o].rungs : o \in Orders} :
     u[3] \in DOMAIN b[u[1]].rungs /\ u[2] <= b[u[1]].hours}

StepsDown == {u \in LadderSteps(book) : HoursDownTo(u[1], u[3]) < u[2]}

HoursFit ==
  \A o \in Orders : \A r \in DOMAIN book[o].rungs : HoursDownTo(o, r) <= book[o].hours

Climb ==
  /\ HoursFit
  /\ seeking # {} => passes <= Cardinality(StepsDown)
  /\ phase = "done" /\ seeking # {} => passes = limit

LEMMA LadderStepsFinite ==
  ASSUME IInv
  PROVE  IsFiniteSet(LadderSteps(book)) /\ Cardinality(LadderSteps(book)) \in Nat
<1> DEFINE T == {DOMAIN book[o].rungs : o \in Orders}
           f == [o \in Orders |-> DOMAIN book[o].rungs]
<1>1. ASSUME NEW o \in Orders PROVE IsFiniteSet(DOMAIN book[o].rungs)
  <2>1. book[o].rungs \in Seq(Rung)
    BY DEF IInv, TypeOK, Order
  <2>2. DOMAIN book[o].rungs = 1..Len(book[o].rungs) /\ Len(book[o].rungs) \in Nat
    BY <2>1
  <2>3. 1 \in Int /\ Len(book[o].rungs) \in Int
    BY <2>2
  <2> QED
    BY <2>2, <2>3, FS_Interval
<1>2. f \in [Orders -> T] /\ \A t \in T : \E o \in Orders : f[o] = t
  OBVIOUS
<1>3. f \in Surjection(Orders, T)
  <2> HIDE DEF f, T
  <2> QED
    BY <1>2, Fun_IsSurj
<1>4. IsFiniteSet(T)
  <2> HIDE DEF f, T
  <2> QED
    BY <1>3, FS_Surjection, LadderAssumption
<1>5. IsFiniteSet(UNION T)
  <2>1. \A t \in T : IsFiniteSet(t)
    BY <1>1
  <2> HIDE DEF T
  <2> QED
    BY <1>4, <2>1, FS_UNION
<1>6. IsFiniteSet(1..MaxHours)
  BY FS_Interval, LadderAssumption
<1> DEFINE P == Orders \X (1..MaxHours) \X UNION T
<1>7. IsFiniteSet(P)
  <2> DEFINE Q == (1..MaxHours) \X UNION T
             g == [u \in Orders \X Q |-> <<u[1], u[2][1], u[2][2]>>]
  <2>1. IsFiniteSet(Q)
    <3> HIDE DEF T
    <3> QED
      BY <1>5, <1>6, FS_Product
  <2>2. IsFiniteSet(Orders \X Q)
    <3> HIDE DEF Q
    <3> QED
      BY <2>1, FS_Product, LadderAssumption
  <2>3. g \in [Orders \X Q -> P] /\ \A v \in P : \E u \in Orders \X Q : g[u] = v
    <3> HIDE DEF T
    <3>1. ASSUME NEW v \in P PROVE \E u \in Orders \X Q : g[u] = v
      <4>1. v = <<v[1], v[2], v[3]>> /\ v[1] \in Orders /\ v[2] \in 1..MaxHours /\ v[3] \in UNION T
        OBVIOUS
      <4>2. <<v[1], <<v[2], v[3]>>>> \in Orders \X Q
        BY <4>1
      <4>3. g[<<v[1], <<v[2], v[3]>>>>] = v
        BY <4>1, <4>2
      <4> QED
        BY <4>2, <4>3
    <3>2. g \in [Orders \X Q -> P]
      OBVIOUS
    <3> QED
      BY <3>1, <3>2
  <2>4. g \in Surjection(Orders \X Q, P)
    <3> HIDE DEF g, P, Q
    <3> QED
      BY <2>3, Fun_IsSurj
  <2> HIDE DEF g, P, Q
  <2> QED
    BY <2>2, <2>4, FS_Surjection
<1>8. LadderSteps(book) \subseteq P
  BY DEF LadderSteps
<1> HIDE DEF P
<1> QED
  BY <1>7, <1>8, FS_Subset, FS_CardinalityType

\* The hours of an order that stand at a rung or above never grow, and a pass
\* that turns hours away lets some of them down.
LEMMA PassLetsDown ==
  ASSUME IInv, ClearPass
  PROVE  /\ \A o \in Orders : \A r \in Nat : DownTo(o, r)' <= DownTo(o, r)
         /\ \A k \in Rest(OutcomeNow) : DownTo(k.order, k.rung)' < DownTo(k.order, k.rung)
<1>1. \A k \in Rest(OutcomeNow) :
        k \in Chunk /\ k.rung \in Nat /\ k.order \in Orders /\ k.hours \in 1..MaxHours
  BY RestChunks DEF Chunk
<1>2. ASSUME NEW k \in Rest(OutcomeNow), NEW s \in Best(RungsBelow(book[k.order], k.rung, view, TRUE))
      PROVE  s \in Nat /\ k.rung < s
  <2>1. s \in OpenRungs(book[k.order], view, TRUE) /\ s > k.rung
    BY <1>2 DEF Best, RungsBelow
  <2> QED
    BY <1>1, <2>1, OpenContext
<1>3. ASSUME NEW o \in Orders, NEW r \in Nat
      PROVE  /\ ComingTo(o, UpTo(r)) \subseteq On(Rest(OutcomeNow), o, UpTo(r))
             /\ \A k \in ComingTo(o, UpTo(r)) : k.rung < r
  <2> SUFFICES ASSUME NEW k \in ComingTo(o, UpTo(r))
               PROVE  k \in On(Rest(OutcomeNow), o, UpTo(r)) /\ k.rung < r
    OBVIOUS
  <2>1. /\ k \in Rest(OutcomeNow) /\ k.order = o
        /\ \E s \in UpTo(r) : s \in Best(RungsBelow(book[o], k.rung, view, TRUE))
    BY DEF ComingTo
  <2>2. PICK s \in UpTo(r) : s \in Best(RungsBelow(book[k.order], k.rung, view, TRUE))
    BY <2>1
  <2>3. k.rung < s /\ s \in Nat /\ s <= r /\ k.rung \in Nat
    BY <1>1, <1>2, <2>1, <2>2 DEF UpTo
  <2>4. k.rung <= r /\ k.rung < r
    BY <2>3
  <2> QED
    BY <1>1, <2>1, <2>4 DEF On, UpTo
<1>4. ASSUME NEW o \in Orders, NEW r \in Nat
      PROVE  DownTo(o, r)' <= DownTo(o, r)
             /\ ((\E k \in Rest(OutcomeNow) : k.order = o /\ k.rung = r)
                   => DownTo(o, r)' < DownTo(o, r))
  <2> DEFINE N == On(Rest(OutcomeNow), o, UpTo(r))
             M == ComingTo(o, UpTo(r))
  <2>1. /\ DownTo(o, r) = ServedOn(o, UpTo(r)) + Hours(N)
        /\ DownTo(o, r)' = ServedOn(o, UpTo(r)) + Hours(M)
        /\ ServedOn(o, UpTo(r)) \in Nat /\ Hours(N) \in Nat /\ Hours(M) \in Nat
    <3>1. PICK R : R = UpTo(r)
      OBVIOUS
    <3>2. /\ Hours(On(Standing, o, R)) = ServedOn(o, R) + Hours(On(Rest(OutcomeNow), o, R))
          /\ Hours(On(Standing', o, R)) = ServedOn(o, R) + Hours(ComingTo(o, R))
          /\ ServedOn(o, R) \in Nat
          /\ Hours(On(Rest(OutcomeNow), o, R)) \in Nat
          /\ Hours(ComingTo(o, R)) \in Nat
      BY RungHours
    <3> QED
      BY <3>1, <3>2 DEF DownTo
  <2>2. IsFiniteSet(Rest(OutcomeNow))
    BY RestChunks
  <2>3. IsFiniteSet(Units(N))
    <3>1. N \subseteq Rest(OutcomeNow)
      BY DEF On
    <3> HIDE DEF N
    <3> QED
      BY <2>2, <3>1, FS_Subset, UnitsFinite
  <2>4. M \subseteq N
    BY <1>3
  <2>5. Units(M) \subseteq Units(N)
    <3> HIDE DEF M, N
    <3> QED
      BY <2>4 DEF Units
  <2>6. Hours(M) <= Hours(N)
    <3> HIDE DEF M, N
    <3> QED
      BY <2>3, <2>5, FS_Subset DEF Hours
  <2>7. ASSUME NEW k \in Rest(OutcomeNow), k.order = o, k.rung = r
        PROVE  Hours(M) # Hours(N)
    <3>1. k \in N
      BY <2>7 DEF On, UpTo
    <3>2. k \notin M
      BY <1>3, <2>7
    <3>3. 1 \in 1..MaxHours /\ 1 <= k.hours
      BY <1>1, LadderAssumption
    <3>4. <<k, 1>> \in Units(N) /\ <<k, 1>> \notin Units(M)
      <4> HIDE DEF M, N
      <4> QED
        BY <3>1, <3>2, <3>3 DEF Units
    <3> HIDE DEF M, N
    <3> QED
      BY <2>3, <2>5, <3>4, FS_Subset DEF Hours
  <2> HIDE DEF M, N
  <2>8. DownTo(o, r)' <= DownTo(o, r)
    BY <2>1, <2>6
  <2>9. ASSUME NEW k \in Rest(OutcomeNow), k.order = o, k.rung = r
        PROVE  DownTo(o, r)' < DownTo(o, r)
    BY <2>1, <2>6, <2>7, <2>9
  <2> QED
    BY <2>8, <2>9
<1> QED
  BY <1>1, <1>4

LEMMA StepsDownBound ==
  ASSUME IInv
  PROVE  /\ IsFiniteSet(StepsDown) /\ StepsDown \subseteq LadderSteps(book)
         /\ Cardinality(StepsDown) \in Nat
<1>1. StepsDown \subseteq LadderSteps(book)
  BY DEF StepsDown
<1> QED
  BY <1>1, LadderStepsFinite, FS_Subset, FS_CardinalityType

LEMMA StepsCounted == IInv => Cardinality(StepsDown) \in Nat
BY StepsDownBound

\* Below what stands at a rung there is room: not all hours have left it.
LEMMA SomeStepLeft ==
  ASSUME IInv, seeking # {}
  PROVE  Cardinality(StepsDown) < Cardinality(LadderSteps(book))
<1>1. PICK c \in seeking : TRUE
  OBVIOUS
<1> DEFINE o == c.order
           r == c.rung
           u == <<o, 1, r>>
<1>2. c \in Standing /\ c \in Chunk /\ o \in Orders /\ r \in Nat /\ r \in DOMAIN book[o].rungs
      /\ c.hours \in 1..MaxHours
  BY DEF IInv, TypeOK, Standing, Chunk
<1>3. book[o].hours \in 1..MaxHours
  BY <1>2 DEF IInv, TypeOK, Order
<1>4. 1 \in 1..MaxHours /\ 1 <= book[o].hours /\ 1 <= c.hours
  BY <1>2, <1>3, LadderAssumption
<1>5. u \in LadderSteps(book)
  BY <1>2, <1>4 DEF LadderSteps
<1>6. HoursDownTo(o, r) = DownTo(o, r)
  BY <1>2, DownToIs DEF DownToAgrees
<1>7. <<c, 1>> \in Units(On(Standing, o, UpTo(r)))
  BY <1>2, <1>4 DEF On, UpTo, Units
<1>8. IsFiniteSet(Units(On(Standing, o, UpTo(r)))) /\ DownTo(o, r) \in Nat
  <2>1. On(Standing, o, UpTo(r)) \subseteq Standing
    BY DEF On
  <2> QED
    BY <2>1, StandingFinite, FS_Subset, UnitsFinite DEF DownTo
<1>9. DownTo(o, r) # 0
  BY <1>7, <1>8, FS_EmptySet DEF DownTo, Hours
<1>10. u \notin StepsDown
  <2>1. ~(DownTo(o, r) < 1)
    BY <1>8, <1>9
  <2> QED
    BY <1>6, <2>1 DEF StepsDown
<1> HIDE DEF u
<1>11. Cardinality(StepsDown) <= Cardinality(LadderSteps(book))
       /\ Cardinality(StepsDown) # Cardinality(LadderSteps(book))
  BY <1>5, <1>10, LadderStepsFinite, StepsDownBound, FS_Subset
<1> QED
  BY <1>11, LadderStepsFinite, StepsDownBound

\* A pass that leaves something seeking has let an hour down.
LEMMA PassClimbs ==
  ASSUME IInv, ClearPass, HoursFit, DownToAgrees, DownToAgrees', IInv'
  PROVE  /\ HoursFit'
         /\ seeking' # {} => Cardinality(StepsDown) + 1 <= Cardinality(StepsDown')
<1>1. book' = book /\ view' = view
  BY DEF ClearPass
<1>2. \A o \in Orders : \A r \in DOMAIN book[o].rungs : r \in Nat
  BY RungContext
<1>3. \A o \in Orders : \A r \in DOMAIN book[o].rungs :
        /\ HoursDownTo(o, r) = DownTo(o, r) /\ HoursDownTo(o, r)' = DownTo(o, r)'
        /\ DownTo(o, r) \in Nat /\ DownTo(o, r)' \in Nat
  <2> SUFFICES ASSUME NEW o \in Orders, NEW r \in DOMAIN book[o].rungs
               PROVE  /\ HoursDownTo(o, r) = DownTo(o, r) /\ HoursDownTo(o, r)' = DownTo(o, r)'
                      /\ DownTo(o, r) \in Nat /\ DownTo(o, r)' \in Nat
    OBVIOUS
  <2>1. HoursDownTo(o, r) = DownTo(o, r) /\ HoursDownTo(o, r)' = DownTo(o, r)'
    BY <1>2 DEF DownToAgrees
  <2>2. PICK R : R = UpTo(r)
    OBVIOUS
  <2>3. Hours(On(Standing, o, R)) \in Nat /\ Hours(On(Standing', o, R)) \in Nat
    BY RungHours
  <2> QED
    BY <2>1, <2>2, <2>3 DEF DownTo
<1>4. \A o \in Orders : \A r \in DOMAIN book[o].rungs :
        HoursDownTo(o, r)' <= HoursDownTo(o, r)
  BY <1>2, <1>3, PassLetsDown
<1>5. HoursFit'
  <2> SUFFICES ASSUME NEW o \in Orders, NEW r \in DOMAIN book[o].rungs
               PROVE  HoursDownTo(o, r)' <= book[o].hours
    BY <1>1 DEF HoursFit
  <2>1. HoursDownTo(o, r) <= book[o].hours /\ book[o].hours \in Int
    BY LadderAssumption DEF HoursFit, IInv, TypeOK, Order
  <2> QED
    BY <1>3, <1>4, <2>1
<1>6. \A u \in LadderSteps(book) :
        u[1] \in Orders /\ u[2] \in Nat /\ u[3] \in DOMAIN book[u[1]].rungs
  BY LadderAssumption DEF LadderSteps
<1>7. StepsDown' = {u \in LadderSteps(book) : HoursDownTo(u[1], u[3])' < u[2]}
  BY <1>1 DEF StepsDown, LadderSteps
<1>8. StepsDown \subseteq StepsDown'
  <2> SUFFICES ASSUME NEW u \in LadderSteps(book), HoursDownTo(u[1], u[3]) < u[2]
               PROVE  HoursDownTo(u[1], u[3])' < u[2]
    BY <1>7 DEF StepsDown
  <2> QED
    BY <1>3, <1>4, <1>6
<1>9. ASSUME seeking' # {}
      PROVE  \E u : u \in StepsDown' /\ u \notin StepsDown
  <2>1. PICK k \in Rest(OutcomeNow) : TRUE
    BY <1>9, PassEffect DEF Descend
  <2>2. k \in Chunk /\ \E c \in Standing : k.id = c.id /\ k.order = c.order /\ k.rung = c.rung
    BY RestChunks
  <2> DEFINE o == k.order
             r == k.rung
             n == HoursDownTo(o, r)
             u == <<o, n, r>>
  <2>3. o \in Orders /\ r \in DOMAIN book[o].rungs
    BY <2>2 DEF Chunk, IInv, TypeOK, Standing
  <2>4. HoursDownTo(o, r)' < n /\ n \in Nat /\ HoursDownTo(o, r)' \in Nat
    BY <1>2, <1>3, <2>3, PassLetsDown
  <2>5. n <= book[o].hours /\ book[o].hours \in 1..MaxHours
    BY <2>3 DEF HoursFit, IInv, TypeOK, Order
  <2> HIDE DEF n
  <2>6. n \in 1..MaxHours
    BY <2>4, <2>5, LadderAssumption
  <2>7. u \in LadderSteps(book)
    BY <2>3, <2>5, <2>6 DEF LadderSteps
  <2>8. u[1] = o /\ u[2] = n /\ u[3] = r
    OBVIOUS
  <2> HIDE DEF u
  <2>9. u \in StepsDown'
    BY <1>7, <2>4, <2>7, <2>8
  <2>10. u \notin StepsDown
    BY <2>4, <2>8 DEF StepsDown, n
  <2> QED
    BY <2>9, <2>10
<1>10. IsFiniteSet(StepsDown') /\ Cardinality(StepsDown') \in Nat /\ Cardinality(StepsDown) \in Nat
  <2>1. StepsDown' \subseteq LadderSteps(book)
    BY <1>7
  <2> QED
    BY <2>1, LadderStepsFinite, StepsDownBound, FS_Subset, FS_CardinalityType
<1>11. ASSUME seeking' # {} PROVE Cardinality(StepsDown) + 1 <= Cardinality(StepsDown')
  <2>1. Cardinality(StepsDown) <= Cardinality(StepsDown')
        /\ Cardinality(StepsDown) # Cardinality(StepsDown')
    BY <1>8, <1>9, <1>10, <1>11, FS_Subset
  <2> QED
    BY <1>10, <2>1
<1> QED
  BY <1>5, <1>11

\* An order enters whole, at one rung.
LEMMA StartsFit ==
  ASSUME IInv, Begun
  PROVE  HoursFit
<1> SUFFICES ASSUME NEW o \in Orders, NEW r \in DOMAIN book[o].rungs
             PROVE  HoursDownTo(o, r) <= book[o].hours
  BY DEF HoursFit
<1> DEFINE Made(q) == {[id |-> Cardinality(EnteredUpTo(book, q)), order |-> q, rung |-> x,
                        hours |-> book[q].hours] : x \in Best(OpenRungs(book[q], view, TRUE))}
           C == {c \in OfOrder(placed \cup seeking, o) : c.rung <= r}
<1>1. seeking = UNION {Made(q) : q \in Orders} /\ placed = {}
  BY DEF Begun, Begins, FirstChunks
<1>2. \A c \in C : c \in Made(o) /\ c \in Chunk
  <2> SUFFICES ASSUME NEW c \in C PROVE c \in Made(o) /\ c \in Chunk
    OBVIOUS
  <2>1. c \in seeking /\ c.order = o
    BY <1>1 DEF OfOrder
  <2>2. PICK q \in Orders : c \in Made(q)
    BY <1>1, <2>1
  <2>3. c.order = q
    <3>1. PICK x \in Best(OpenRungs(book[q], view, TRUE)) :
            c = [id |-> Cardinality(EnteredUpTo(book, q)), order |-> q, rung |-> x,
                 hours |-> book[q].hours]
      BY <2>2
    <3> QED
      BY <3>1
  <2> QED
    BY <2>1, <2>2, <2>3 DEF IInv, TypeOK
<1>3. \A x, y \in Best(OpenRungs(book[o], view, TRUE)) : x = y
  <2>1. PICK S : S = OpenRungs(book[o], view, TRUE)
    OBVIOUS
  <2>2. S \subseteq Nat
    BY <2>1, OpenContext
  <2>3. \A x, y \in Best(S) : x \in Nat /\ y \in Nat /\ x <= y /\ y <= x
    BY <2>2 DEF Best
  <2>4. \A x, y \in Best(S) : x = y
    BY <2>3
  <2> QED
    BY <2>1, <2>4
<1>4. \A c, d \in C : c = d
  <2> HIDE DEF C
  <2>1. \A c, d \in Made(o) : c = d
    BY <1>3
  <2> QED
    BY <1>2, <2>1
<1>5. \A c \in C : c.hours = book[o].hours
  <2> HIDE DEF C
  <2>1. ASSUME NEW c \in Made(o) PROVE c.hours = book[o].hours
    <3>1. PICK x \in Best(OpenRungs(book[o], view, TRUE)) :
            c = [id |-> Cardinality(EnteredUpTo(book, o)), order |-> o, rung |-> x,
                 hours |-> book[o].hours]
      BY <2>1
    <3> QED
      BY <3>1
  <2> QED
    BY <1>2, <2>1
<1>6. book[o].hours \in Nat
  BY LadderAssumption DEF IInv, TypeOK, Order
<1>7. Hours(C) <= book[o].hours
  <2> HIDE DEF C, Made
  <2>1. CASE C = {}
    <3>1. Units(C) = {}
      BY <2>1 DEF Units
    <3> QED
      BY <1>6, <3>1, FS_EmptySet DEF Hours
  <2>2. CASE C # {}
    <3>1. PICK c \in C : C = {c}
      BY <1>4, <2>2
    <3>2. Hours({c}) = c.hours
      BY <1>2, HoursOfOne
    <3> QED
      BY <1>5, <1>6, <3>1, <3>2
  <2> QED
    BY <2>1, <2>2
<1> QED
  BY <1>7 DEF HoursDownTo

LEMMA BeginClimb ==
  ASSUME IInv, Begun
  PROVE  Climb
<1>1. passes = 0 /\ phase = "passing"
  BY DEF Begun, Begins
<1> QED
  BY <1>1, StartsFit, StepsDownBound DEF Climb

LEMMA NextClimb == IInv /\ IInv' /\ Climb /\ [Next]_clearingVars => Climb'
<1> SUFFICES ASSUME IInv, IInv', Climb, [Next]_clearingVars
             PROVE  Climb'
  OBVIOUS
<1>1. CASE ClearPass
  <2>1. IInv'
    OBVIOUS
  <2>2. DownToAgrees /\ DownToAgrees'
    BY <2>1, DownToIs, PTL
  <2>3. HoursFit' /\ (seeking' # {} => Cardinality(StepsDown) + 1 <= Cardinality(StepsDown'))
    BY <1>1, <2>2, PassClimbs DEF Climb
  <2>4. passes' = passes + 1 /\ passes <= Cardinality(StepsDown) /\ phase' = "passing"
    BY <1>1 DEF ClearPass, Climb
  <2>5. passes \in Nat /\ Cardinality(StepsDown) \in Nat
    BY StepsDownBound DEF IInv, TypeOK
  <2>6. (Cardinality(StepsDown) \in Nat)'
    BY <2>1, StepsCounted, PTL
  <2>7. seeking' # {} => passes' <= Cardinality(StepsDown)'
    BY <2>3, <2>4, <2>5, <2>6
  <2> QED
    BY <2>3, <2>4, <2>7 DEF Climb
<1>2. CASE Settle \/ UNCHANGED clearingVars
  <2>1. UNCHANGED <<book, view, limit, placed, seeking, passes>>
    BY <1>2 DEF Settle, clearingVars
  <2>2. phase' = "done" /\ seeking' # {} => passes' = limit
    BY <1>2 DEF Settle, clearingVars, Climb
  <2>3. HoursFit' /\ StepsDown' = StepsDown
    <3>1. \A o, r : HoursDownTo(o, r)' = HoursDownTo(o, r)
      BY <2>1 DEF HoursDownTo
    <3>2. StepsDown' = StepsDown
      BY <2>1, <3>1 DEF StepsDown, LadderSteps
    <3> QED
      BY <2>1, <3>1, <3>2 DEF HoursFit, Climb
  <2> QED
    BY <2>1, <2>2, <2>3 DEF Climb
<1> QED
  BY <1>1, <1>2 DEF Next

-----------------------------------------------------------------------------
(* All that holds of a clearing from where it begins.                      *)

ClearingFair == FullOnceRefusing /\ FairTurns /\ Climb

LEMMA BeginsFair == Begun => ClearingFair
<1> SUFFICES ASSUME Begun PROVE ClearingFair
  OBVIOUS
<1>1. IInv /\ FullOnceRefusing
  BY BeginInv, BeginFull
<1> QED
  BY <1>1, StartsFair, BeginClimb DEF ClearingFair

LEMMA NextClearingFair ==
  IInv /\ IInv' /\ ClearingFair /\ [Next]_clearingVars => ClearingFair'
BY NextFull, NextFair, NextClimb DEF ClearingFair

LEMMA AlwaysFair == Spec => []ClearingFair
<1>1. Init => Begun
  BY DayAheadAssumption DEF Init, Begun
<1> QED
  BY <1>1, BeginsFair, NextClearingFair, Invariant, PTL DEF Spec

\* A block whose limit is no smaller than its hours times their rungs is never
\* cut short by it: when it is done, nothing is left seeking.
LEMMA PassesEnough ==
  ASSUME IInv, Climb, phase = "done", Cardinality(LadderSteps(book)) <= limit
  PROVE  seeking = {}
<1> SUFFICES ASSUME seeking # {} PROVE FALSE
  OBVIOUS
<1>1. limit <= Cardinality(StepsDown)
  BY DEF Climb
<1>2. Cardinality(StepsDown) < Cardinality(LadderSteps(book))
  BY SomeStepLeft
<1>3. limit \in Nat
  BY DEF IInv, TypeOK
<1> QED
  BY <1>1, <1>2, <1>3, LadderStepsFinite, StepsDownBound

\* A block whose limit is no smaller than its hours times their rungs is never
\* cut short by it: every hour stands somewhere or has been turned away everywhere.
THEOREM BlocksConverge ==
  Spec => [](phase = "done" /\ Cardinality(LadderSteps(book)) <= limit => seeking = {})
<1>1. IInv /\ ClearingFair =>
        (phase = "done" /\ Cardinality(LadderSteps(book)) <= limit => seeking = {})
  BY PassesEnough DEF ClearingFair
<1> QED
  BY <1>1, Invariant, AlwaysFair, PTL

\* The hours a pool holds with one more hour that asks for them.
LEMMA OneMoreAsks ==
  ASSUME IInv, NEW o \in Orders, NEW r \in DOMAIN book[o].rungs,
         NEW p \in Pools, p = book[o].rungs[r].pool,
         NEW D, D = At(book, placed, p) \cup {Asker(o, r, lastId + 1)}
  PROVE  /\ Rankable(D) /\ D \subseteq Chunk /\ IsFiniteSet(D)
         /\ <<Asker(o, r, lastId + 1), 1>> \in Units(D)
         /\ Units(D) \ {<<Asker(o, r, lastId + 1), 1>>} = HeldHours(p)
<1> DEFINE P == At(book, placed, p)
           A == Asker(o, r, lastId + 1)
<1>1. P \subseteq Standing
  BY DEF At, Standing
<1>2. Rankable(P) /\ IsFiniteSet(P)
  BY <1>1, StandingRankable, StandingFinite, FS_Subset
<1>3. lastId \in Nat /\ \A c \in P : c.id \in Nat /\ c.id <= lastId
  BY <1>1 DEF IInv, TypeOK, IdsGivenOut, Standing, Chunk
<1>4. A \in Chunk /\ 1 \in 1..MaxHours
  <2>1. r \in Nat \ {0} /\ book[o].hours \in 1..MaxHours
    BY RungContext DEF IInv, TypeOK, Order
  <2>2. 1 \in 1..MaxHours
    BY <2>1, LadderAssumption
  <2>3. lastId + 1 \in Nat
    BY <1>3
  <2> QED
    BY <2>1, <2>2, <2>3 DEF Asker, Chunk
<1>5. A.order = o /\ A.rung = r /\ A.id = lastId + 1 /\ A.hours = 1
  BY DEF Asker
<1>6. Bid(A) \in Nat /\ book[A.order].tier \in Int /\ book[A.order].lottery \in Nat
  BY AskerContext, <1>5
<1> HIDE DEF A
<1>7. A.id \in Nat /\ \A c \in P : c.id # A.id
  BY <1>3, <1>5
<1>8. D = P \cup {A}
  BY DEF A
<1>9. Rankable(D) /\ D \subseteq Chunk
  <2>1. D \subseteq Chunk
    BY <1>2, <1>4, <1>8 DEF Rankable
  <2>2. \A c, d \in D : c.id = d.id => c = d
    BY <1>2, <1>7, <1>8 DEF Rankable
  <2>3. \A c \in D : /\ Bid(c) \in Nat /\ book[c.order].tier \in Int
                     /\ book[c.order].lottery \in Nat
    BY <1>2, <1>6, <1>8 DEF Rankable
  <2> QED
    BY <2>1, <2>2, <2>3 DEF Rankable
<1>10. IsFiniteSet(D)
  BY <1>2, <1>8, FS_AddElement
<1>11. <<A, 1>> \in Units(D)
  BY <1>4, <1>5, <1>8 DEF Units
<1>12. Units(D) \ {<<A, 1>>} = Units(P)
  <2>1. ASSUME NEW u \in Units(D), u # <<A, 1>> PROVE u \in Units(P)
    <3>1. u = <<u[1], u[2]>> /\ u[1] \in D /\ u[2] \in 1..MaxHours /\ u[2] <= u[1].hours
      BY DEF Units
    <3>2. u[2] \in Nat /\ u[2] >= 1
      BY <3>1, LadderAssumption
    <3>3. u[1] # A
      BY <1>5, <2>1, <3>1, <3>2
    <3> QED
      BY <1>8, <3>1, <3>3 DEF Units
  <2>2. ASSUME NEW u \in Units(P) PROVE u \in Units(D) /\ u # <<A, 1>>
    <3>1. u \in P \X (1..MaxHours) /\ u[1] \in P /\ u[2] <= u[1].hours
      BY DEF Units
    <3>2. u[1] # A
      BY <1>7, <3>1
    <3> QED
      BY <1>8, <3>1, <3>2 DEF Units
  <2> QED
    BY <2>1, <2>2
<1> QED
  BY <1>9, <1>10, <1>11, <1>12 DEF A, HeldHours

LEMMA OneMoreReaches ==
  ASSUME IInv, NEW o \in Orders, NEW r \in OpenRungs(book[o], view, TRUE),
         NEW p \in Pools, p = book[o].rungs[r].pool,
         NEW c \in At(book, placed, p) \cup {Asker(o, r, lastId + 1)}
  PROVE  Bid(c) >= view[p].reserve
<1>1. CASE c \in At(book, placed, p)
  BY <1>1, BidsReachReserve DEF At, Standing
<1>2. CASE c = Asker(o, r, lastId + 1)
  <2>1. c.order = o /\ c.rung = r
    BY <1>2 DEF Asker
  <2> QED
    BY <2>1 DEF OpenRungs, Affordable, Bid
<1> QED
  BY <1>1, <1>2

\* No pass makes room for an hour that a pool turned away: it would be turned
\* away again.
THEOREM RefusedBidsStay == Spec => []RefusedBidsStayRefused
<1>1. IInv /\ FullOnceRefusing /\ FairTurns => RefusedBidsStayRefused
  <2> SUFFICES ASSUME IInv, FullOnceRefusing, FairTurns,
                      NEW o \in Orders, NEW r \in DOMAIN book[o].rungs, TurnedAway(o, r),
                      NEW p, p = book[o].rungs[r].pool,
                      NEW A, A = [id |-> lastId + 1, order |-> o, rung |-> r, hours |-> 1]
               PROVE  Cardinality({s \in Chosen(At(book, placed, p) \cup {A}, p) : s.chunk.order = o})
                        <= Hours(OfOrder(At(book, placed, p), o))
    BY DEF RefusedBidsStayRefused, Chosen
  <2>0. p \in Pools /\ A = Asker(o, r, lastId + 1)
    BY RungContext DEF Asker
  <2>1. PICK D : D = At(book, placed, p) \cup {A}
    OBVIOUS
  <2> DEFINE T == Units(D)
             X == HeldHours(p)
             a == <<A, 1>>
             rank == HourRank(T)
             h == book[o].org
  <2>2. /\ Rankable(D) /\ D \subseteq Chunk /\ IsFiniteSet(D) /\ IsFiniteSet(T)
        /\ a \in T /\ X = T \ {a} /\ StrictOrderBy(T, rank)
        /\ Share(p) \in Nat /\ view[p].supply \in Nat
        /\ \A c \in D : Bid(c) >= view[p].reserve
    <3>1. D = At(book, placed, p) \cup {Asker(o, r, lastId + 1)}
      BY <2>0, <2>1
    <3>3. r \in OpenRungs(book[o], view, TRUE)
      BY DEF TurnedAway
    <3>2. /\ Rankable(D) /\ D \subseteq Chunk /\ IsFiniteSet(D)
          /\ a \in T /\ T \ {a} = X
      BY <2>0, <3>1, OneMoreAsks
    <3>4. \A c \in D : Bid(c) >= view[p].reserve
      BY <2>0, <3>1, <3>3, OneMoreReaches
    <3> QED
      BY <2>0, <3>2, <3>4, UnitsFinite, RankableStrict, ShareNat
  <2>3. Cardinality(X) = view[p].supply
    BY DEF FullOnceRefusing, HeldAt, Hours, HeldHours
  <2>4. HourOrg[a] = h
    <3>1. a[1] = A /\ HourOrg[a] = OrgOf(a[1])
      BY <2>2, UnitForm
    <3> QED
      BY <2>0, <3>1, AskerContext
  <2>5. HighIn(X, o, r) \subseteq rank[a]
    <3> SUFFICES ASSUME NEW u \in HighIn(X, o, r) PROVE u \in rank[a]
      OBVIOUS
    <3>1. u \in X /\ Better(u[1], o, r) /\ u \in T
      BY <2>2 DEF HighIn
    <3> DEFINE c == u[1]
               b == Asker(o, r, c.id + 1)
    <3>2. c \in At(book, placed, p) /\ c \in Chunk
      BY <3>1 DEF HeldHours, Units, IInv, TypeOK, At
    <3>3. c.id \in Nat /\ c.id <= lastId /\ lastId \in Nat /\ c.order \in Nat
      BY <3>2, LadderAssumption DEF IInv, TypeOK, IdsGivenOut, Standing, Chunk, At
    <3>4. Outranks(c, b)
      BY <3>1 DEF Better
    <3>5. /\ A.order = o /\ A.rung = r /\ A.id = lastId + 1
          /\ b.order = o /\ b.rung = r /\ b.id = c.id + 1
      BY DEF Asker
    <3>6. Bid(b) = Bid(A)
      <4>1. PICK k : k = b
        OBVIOUS
      <4> HIDE DEF b
      <4>2. Bid(A) = Bid(k)
        BY <2>0, <3>5, <4>1, AskerContext
      <4> QED
        BY <4>1, <4>2
    <3> HIDE DEF b, c
    <3>7. Outranks(c, A)
      BY <3>3, <3>4, <3>5, <3>6 DEF Outranks
    <3>8. HourBefore(u, a)
      BY <3>7 DEF HourBefore, c
    <3> QED
      BY <2>2, <3>1, <3>8 DEF HourRank
  <2>6. /\ Guarded(X, HourOrg, Share(p), rank[a], HourOrg[a])
        /\ Yielding(X, HourOrg, Share(p), HourOrg[a])
    <3>1. /\ Guarded(X, HourOrg, Share(p), HighIn(X, o, r), h)
          /\ Yielding(X, HourOrg, Share(p), h)
      BY DEF FairTurns, FairlyAt
    <3> HIDE DEF X, rank, a, h
    <3> QED
      BY <2>4, <2>5, <3>1 DEF Guarded
  <2>7. a \notin ChosenHours(T, p)
    <3>1. ChosenHours(T, p) = ChosenOf(T, FirstBand(T, HourOrg, rank, Share(p)), rank, view[p].supply)
      BY DEF ChosenHours, FirstHours
    <3> DEFINE share == Share(p)
               room == view[p].supply
    <3> HIDE DEF T, X, rank, a, share, room
    <3>2. /\ IsFiniteSet(T) /\ StrictOrderBy(T, rank) /\ share \in Nat /\ room \in Nat
          /\ a \in T /\ X = T \ {a} /\ Cardinality(X) = room
      BY <2>2, <2>3, Zenon DEF share, room
    <3>3. Guarded(X, HourOrg, share, rank[a], HourOrg[a]) /\ Yielding(X, HourOrg, share, HourOrg[a])
      BY <2>6, Zenon DEF share
    <3>4. a \notin ChosenOf(T, FirstBand(T, HourOrg, rank, share), rank, room)
      BY <3>2, <3>3, NoRoomForMore
    <3> QED
      BY <3>1, <3>4, Zenon DEF share, room
  <2> DEFINE S == {s \in Chosen(D, p) : s.chunk.order = o}
             O == OfOrder(At(book, placed, p), o)
             f == [s \in S |-> HourOf(s)]
  <2>8. \A s \in S : s \in Slices(D, p) /\ HourOf(s) \in ChosenHours(T, p)
    BY <2>0, <2>2, ChosenAre DEF Chosen, Accepted, Served
  <2>9. ASSUME NEW s \in S PROVE HourOf(s) \in Units(O)
    <3>1. HourOf(s) \in X
      <4>1. HourOf(s) \in T /\ HourOf(s) # a
        BY <2>7, <2>8 DEF ChosenHours, ChosenOf
      <4> HIDE DEF T, X, a, S
      <4> QED
        BY <2>2, <4>1
    <3>2. HourOf(s)[1] = s.chunk /\ s.chunk.order = o
      BY DEF HourOf
    <3> QED
      BY <3>1, <3>2 DEF HeldHours, Units, OfOrder
  <2>10. \A s, t \in S : HourOf(s) = HourOf(t) => s = t
    <3>1. \A s \in S : s \in Slices(D, p)
      BY <2>8, Zenon
    <3>2. \A s, t \in Slices(D, p) : HourOf(s) = HourOf(t) => s = t
      BY <2>0, <2>2, SlicesAreHours
    <3> HIDE DEF S
    <3> QED
      BY <3>1, <3>2
  <2>11. f \in Injection(S, Units(O))
    <3>1. f \in [S -> Units(O)]
      BY <2>9
    <3>2. \A s, t \in S : f[s] = f[t] => s = t
      BY <2>10
    <3> HIDE DEF f, S, O
    <3> QED
      BY <3>1, <3>2, Fun_IsInj
  <2>12. IsFiniteSet(Units(O))
    <3>1. O \subseteq Standing
      BY DEF OfOrder, At, Standing
    <3> HIDE DEF O
    <3> QED
      BY <3>1, StandingFinite, FS_Subset, UnitsFinite
  <2>13. Cardinality(S) <= Hours(O)
    <3> HIDE DEF f, S, O
    <3> QED
      BY <2>11, <2>12, FS_Injection DEF Hours
  <2> QED
    BY <2>1, <2>13
<1> QED
  BY <1>1, Invariant, AlwaysFair, PTL DEF ClearingFair


-----------------------------------------------------------------------------
(* The loops of the code and the set of single hours.  A chunk stands for  *)
(* its hours: they are ranked alike, and what the loops take of it is the  *)
(* number of its hours that find room.                                     *)

ChunkRank(C) == [c \in C |-> {d \in C : Outranks(d, c)}]

ChunkOf(U) == [u \in U |-> u[1]]

LEMMA ChunksRanked ==
  ASSUME NEW C, Rankable(C)
  PROVE  StrictOrderBy(C, ChunkRank(C))
<1>1. \A c \in C : /\ Bid(c) \in Nat /\ book[c.order].tier \in Int
                   /\ book[c.order].lottery \in Nat
                   /\ c.order \in Nat /\ c.id \in Nat
  BY LadderAssumption DEF Rankable, Chunk
<1>2. \A c \in C : ~Outranks(c, c)
  BY <1>1 DEF Outranks
<1>3. \A c, d \in C : c = d \/ Outranks(c, d) \/ Outranks(d, c)
  BY <1>1 DEF Outranks, Rankable
<1>4. \A c, d, e \in C : Outranks(c, d) /\ Outranks(d, e) => Outranks(c, e)
  BY <1>1 DEF Outranks
<1> QED
  BY <1>2, <1>3, <1>4 DEF StrictOrderBy, ChunkRank

LEMMA UnitsAreHours ==
  ASSUME NEW C, Rankable(C), IsFiniteSet(C)
  PROVE  /\ RankedAlike(C, ChunkRank(C), Units(C), HourRank(Units(C)), ChunkOf(Units(C)))
         /\ CountOfEach(C, Units(C), ChunkOf(Units(C)), Units(C), [c \in C |-> c.hours])
<1> DEFINE U == Units(C)
<1>1. StrictOrderBy(C, ChunkRank(C)) /\ StrictOrderBy(U, HourRank(U)) /\ IsFiniteSet(U)
  BY ChunksRanked, RankableStrict, UnitsFinite
<1>2. C \subseteq Chunk
  BY DEF Rankable
<1>3. \A u \in U : u[1] \in C
  BY <1>2, UnitForm
<1>4. ChunkOf(U) \in [U -> C]
  BY <1>3 DEF ChunkOf
<1>5. \A x, y \in U : ChunkOf(U)[x] \in ChunkRank(C)[ChunkOf(U)[y]] => x \in HourRank(U)[y]
  BY <1>3 DEF ChunkOf, ChunkRank, HourRank, HourBefore
<1>6. ASSUME NEW c \in C
      PROVE  c.hours = Cardinality({x \in U : ChunkOf(U)[x] = c /\ x \in U})
  <2>1. {x \in U : ChunkOf(U)[x] = c /\ x \in U} = Units({c})
    BY <1>6 DEF ChunkOf, Units
  <2>2. c \in Chunk
    BY <1>2
  <2> QED
    BY <2>1, <2>2, HoursOfOne DEF Hours
<1>7. CountOfEach(C, U, ChunkOf(U), U, [c \in C |-> c.hours])
  BY <1>6 DEF CountOfEach
<1> QED
  BY <1>1, <1>4, <1>5, <1>7 DEF RankedAlike

\* Hours in band 0.
InBand(U, p) == {u \in U : Band(u, U, p) = 0}

\* The hours of a chunk in band 0 are what the loop takes in the cap.
LEMMA InCapCount ==
  ASSUME IInv, NEW p \in Pools, NEW C, Rankable(C), IsFiniteSet(C)
  PROVE  CountOfEach(C, Units(C), ChunkOf(Units(C)), InBand(Units(C), p),
           InCap(ChunkRank(C), [c \in C |-> OrgOf(c)],
                 IF Hours(C) > view[p].supply THEN CapHours(view[p]) ELSE Hours(C)))
<1> DEFINE U == Units(C)
           org == [c \in C |-> OrgOf(c)]
           room == IF Hours(C) > view[p].supply THEN CapHours(view[p]) ELSE Hours(C)
           sooner(x) == {v \in U : OrgOf(v[1]) = OrgOf(x[1]) /\ HourBefore(v, x)}
           hours == [c \in C |-> c.hours]
<1>1. /\ C \subseteq Chunk /\ StrictOrderBy(U, HourRank(U))
      /\ IsFiniteSet(U) /\ Hours(C) = Cardinality(U) /\ Hours(C) \in Nat
      /\ view[p].supply \in Nat /\ CapHours(view[p]) \in Nat
  BY RankableStrict, UnitsFinite, ShareNat DEF Rankable, Hours, Share
<1>2. room \in Nat
  BY <1>1
<1>3. \A u \in U : u[1] \in C
  BY <1>1, UnitForm
<1>4. \A x \in U : {y \in HourRank(U)[x] : org[ChunkOf(U)[y]] = org[ChunkOf(U)[x]]} = sooner(x)
  <2> SUFFICES ASSUME NEW x \in U
               PROVE  {y \in HourRank(U)[x] : org[ChunkOf(U)[y]] = org[ChunkOf(U)[x]]} = sooner(x)
    OBVIOUS
  <2>1. HourRank(U)[x] = {v \in U : HourBefore(v, x)}
    BY DEF HourRank
  <2>2. \A v \in U : org[ChunkOf(U)[v]] = OrgOf(v[1])
    BY <1>3 DEF ChunkOf
  <2> HIDE DEF U, org
  <2> QED
    BY <2>1, <2>2
<1>5. ASSUME NEW x \in U
      PROVE  Cardinality(sooner(x)) < room <=> x \in InBand(U, p)
  <2>1. ~HourBefore(x, x)
    BY <1>1 DEF StrictOrderBy, HourRank
  <2>2. sooner(x) \subseteq U /\ x \notin sooner(x)
    BY <2>1
  <2>3. x \in InBand(U, p) <=>
          ~(Cardinality(U) > view[p].supply /\ Cardinality(sooner(x)) >= CapHours(view[p]))
    BY DEF InBand, Band
  <2> HIDE DEF U, sooner
  <2>4. /\ Cardinality(sooner(x)) <= Cardinality(U) /\ Cardinality(sooner(x)) # Cardinality(U)
        /\ Cardinality(sooner(x)) \in Nat
    BY <1>1, <1>5, <2>2, FS_Subset, FS_CardinalityType
  <2> QED
    BY <1>1, <2>3, <2>4
<1>6. SUFFICES ASSUME NEW c \in C
               PROVE  InCap(ChunkRank(C), org, room)[c] =
                        Cardinality({x \in U : ChunkOf(U)[x] = c /\ x \in InBand(U, p)})
  BY DEF CountOfEach
<1>7. /\ RankedAlike(C, ChunkRank(C), U, HourRank(U), ChunkOf(U))
      /\ CountOfEach(C, U, ChunkOf(U), U, hours)
  BY UnitsAreHours
<1>8. InCap(ChunkRank(C), org, room)[c] =
        Cardinality({x \in U :
          /\ ChunkOf(U)[x] = c
          /\ Cardinality({y \in HourRank(U)[x] : org[ChunkOf(U)[y]] = org[c]}) < room})
  <2>1. hours = [d \in C |-> d.hours]
    OBVIOUS
  <2> HIDE DEF U, org, room, hours
  <2> QED
    BY <1>2, <1>6, <1>7, <2>1, InCapIs
<1> HIDE DEF U, org, room, sooner
<1>9. {x \in U : /\ ChunkOf(U)[x] = c
                 /\ Cardinality({y \in HourRank(U)[x] : org[ChunkOf(U)[y]] = org[c]}) < room} =
      {x \in U : ChunkOf(U)[x] = c /\ x \in InBand(U, p)}
  BY <1>4, <1>5
<1> QED
  BY <1>8, <1>9

\* Some of the hours, as they are ranked.
PartRank(D, U) == [x \in D |-> HourRank(U)[x] \cap D]

PartChunk(D, U) == [x \in D |-> ChunkOf(U)[x]]

\* The hours of D that a pool serves, those in band 0 first.
ServedHours(D, U, p) == ChosenOf(D, InBand(U, p), PartRank(D, U), view[p].supply)

SlicesOf(D, C, p) == {s \in Slices(C, p) : HourOf(s) \in D}

LEMMA ServedAre ==
  ASSUME IInv, NEW p \in Pools, NEW C, Rankable(C), IsFiniteSet(C), NEW D \in SUBSET Units(C)
  PROVE  \A s \in SlicesOf(D, C, p) :
           s \in Served(SlicesOf(D, C, p), p) <=> HourOf(s) \in ServedHours(D, Units(C), p)
<1> DEFINE U == Units(C)
           S == SlicesOf(D, C, p)
<1>1. C \subseteq Chunk
  BY DEF Rankable
<1>2. /\ \A s \in S : HourOf(s) \in D /\ s.band = Band(HourOf(s), U, p)
      /\ \A s, t \in S : HourOf(s) = HourOf(t) => s = t
      /\ \A u \in D : \E s \in S : HourOf(s) = u
  BY <1>1, SlicesAreHours DEF SlicesOf
<1>3. IsFiniteSet(S)
  BY <1>1, HoursOfSlices, FS_Subset DEF SlicesOf
<1>4. SUFFICES ASSUME NEW s \in S
               PROVE  s \in Served(S, p) <=> HourOf(s) \in ServedHours(D, U, p)
  OBVIOUS
<1> DEFINE A == {t \in S : Ahead(t, s)}
           F == InFront(D, InBand(U, p), PartRank(D, U), HourOf(s))
           f == [t \in A |-> HourOf(t)]
<1>5. s \in Served(S, p) <=> Cardinality(A) < view[p].supply
  BY DEF Served
<1>6. HourOf(s) \in ServedHours(D, U, p) <=> Cardinality(F) < view[p].supply
  BY <1>2 DEF ServedHours, ChosenOf
<1>7. \A t \in S : t.band \in {0, 1} /\ (t.band = 0 <=> HourOf(t) \in InBand(U, p))
  BY <1>2 DEF InBand, Band
<1>8. \A t \in S : HourOf(t) \in PartRank(D, U)[HourOf(s)] <=> HourBefore(HourOf(t), HourOf(s))
  BY <1>2 DEF PartRank, HourRank
<1>9. \A t \in S : Ahead(t, s) <=> HourOf(t) \in F
  <2> SUFFICES ASSUME NEW t \in S PROVE Ahead(t, s) <=> HourOf(t) \in F
    OBVIOUS
  <2>1. /\ t.band < s.band <=> (HourOf(t) \in InBand(U, p) /\ HourOf(s) \notin InBand(U, p))
        /\ t.band = s.band <=> (HourOf(t) \in InBand(U, p) <=> HourOf(s) \in InBand(U, p))
    BY <1>7
  <2>2. Ahead(t, s) <=> \/ t.band < s.band
                        \/ t.band = s.band /\ HourBefore(HourOf(t), HourOf(s))
    BY DEF Ahead, HourOf
  <2> QED
    BY <1>2, <1>8, <2>1, <2>2 DEF InFront
<1>10. f \in [A -> F]
  BY <1>9
<1>11. \A x, y \in A : f[x] = f[y] => x = y
  BY <1>2
<1>12. \A z \in F : \E x \in A : f[x] = z
  BY <1>2, <1>9 DEF InFront
<1>13. IsFiniteSet(A)
  BY <1>3, FS_Subset
<1> HIDE DEF f, A, F
<1>14. Cardinality(F) = Cardinality(A)
  BY <1>10, <1>11, <1>12, <1>13, SameSize
<1> QED
  BY <1>5, <1>6, <1>14

\* A chunk is granted as many slices as it has among the served hours.
LEMMA GrantedIs ==
  ASSUME IInv, NEW p \in Pools, NEW C, Rankable(C), IsFiniteSet(C), NEW D \in SUBSET Units(C),
         NEW c \in C
  PROVE  Granted(Served(SlicesOf(D, C, p), p), c) =
           Cardinality({x \in ServedHours(D, Units(C), p) : PartChunk(D, Units(C))[x] = c})
<1> DEFINE U == Units(C)
           S == SlicesOf(D, C, p)
           A == {s \in Served(S, p) : s.chunk = c}
           H == {x \in ServedHours(D, U, p) : PartChunk(D, U)[x] = c}
           hour == [s \in A |-> HourOf(s)]
<1>1. C \subseteq Chunk /\ IsFiniteSet(U)
  BY UnitsFinite DEF Rankable
<1>2. /\ \A s \in S : HourOf(s) \in D
      /\ \A s, t \in S : HourOf(s) = HourOf(t) => s = t
      /\ \A u \in D : \E s \in S : HourOf(s) = u
  BY <1>1, SlicesAreHours DEF SlicesOf
<1>3. \A s \in S : s \in Served(S, p) <=> HourOf(s) \in ServedHours(D, U, p)
  BY ServedAre
<1>4. A \subseteq S /\ H \subseteq D
  BY DEF Served, ServedHours, ChosenOf
<1>5. \A s \in S : PartChunk(D, U)[HourOf(s)] = s.chunk
  <2> SUFFICES ASSUME NEW s \in S PROVE PartChunk(D, U)[HourOf(s)] = s.chunk
    OBVIOUS
  <2>1. HourOf(s) \in D /\ HourOf(s) \in U /\ HourOf(s)[1] = s.chunk
    BY <1>2 DEF HourOf
  <2> QED
    BY <2>1 DEF PartChunk, ChunkOf
<1>6. hour \in [A -> H]
  BY <1>3, <1>4, <1>5
<1>7. \A z \in H : \E s \in A : hour[s] = z
  BY <1>2, <1>3, <1>4, <1>5
<1>8. IsFiniteSet(H)
  BY <1>1, <1>4, FS_Subset
<1>9. hour \in Bijection(A, H)
  BY <1>2, <1>4, <1>6, <1>7, Fun_IsBij
<1> HIDE DEF A, H, hour
<1>10. Cardinality(A) = Cardinality(H)
  BY <1>8, <1>9, Fun_ExistsBijSymmetric, FS_Bijection DEF ExistsBijection
<1> QED
  BY <1>10 DEF Granted, A, H

\* The loop over the slices in the cap: what a chunk gets, and whether some of it
\* is refused.
LEMMA FirstLoop ==
  ASSUME IInv, NEW p \in Pools, NEW C, Rankable(C), IsFiniteSet(C),
         NEW in, CountOfEach(C, Units(C), ChunkOf(Units(C)), InBand(Units(C), p), in),
         NEW c \in C
  PROVE  LET ranked == InOrder(ChunkRank(C))
             takes == Takes(view[p].supply, InTurn(ranked, in))
         IN takes[PlaceOf(c, ranked)] < in[c] <=>
              \E s \in InCapSlices(C, p) \ Served(InCapSlices(C, p), p) : s.chunk = c
<1> DEFINE U == Units(C)
           D == InBand(U, p)
           K == view[p].supply
           chunk == PartChunk(D, U)
           before == PartRank(D, U)
           ranked == InOrder(ChunkRank(C))
           takes == Takes(K, InTurn(ranked, in))
           T == ServedHours(D, U, p)
           got == [d \in C |-> takes[PlaceOf(d, ranked)]]
           rest == [d \in C |-> in[d] - got[d]]
<1>1. D \in SUBSET U /\ IsFiniteSet(D) /\ K \in Nat /\ C \subseteq Chunk
  BY UnitsFinite, ShareNat, FS_Subset DEF InBand, Rankable
<1>2. RankedAlike(C, ChunkRank(C), D, before, chunk)
  <2>1. RankedAlike(C, ChunkRank(C), U, HourRank(U), ChunkOf(U))
    BY UnitsAreHours
  <2> HIDE DEF U, D
  <2> QED
    BY <1>1, <2>1, PartOfRanked DEF PartRank, PartChunk
<1>3. CountOfEach(C, D, chunk, D, in)
  <2> SUFFICES ASSUME NEW d \in C PROVE in[d] = Cardinality({x \in D : chunk[x] = d /\ x \in D})
    BY DEF CountOfEach
  <2>1. in[d] = Cardinality({x \in U : ChunkOf(U)[x] = d /\ x \in D})
    BY DEF CountOfEach
  <2>2. {x \in U : ChunkOf(U)[x] = d /\ x \in D} = {x \in D : chunk[x] = d /\ x \in D}
    BY <1>1 DEF PartChunk
  <2> QED
    BY <2>1, <2>2
<1>4. \A x \in D : InFront(D, D, before, x) = before[x]
  BY DEF InFront, PartRank
<1>5. CountOfEach(C, D, chunk, T, got)
  <2> SUFFICES ASSUME NEW d \in C
               PROVE  takes[PlaceOf(d, ranked)] = Cardinality({x \in D : chunk[x] = d /\ x \in T})
    BY DEF CountOfEach
  <2>1. takes[PlaceOf(d, ranked)] =
          Cardinality({x \in D : chunk[x] = d /\ Cardinality(before[x]) < K})
    <3> HIDE DEF D, K, chunk, before
    <3> QED
      BY <1>1, <1>2, <1>3, RankedTakes
  <2>2. {x \in D : chunk[x] = d /\ Cardinality(before[x]) < K} = {x \in D : chunk[x] = d /\ x \in T}
    <3> HIDE DEF chunk, before
    <3> QED
      BY <1>4 DEF ServedHours, ChosenOf, before
  <2> QED
    BY <2>1, <2>2
<1>6. SomeOfEach(C, D \ T, chunk, rest)
  <2>1. LeftOver(C, in, got, rest)
    BY DEF LeftOver
  <2> HIDE DEF D, T, chunk, got, rest
  <2> QED
    BY <1>1, <1>3, <1>5, <2>1, RestOfEach
<1>7. takes[PlaceOf(c, ranked)] < in[c] <=> rest[c] > 0
  <2>1. in[c] \in Nat /\ got[c] \in Nat
    <3>1. \A Q : Cardinality({x \in D : chunk[x] = c /\ x \in Q}) \in Nat
      BY <1>1, FS_Subset, FS_CardinalityType
    <3>2. /\ in[c] = Cardinality({x \in D : chunk[x] = c /\ x \in D})
          /\ got[c] = Cardinality({x \in D : chunk[x] = c /\ x \in T})
      <4> HIDE DEF got, D, T, chunk
      <4> QED
        BY <1>3, <1>5 DEF CountOfEach
    <3> QED
      BY <3>1, <3>2
  <2>2. got[c] = takes[PlaceOf(c, ranked)] /\ rest[c] = in[c] - got[c]
    OBVIOUS
  <2> HIDE DEF got, rest, takes
  <2> QED
    BY <2>1, <2>2
<1>8. rest[c] > 0 <=> \E x \in D \ T : chunk[x] = c
  <2> HIDE DEF rest, D, T, chunk
  <2> QED
    BY <1>6 DEF SomeOfEach
<1>9. SlicesOf(D, C, p) = InCapSlices(C, p)
  <2>1. \A s \in Slices(C, p) : HourOf(s) \in U /\ s.band = Band(HourOf(s), U, p)
    BY <1>1, SlicesAreHours
  <2> QED
    BY <2>1 DEF SlicesOf, InCapSlices, InBand
<1>10. /\ \A s \in InCapSlices(C, p) : HourOf(s) \in D /\ chunk[HourOf(s)] = s.chunk
       /\ \A x \in D : \E s \in InCapSlices(C, p) : HourOf(s) = x
       /\ \A s \in InCapSlices(C, p) : s \in Served(InCapSlices(C, p), p) <=> HourOf(s) \in T
  <2>1. \A s \in SlicesOf(D, C, p) : HourOf(s) \in D /\ HourOf(s) \in U /\ HourOf(s)[1] = s.chunk
    BY <1>1 DEF SlicesOf, HourOf
  <2>2. \A s \in SlicesOf(D, C, p) : chunk[HourOf(s)] = s.chunk
    BY <2>1 DEF PartChunk, ChunkOf
  <2>3. \A x \in D : \E s \in SlicesOf(D, C, p) : HourOf(s) = x
    BY <1>1, SlicesAreHours DEF SlicesOf
  <2>4. \A s \in SlicesOf(D, C, p) : s \in Served(SlicesOf(D, C, p), p) <=> HourOf(s) \in T
    BY <1>1, ServedAre
  <2> QED
    BY <1>9, <2>1, <2>2, <2>3, <2>4
<1> HIDE DEF D, T, chunk
<1>11. (\E x \in D \ T : chunk[x] = c) <=>
         \E s \in InCapSlices(C, p) \ Served(InCapSlices(C, p), p) : s.chunk = c
  BY <1>10
<1> QED
  BY <1>7, <1>8, <1>11

\* Both loops, the second one over the slices that bid the price.
LEMMA BothLoops ==
  ASSUME IInv, NEW p \in Pools, NEW C, C \subseteq Standing,
         NEW in, CountOfEach(C, Units(C), ChunkOf(Units(C)), InBand(Units(C), p), in),
         NEW bidding,
         \A c \in C : bidding[c] = IF Bid(c) < UniformPrice(Slices(C, p), p) THEN 0
                                   ELSE c.hours - in[c],
         NEW c \in C
  PROVE  FromBoth(ChunkRank(C), in, bidding, view[p].supply, c) = Granted(Chosen(C, p), c)
<1> DEFINE U == Units(C)
           I == InBand(U, p)
           dear == UniformPrice(Slices(C, p), p)
           D == {u \in U : u \in I \/ ~(Bid(u[1]) < dear)}
           K == view[p].supply
           chunk == PartChunk(D, U)
           before == PartRank(D, U)
           hours == [d \in C |-> d.hours]
           over == [d \in C |-> d.hours - in[d]]
<1>0. Rankable(C) /\ IsFiniteSet(C)
  BY StandingRankable, StandingFinite, FS_Subset
<1>1. D \in SUBSET U /\ IsFiniteSet(U) /\ K \in Nat /\ C \subseteq Chunk
  BY <1>0, UnitsFinite, ShareNat DEF Rankable
<1>2. /\ RankedAlike(C, ChunkRank(C), U, HourRank(U), ChunkOf(U))
      /\ CountOfEach(C, U, ChunkOf(U), U, hours)
  BY <1>0, UnitsAreHours
<1>3. RankedAlike(C, ChunkRank(C), D, before, chunk)
  <2> HIDE DEF U, D
  <2> QED
    BY <1>1, <1>2, PartOfRanked DEF PartRank, PartChunk
<1>4. CountOfEach(C, U, ChunkOf(U), U \ I, over)
  <2>1. LeftOver(C, hours, in, over)
    BY DEF LeftOver
  <2>2. CountOfEach(C, U, ChunkOf(U), I, in)
    OBVIOUS
  <2> HIDE DEF U, I, hours, over
  <2> QED
    BY <1>1, <1>2, <2>1, <2>2, RestOfEach
<1>5. \A x \in D : chunk[x] = ChunkOf(U)[x] /\ ChunkOf(U)[x] = x[1]
  BY <1>1 DEF PartChunk, ChunkOf
<1>6. CountOfEach(C, D, chunk, I, in)
  <2> SUFFICES ASSUME NEW d \in C PROVE in[d] = Cardinality({x \in D : chunk[x] = d /\ x \in I})
    BY DEF CountOfEach
  <2>1. in[d] = Cardinality({x \in U : ChunkOf(U)[x] = d /\ x \in I})
    BY DEF CountOfEach
  <2>2. {x \in U : ChunkOf(U)[x] = d /\ x \in I} = {x \in D : chunk[x] = d /\ x \in I}
    BY <1>5
  <2> QED
    BY <2>1, <2>2
<1>7. CountOfEach(C, D, chunk, D \ I, bidding)
  <2> SUFFICES ASSUME NEW d \in C
               PROVE  bidding[d] = Cardinality({x \in D : chunk[x] = d /\ x \in D \ I})
    BY DEF CountOfEach
  <2>1. CASE Bid(d) < dear
    <3>1. {x \in D : chunk[x] = d /\ x \in D \ I} = {}
      BY <1>5, <2>1
    <3> QED
      BY <2>1, <3>1, FS_EmptySet
  <2>2. CASE ~(Bid(d) < dear)
    <3>1. over[d] = Cardinality({x \in U : ChunkOf(U)[x] = d /\ x \in U \ I})
      <4> HIDE DEF U, I, over
      <4> QED
        BY <1>4 DEF CountOfEach
    <3>2. \A x \in U : ChunkOf(U)[x] = d => (x \in U \ I <=> x \in D \ I)
      BY <2>2 DEF ChunkOf
    <3>3. {x \in U : ChunkOf(U)[x] = d /\ x \in U \ I} = {x \in D : chunk[x] = d /\ x \in D \ I}
      BY <1>5, <3>2
    <3> QED
      BY <2>2, <3>1, <3>3
  <2> QED
    BY <2>1, <2>2
<1>8. FromBoth(ChunkRank(C), in, bidding, K, c) =
        Cardinality({x \in ChosenOf(D, I, before, K) : chunk[x] = c})
  <2> HIDE DEF U, I, dear, D, K, chunk, before, hours, over
  <2> QED
    BY <1>1, <1>3, <1>6, <1>7, BandedTakes
<1>9. SlicesOf(D, C, p) = {s \in Slices(C, p) : s.band = 0 \/ Bid(s.chunk) >= dear}
  <2>1. \A s \in Slices(C, p) : /\ HourOf(s) \in U /\ HourOf(s)[1] = s.chunk
                                /\ s.band = Band(HourOf(s), U, p) /\ s.chunk \in C
    BY <1>1, SlicesAreHours DEF HourOf
  <2>2. \A s \in Slices(C, p) : HourOf(s) \in I <=> s.band = 0
    BY <2>1 DEF InBand
  <2>3. dear \in Nat /\ \A d \in C : Bid(d) \in Nat
    BY <1>0, PriceIs DEF Rankable
  <2>4. \A s \in Slices(C, p) : HourOf(s) \in D <=> s.band = 0 \/ Bid(s.chunk) >= dear
    <3> SUFFICES ASSUME NEW s \in Slices(C, p)
                 PROVE  HourOf(s) \in D <=> s.band = 0 \/ Bid(s.chunk) >= dear
      OBVIOUS
    <3>1. HourOf(s) \in D <=> HourOf(s) \in I \/ ~(Bid(s.chunk) < dear)
      BY <2>1
    <3>2. ~(Bid(s.chunk) < dear) <=> Bid(s.chunk) >= dear
      <4> HIDE DEF dear
      <4> QED
        BY <2>1, <2>3
    <3> QED
      BY <2>2, <3>1, <3>2
  <2> HIDE DEF D
  <2> QED
    BY <2>4 DEF SlicesOf
<1>10. Chosen(C, p) = Served(SlicesOf(D, C, p), p)
  BY <1>9 DEF Chosen, Accepted
<1>11. Granted(Chosen(C, p), c) = Cardinality({x \in ChosenOf(D, I, before, K) : chunk[x] = c})
  <2> HIDE DEF D
  <2> QED
    BY <1>0, <1>1, <1>10, GrantedIs DEF ServedHours
<1> QED
  BY <1>8, <1>11

\* Over any invariant state, the loops of the code and the set of single hours
\* agree at every pool: on the price, on what a chunk gets and on the flag.
LEMMA LoopsAgreeAt ==
  ASSUME IInv, NEW p \in Pools, NEW C, C \subseteq Standing
  PROVE  LET slices == Slices(C, p)
             greedy == Greedy(C, p)
         IN /\ \A c \in C : greedy.accepted[c] = Granted(Accepted(slices, p), c)
            /\ greedy.price = UniformPrice(slices, p)
            /\ greedy.capped = \E s \in slices : s.band = 1
<1> DEFINE U == Units(C)
           slices == Slices(C, p)
           supply == view[p].supply
           room == IF Hours(C) > supply THEN CapHours(view[p]) ELSE Hours(C)
           in == InCap(ChunkRank(C), [c \in C |-> OrgOf(c)], room)
           over == [c \in C |-> c.hours - in[c]]
           ranked == InOrder(ChunkRank(C))
           inTakes == Takes(supply, InTurn(ranked, in))
           refused == {Bid(c) : c \in {d \in C : inTakes[PlaceOf(d, ranked)] < in[d]}}
           out == InCapSlices(C, p) \ Served(InCapSlices(C, p), p)
           prices == {view[p].reserve} \cup refused
           dear == CHOOSE b \in prices : \A x \in prices : b >= x
           bidding == [c \in C |-> IF Bid(c) < dear THEN 0 ELSE over[c]]
           takes == Takes(supply, InTurn(ranked, in) \o InTurn(ranked, bidding))
           G == [accepted |-> [c \in C |-> takes[PlaceOf(c, ranked)] +
                                           takes[Len(ranked) + PlaceOf(c, ranked)]],
                 price |-> dear,
                 capped |-> \E c \in C : over[c] > 0]
           hours == [c \in C |-> c.hours]
<1>1. Greedy(C, p) = G
  BY DEF Greedy, ChunkRank
<1>2. Rankable(C) /\ IsFiniteSet(C)
  BY StandingRankable, StandingFinite, FS_Subset
<1>3. CountOfEach(C, U, ChunkOf(U), InBand(U, p), in)
  BY <1>2, InCapCount
<1>4. /\ RankedAlike(C, ChunkRank(C), U, HourRank(U), ChunkOf(U))
      /\ CountOfEach(C, U, ChunkOf(U), U, hours)
      /\ IsFiniteSet(U) /\ C \subseteq Chunk
  BY <1>2, UnitsAreHours, UnitsFinite DEF Rankable
<1>5. refused = {Bid(s.chunk) : s \in out}
  <2>1. \A s \in out : s.chunk \in C
    BY <1>4, SlicesAreHours, UnitForm DEF InCapSlices, HourOf
  <2>2. \A c \in C : inTakes[PlaceOf(c, ranked)] < in[c] <=> \E s \in out : s.chunk = c
    <3> SUFFICES ASSUME NEW c \in C
                 PROVE  inTakes[PlaceOf(c, ranked)] < in[c] <=> \E s \in out : s.chunk = c
      OBVIOUS
    <3> HIDE DEF in
    <3> QED
      BY <1>2, <1>3, FirstLoop
  <2> HIDE DEF in, inTakes, ranked, out
  <2> QED
    BY <2>1, <2>2
<1>6. dear = UniformPrice(slices, p)
  <2>1. prices = {view[p].reserve} \cup {Bid(s.chunk) : s \in out}
    BY <1>5
  <2>2. UniformPrice(slices, p) =
          LET bids == {view[p].reserve} \cup {Bid(s.chunk) : s \in out}
          IN CHOOSE b \in bids : \A x \in bids : b >= x
    BY DEF UniformPrice, InCapSlices
  <2> HIDE DEF prices, out
  <2> QED
    BY <2>1, <2>2
<1>7. ASSUME NEW c \in C
      PROVE  G.accepted[c] = Granted(Accepted(slices, p), c)
  <2>1. \A d \in C : bidding[d] = IF Bid(d) < UniformPrice(slices, p) THEN 0 ELSE d.hours - in[d]
    <3> HIDE DEF dear, in, slices
    <3> QED
      BY <1>6
  <2>2. takes[PlaceOf(c, ranked)] + takes[Len(ranked) + PlaceOf(c, ranked)] =
          Granted(Chosen(C, p), c)
    <3>1. takes[PlaceOf(c, ranked)] + takes[Len(ranked) + PlaceOf(c, ranked)] =
            FromBoth(ChunkRank(C), in, bidding, supply, c)
      BY DEF FromBoth
    <3> HIDE DEF in, bidding, takes, ranked
    <3>2. FromBoth(ChunkRank(C), in, bidding, supply, c) = Granted(Chosen(C, p), c)
      BY <1>2, <1>3, <1>7, <2>1, BothLoops
    <3> QED
      BY <3>1, <3>2
  <2>3. Chosen(C, p) = Accepted(slices, p)
    BY DEF Chosen
  <2>4. G.accepted[c] = takes[PlaceOf(c, ranked)] + takes[Len(ranked) + PlaceOf(c, ranked)]
    BY <1>7
  <2> QED
    BY <2>2, <2>3, <2>4
<1>8. G.capped = \E s \in slices : s.band = 1
  <2>1. LeftOver(C, hours, in, over)
    BY DEF LeftOver
  <2>2. SomeOfEach(C, U \ InBand(U, p), ChunkOf(U), over)
    <3> HIDE DEF in, over, U, hours
    <3> QED
      BY <1>3, <1>4, <2>1, RestOfEach
  <2>3. \A x \in U : ChunkOf(U)[x] \in C
    BY <1>4 DEF RankedAlike
  <2>4. \A u \in U : u \notin InBand(U, p) <=> Band(u, U, p) = 1
    BY DEF InBand, Band
  <2>5. (\E s \in slices : s.band = 1) <=> \E u \in U \ InBand(U, p) : TRUE
    BY <1>4, <2>4, SlicesAreHours
  <2> HIDE DEF over, U, slices
  <2> QED
    BY <2>2, <2>3, <2>5 DEF SomeOfEach
<1> HIDE DEF G, slices
<1>9. G.price = dear
  BY DEF G
<1> HIDE DEF dear
<1> QED
  BY <1>1, <1>6, <1>7, <1>8, <1>9 DEF slices

\* The slices a pool accepts and the price they make, on which every other
\* theorem rests, are what the loops of _allocate_day_ahead take and the highest
\* bid that the first of them does not serve in full; and the flag of the org cap
\* is raised alike.
THEOREM LoopsAgree == Spec => []GreedyAgrees
<1>1. IInv => GreedyAgrees
  <2> SUFFICES ASSUME IInv, NEW p \in Pools
               PROVE  LET C == At(book, placed \cup seeking, p)
                          slices == Slices(C, p)
                          greedy == Greedy(C, p)
                      IN /\ \A c \in C : greedy.accepted[c] = Granted(Accepted(slices, p), c)
                         /\ greedy.price = UniformPrice(slices, p)
                         /\ greedy.capped = \E s \in slices : s.band = 1
    BY DEF GreedyAgrees
  <2> DEFINE C == At(book, placed \cup seeking, p)
  <2>1. C \subseteq Standing
    BY DEF At, Standing
  <2> HIDE DEF C
  <2>2. LET slices == Slices(C, p)
            greedy == Greedy(C, p)
        IN /\ \A c \in C : greedy.accepted[c] = Granted(Accepted(slices, p), c)
           /\ greedy.price = UniformPrice(slices, p)
           /\ greedy.capped = \E s \in slices : s.band = 1
    BY <2>1, LoopsAgreeAt
  <2> QED
    BY <2>2 DEF C
<1> QED
  BY <1>1, Invariant, PTL

-----------------------------------------------------------------------------
(* The request around the clearing.                                        *)

QuoteOf(p) == offer[p].quote

\* What the pools offer has its type: their reserves and supplies are numbers.
LEMMA CheapestIs ==
  ASSUME NEW boxes \in SUBSET (Nat \X Nat), boxes # {}
  PROVE  CheapestBox(boxes) \in Nat
<1> DEFINE S == {x[2] : x \in boxes}
<1>1. S \in SUBSET Nat /\ S # {}
  OBVIOUS
<1>2. PICK r \in S : \A y \in S : r <= y
  BY <1>1, LeastOf
<1>3. r \in S /\ \A x \in boxes : r <= x[2]
  BY <1>2
<1>4. CheapestBox(boxes) \in S
  BY <1>3 DEF CheapestBox
<1> QED
  BY <1>1, <1>4

LEMMA QuoteNumbers ==
  ASSUME NEW q \in RequestQuote \cup TierQuote
  PROVE  /\ ReserveOf(q) \in Nat /\ AllHours(q) \in Nat
         /\ \A cents \in Int : SupplyAt(q, cents) \in Nat
<1>1. CASE q \in RequestQuote
  <2>1. q.source = "request" /\ q.cents \in Nat /\ q.hours \in Nat
    BY <1>1 DEF RequestQuote
  <2> QED
    BY <2>1 DEF ReserveOf, AllHours, SupplyAt
<1>2. CASE q \in TierQuote
  <2>1. /\ q.source = "tiers" /\ q.boxes \in SUBSET (Nat \X Nat)
        /\ IsFiniteSet(q.boxes) /\ q.boxes # {}
    BY <1>2 DEF TierQuote
  <2>2. ReserveOf(q) \in Nat
    BY <2>1, CheapestIs DEF ReserveOf
  <2>3. AllHours(q) \in Nat
    BY <2>1, FS_CardinalityType DEF AllHours
  <2>4. ASSUME NEW cents \in Int PROVE SupplyAt(q, cents) \in Nat
    <3>1. IsFiniteSet({x \in q.boxes : x[2] <= cents})
      BY <2>1, FS_Subset
    <3>2. Cardinality({x \in q.boxes : x[2] <= cents}) \in Nat
      BY <3>1, FS_CardinalityType
    <3> QED
      BY <2>1, <3>2 DEF SupplyAt
  <2> QED
    BY <2>2, <2>3, <2>4
<1> QED
  BY <1>1, <1>2

LEMMA ClampedNat ==
  ASSUME offer \in [Pools -> Offer], NEW p \in Pools, NEW hours \in Nat
  PROVE  Clamped(p, hours) \in Nat /\ Clamped(p, hours) <= hours
<1>1. offer[p].offered \in Nat
  BY DEF Offer
<1>2. DayShareNum * offer[p].offered \in Nat
  BY <1>1, MarketAssumption
<1>3. Most(p) \in Nat
  BY <1>2, MarketAssumption DEF Most
<1> QED
  BY <1>3 DEF Clamped

(***************************************************************************)
(* The inductive invariant of the request: each clearing is one of         *)
(* DayAheadClearing, of the pools of the offer, and no pool holds more     *)
(* than its supply; the orders of the upgrade pass bid the rung that was   *)
(* chosen for them, those who move up a better one than all they had won,  *)
(* the others one that they had won.                                       *)
(***************************************************************************)
WithinSupply == \A p \in Pools : HeldAt(p) <= view[p].supply

RequestOK ==
  /\ offer \in [Pools -> Offer]
  /\ ladders \in [Orders -> Order]
  /\ stage \in {"market", "upgrade", "returned"}
  /\ turns \in 1..(MaxTurns + 1)
  /\ clamped \in [Pools -> BOOLEAN]
  /\ movers \subseteq Orders
  /\ \A p \in Pools : view[p].reserve = ReserveOf(QuoteOf(p))

AwardOK(a) ==
  /\ a \in [id : Nat, order : Orders, rung : Nat \ {0}, hours : 1..MaxHours,
            pay : Nat, pool : Pools]
  /\ a.rung \in DOMAIN ladders[a.order].rungs
  /\ a.pool = ladders[a.order].rungs[a.rung].pool
  /\ ReserveOf(QuoteOf(a.pool)) <= a.pay
  /\ a.pay <= ladders[a.order].rungs[a.rung].max

ChosenOK ==
  \A o \in Orders :
    /\ chosen[o] \subseteq DOMAIN ladders[o].rungs
    /\ \A r, s \in chosen[o] : r = s

\* What the upgrade pass asks of each order, by what it had been awarded.
Asked(o) ==
  /\ book[o].rungs = IF chosen[o] = {} THEN <<>> ELSE <<ladders[o].rungs[CHOOSE r \in chosen[o] : TRUE]>>
  /\ o \in movers => \A r \in chosen[o] : \A b \in first : b.order = o => r < b.rung
  /\ o \notin movers => \A r \in chosen[o] : \E b \in first : b.order = o /\ b.rung = r

StageOK ==
  /\ stage = "market" => book = ladders /\ first = {} /\ movers = {}
  /\ stage = "upgrade" => movers # {} /\ \A o \in Orders : Asked(o)
  /\ stage # "returned" => awards = {} /\ gains = 0
  /\ stage = "returned" => phase = "done" /\ GainsAreReal /\ AgreedTiersArePaid
                           /\ gains \in 0..Cardinality(movers)

MarketInv ==
  /\ IInv /\ PriceInv /\ WithinSupply
  /\ RequestOK /\ ChosenOK /\ StageOK
  /\ \A a \in first \cup awards : AwardOK(a)

-----------------------------------------------------------------------------
(* What is awarded.                                                        *)

LEMMA FillIs ==
  ASSUME IInv, PriceInv, phase = "done", NEW f \in fills
  PROVE  /\ f \in [id : Nat, order : Orders, rung : Nat \ {0}, hours : 1..MaxHours, pay : Nat]
         /\ f.rung \in DOMAIN book[f.order].rungs
         /\ book[f.order].rungs[f.rung] \in Rung
         /\ book[f.order].rungs[f.rung].pool \in Pools
         /\ f.pay = price[book[f.order].rungs[f.rung].pool]
         /\ f.pay >= view[book[f.order].rungs[f.rung].pool].reserve
         /\ f.pay <= book[f.order].rungs[f.rung].max
         /\ \E c \in placed : f = FillOf(c)
<1>1. PICK c \in placed : f = FillOf(c)
  BY DEF PriceInv
<1>2. c \in Standing /\ c \in Chunk
  BY DEF Standing, IInv, TypeOK
<1>3. f.id = c.id /\ f.order = c.order /\ f.rung = c.rung /\ f.hours = c.hours /\ f.pay = Pay(c)
      /\ f = [id |-> c.id, order |-> c.order, rung |-> c.rung, hours |-> c.hours, pay |-> Pay(c)]
  BY <1>1 DEF FillOf
<1>4. c.rung \in DOMAIN book[c.order].rungs /\ c.order \in Orders /\ PoolOf(book, c) \in Pools
  BY <1>2, ChunkContext DEF IInv, TypeOK, Standing, Chunk
<1>5. book[c.order].rungs[c.rung] \in Rung
  BY <1>4, RungContext
<1>6. Payable(c) /\ Pay(c) = price[PoolOf(book, c)] /\ Pay(c) <= Bid(c)
  BY PayIs
<1>7. price[PoolOf(book, c)] \in Int /\ view[PoolOf(book, c)].reserve \in Nat
  BY <1>4 DEF IInv, TypeOK, NoPrice, PoolView
<1>8. Pay(c) >= view[PoolOf(book, c)].reserve /\ Pay(c) \in Nat
  BY <1>6, <1>7 DEF Payable
<1> QED
  BY <1>1, <1>2, <1>3, <1>4, <1>5, <1>6, <1>8 DEF PoolOf, Bid, Chunk

LEMMA FilledAwards ==
  ASSUME MarketInv, phase = "done", book = ladders, NEW f \in fills
  PROVE  /\ AwardOK(AwardOf(f, f.rung))
         /\ AwardOf(f, f.rung).order = f.order /\ AwardOf(f, f.rung).rung = f.rung
<1> DEFINE a == AwardOf(f, f.rung)
<1>1. /\ f \in [id : Nat, order : Orders, rung : Nat \ {0}, hours : 1..MaxHours, pay : Nat]
      /\ f.rung \in DOMAIN book[f.order].rungs
      /\ book[f.order].rungs[f.rung].pool \in Pools
      /\ f.pay >= view[book[f.order].rungs[f.rung].pool].reserve
      /\ f.pay <= book[f.order].rungs[f.rung].max
  BY FillIs DEF MarketInv
<1>2. a = [id |-> f.id, order |-> f.order, rung |-> f.rung, hours |-> f.hours, pay |-> f.pay,
           pool |-> book[f.order].rungs[f.rung].pool]
  BY DEF AwardOf
<1>3. a.id = f.id /\ a.order = f.order /\ a.rung = f.rung /\ a.hours = f.hours /\ a.pay = f.pay
      /\ a.pool = book[f.order].rungs[f.rung].pool
  BY <1>2
<1>4. view[a.pool].reserve = ReserveOf(QuoteOf(a.pool))
  BY <1>1, <1>3 DEF MarketInv, RequestOK
<1>5. ReserveOf(QuoteOf(a.pool)) <= a.pay
  BY <1>1, <1>3, <1>4
<1>6. a \in [id : Nat, order : Orders, rung : Nat \ {0}, hours : 1..MaxHours,
             pay : Nat, pool : Pools]
  BY <1>1, <1>2
<1> HIDE DEF a
<1>7. AwardOK(a)
  BY <1>1, <1>3, <1>5, <1>6 DEF AwardOK
<1> QED
  BY <1>3, <1>7 DEF a

\* In the upgrade pass an order has one rung: the one that was chosen for it.
LEMMA ChosenRung ==
  ASSUME MarketInv, stage = "upgrade", NEW o \in Orders, NEW r \in DOMAIN book[o].rungs
  PROVE  /\ r = 1 /\ chosen[o] # {}
         /\ (CHOOSE s \in chosen[o] : TRUE) \in chosen[o]
         /\ (CHOOSE s \in chosen[o] : TRUE) \in DOMAIN ladders[o].rungs
         /\ (CHOOSE s \in chosen[o] : TRUE) \in Nat \ {0}
         /\ book[o].rungs[r] = ladders[o].rungs[CHOOSE s \in chosen[o] : TRUE]
<1>1. Asked(o) /\ chosen[o] \subseteq DOMAIN ladders[o].rungs /\ ladders[o] \in Order
  BY DEF MarketInv, StageOK, ChosenOK, RequestOK
<1>2. chosen[o] # {}
  BY <1>1 DEF Asked
<1> DEFINE s == CHOOSE x \in chosen[o] : TRUE
<1>3. s \in chosen[o] /\ s \in DOMAIN ladders[o].rungs
  BY <1>1, <1>2
<1>4. ladders[o].rungs \in Seq(Rung)
  BY <1>1 DEF Order
<1>6. book[o].rungs = <<ladders[o].rungs[s]>>
  BY <1>1, <1>2 DEF Asked
<1> HIDE DEF s
<1>5. s \in Nat \ {0}
  BY <1>3, <1>4
<1>7. r = 1 /\ book[o].rungs[r] = ladders[o].rungs[s]
  BY <1>6
<1> QED
  BY <1>2, <1>3, <1>5, <1>7 DEF s

LEMMA UpgradedAwards ==
  ASSUME MarketInv, stage = "upgrade", phase = "done", NEW f \in fills
  PROVE  /\ AwardOK(AwardOf(f, LadderRung(f)))
         /\ AwardOf(f, LadderRung(f)).order = f.order /\ f.order \in Orders
         /\ AwardOf(f, LadderRung(f)).rung \in chosen[f.order]
<1> DEFINE a == AwardOf(f, LadderRung(f))
<1>1. /\ f \in [id : Nat, order : Orders, rung : Nat \ {0}, hours : 1..MaxHours, pay : Nat]
      /\ f.rung \in DOMAIN book[f.order].rungs
      /\ book[f.order].rungs[f.rung].pool \in Pools
      /\ f.pay >= view[book[f.order].rungs[f.rung].pool].reserve
      /\ f.pay <= book[f.order].rungs[f.rung].max
  BY FillIs DEF MarketInv
<1>2. a = [id |-> f.id, order |-> f.order, rung |-> LadderRung(f), hours |-> f.hours, pay |-> f.pay,
           pool |-> book[f.order].rungs[f.rung].pool]
  BY DEF AwardOf
<1>3. a.id = f.id /\ a.order = f.order /\ a.rung = LadderRung(f) /\ a.hours = f.hours /\ a.pay = f.pay
      /\ a.pool = book[f.order].rungs[f.rung].pool
  BY <1>2
<1>4. f.order \in Orders
  BY <1>1
<1>5. /\ LadderRung(f) \in chosen[f.order]
      /\ LadderRung(f) \in DOMAIN ladders[f.order].rungs
      /\ LadderRung(f) \in Nat \ {0}
      /\ book[f.order].rungs[f.rung] = ladders[f.order].rungs[LadderRung(f)]
  BY <1>1, <1>4, ChosenRung DEF LadderRung
<1>6. view[a.pool].reserve = ReserveOf(QuoteOf(a.pool))
  BY <1>1, <1>3 DEF MarketInv, RequestOK
<1>7. ReserveOf(QuoteOf(a.pool)) <= a.pay
  BY <1>1, <1>3, <1>6
<1>8. a \in [id : Nat, order : Orders, rung : Nat \ {0}, hours : 1..MaxHours,
             pay : Nat, pool : Pools]
  BY <1>1, <1>2, <1>5
<1> HIDE DEF a
<1>9. AwardOK(a)
  BY <1>1, <1>3, <1>5, <1>7, <1>8 DEF AwardOK
<1> QED
  BY <1>3, <1>4, <1>5, <1>9 DEF a

-----------------------------------------------------------------------------
(* What the upgrade pass bids.                                             *)

LEMMA WonIs ==
  ASSUME IInv, PriceInv, phase = "done", NEW o \in Orders, NEW f \in fills, f.order = o
  PROVE  \E w \in Won(o) : w \in Nat /\ w <= f.rung
<1> DEFINE S == {g.rung : g \in {h \in fills : h.order = o}}
<1>1. \A g \in fills : g.rung \in Nat
  BY FillIs
<1>2. S \in SUBSET Nat /\ f.rung \in S
  BY <1>1
<1>3. PICK w \in S : \A x \in S : w <= x
  BY <1>2, LeastOf
<1>4. w \in Best(S) /\ w \in Nat /\ w <= f.rung
  BY <1>2, <1>3 DEF Best
<1> QED
  BY <1>4 DEF Won

LEMMA WonByFill ==
  ASSUME NEW o \in Orders, NEW r \in Won(o)
  PROVE  \E f \in fills : f.order = o /\ f.rung = r
  BY DEF Won, Best

LEMMA RebidIs ==
  ASSUME MarketInv, stage = "market", phase = "done", NEW o \in Orders
  PROVE  /\ Rebid(o) \subseteq DOMAIN ladders[o].rungs
         /\ \A r, s \in Rebid(o) : r = s
         /\ o \in Movers => \A r \in Rebid(o) : \A f \in fills : f.order = o => r < f.rung
         /\ o \notin Movers => \A r \in Rebid(o) : \E f \in fills : f.order = o /\ f.rung = r
<1>1. IInv /\ PriceInv /\ book = ladders
  BY DEF MarketInv, StageOK
<1>2. \A r \in DOMAIN book[o].rungs : r \in Nat
  BY <1>1, RungContext
<1>3. CASE o \in Movers
  <2>1. Rebid(o) = Best(Higher(o))
    BY <1>3 DEF Rebid
  <2>2. \A r \in Higher(o) : r \in DOMAIN book[o].rungs /\ r \in Nat /\ \A w \in Won(o) : r < w
    BY <1>2 DEF Higher
  <2>3. \A r \in Rebid(o) : r \in Higher(o) /\ \A s \in Higher(o) : r <= s
    BY <2>1 DEF Best
  <2>4. \A r, s \in Rebid(o) : r = s
    BY <2>2, <2>3
  <2>5. ASSUME NEW r \in Rebid(o), NEW f \in fills, f.order = o PROVE r < f.rung
    <3>1. PICK w \in Won(o) : w \in Nat /\ w <= f.rung
      BY <1>1, <2>5, WonIs
    <3>2. f.rung \in Nat
      BY <1>1, FillIs
    <3>3. r < w /\ r \in Nat
      BY <2>2, <2>3
    <3> QED
      BY <3>1, <3>2, <3>3
  <2> QED
    BY <1>1, <1>3, <2>2, <2>3, <2>4, <2>5
<1>4. CASE o \notin Movers
  <2>1. Rebid(o) = Won(o)
    BY <1>4 DEF Rebid
  <2>2. ASSUME NEW r \in Rebid(o)
        PROVE  /\ r \in DOMAIN book[o].rungs /\ r \in Nat
               /\ \E f \in fills : f.order = o /\ f.rung = r
               /\ \A s \in Rebid(o) : r <= s
    <3>1. PICK f \in fills : f.order = o /\ f.rung = r
      BY <2>1, WonByFill
    <3>2. f.rung \in DOMAIN book[f.order].rungs
      BY <1>1, FillIs
    <3>3. \A s \in Rebid(o) : r <= s
      BY <2>1 DEF Won, Best
    <3> QED
      BY <1>2, <3>1, <3>2, <3>3
  <2>3. \A r, s \in Rebid(o) : r = s
    BY <2>2
  <2> QED
    BY <1>1, <1>4, <2>2, <2>3
<1> QED
  BY <1>3, <1>4

LEMMA OneRungIs ==
  ASSUME MarketInv, stage = "market", phase = "done", NEW o \in Orders
  PROVE  /\ OneRung(o) \in Order
         /\ OneRung(o).rungs = IF Rebid(o) = {} THEN <<>>
                               ELSE <<ladders[o].rungs[CHOOSE r \in Rebid(o) : TRUE]>>
<1> DEFINE s == CHOOSE r \in Rebid(o) : TRUE
           rungs == IF Rebid(o) = {} THEN <<>> ELSE <<book[o].rungs[s]>>
<1>1. IInv /\ book = ladders /\ book[o] \in Order
  BY DEF MarketInv, StageOK, IInv, TypeOK
<1>2. Rebid(o) # {} => s \in DOMAIN book[o].rungs
  BY <1>1, RebidIs
<1>3. Rebid(o) # {} => book[o].rungs[s] \in Rung
  BY <1>1, <1>2, RungContext
<1>4. rungs \in Seq(Rung)
  BY <1>3
<1>5. OneRung(o) = [book[o] EXCEPT !.tip = 0, !.rungs = rungs]
  BY DEF OneRung
<1> HIDE DEF rungs
<1>6. [book[o] EXCEPT !.tip = 0] \in Order
  BY <1>1 DEF Order
<1>7. OneRung(o) = [[book[o] EXCEPT !.tip = 0] EXCEPT !.rungs = rungs]
  BY <1>5
<1>8. OneRung(o) \in Order /\ OneRung(o).rungs = rungs
  BY <1>4, <1>6, <1>7 DEF Order
<1> QED
  BY <1>1, <1>8 DEF rungs

-----------------------------------------------------------------------------
(* The invariant holds.                                                    *)

LEMMA BeginWithin == Begun => WithinSupply
<1> SUFFICES ASSUME Begun, NEW p \in Pools PROVE HeldAt(p) <= view[p].supply
  BY DEF WithinSupply
<1>1. IInv /\ placed = {}
  BY BeginInv DEF Begun, Begins
<1> QED
  BY <1>1, HeldBounds

LEMMA RestartBegins ==
  ASSUME NEW b \in [Orders -> Order], NEW v \in [Pools -> PoolView], NEW l \in Nat \ {0},
         Restart(b, v, l)
  PROVE  /\ (IInv /\ PriceInv /\ WithinSupply)'
         /\ book' = b /\ view' = v /\ phase' = "passing"
<1>1. Begun'
  BY DEF Begun, Begins, Restart
<1>2. Begun' => IInv'
  BY BeginInv, PTL
<1>3. Begun' => PriceInv'
  BY BeginPrices, PTL
<1>4. Begun' => WithinSupply'
  BY BeginWithin, PTL
<1> QED
  BY <1>1, <1>2, <1>3, <1>4 DEF Restart

LEMMA InitMarket == MarketInit => MarketInv
<1> SUFFICES ASSUME MarketInit PROVE MarketInv
  OBVIOUS
<1>1. /\ offer \in [Pools -> Offer] /\ book \in [Orders -> Order] /\ limit \in Nat \ {0}
      /\ \A p \in Pools : /\ offer[p] \in Offer
                          /\ QuoteOf(p) \in RequestQuote \cup TierQuote
  BY MarketAssumption, DayAheadAssumption DEF MarketInit, Offer, QuoteOf
<1>2. \A p \in Pools : Clamped(p, AllHours(offer[p].quote)) \in Nat
  BY <1>1, QuoteNumbers, ClampedNat DEF QuoteOf
<1>3. \A p \in Pools : ReserveOf(offer[p].quote) \in Nat
  BY <1>1, QuoteNumbers DEF QuoteOf
<1>4. view = [p \in Pools |-> [supply |-> Clamped(p, AllHours(offer[p].quote)),
                               base |-> 0, reserve |-> ReserveOf(offer[p].quote)]]
  BY DEF MarketInit
<1>5. view \in [Pools -> PoolView] /\ \A p \in Pools : view[p].reserve = ReserveOf(QuoteOf(p))
  BY <1>2, <1>3, <1>4 DEF PoolView, QuoteOf
<1>6. Begun
  BY <1>1, <1>5 DEF Begun, MarketInit
<1>7. IInv /\ PriceInv /\ WithinSupply
  BY <1>6, BeginInv, BeginPrices, BeginWithin
<1>8. RequestOK
  BY <1>1, <1>5, MarketAssumption DEF RequestOK, MarketInit
<1>9. ChosenOK /\ StageOK /\ first \cup awards = {}
  BY DEF ChosenOK, StageOK, MarketInit
<1> QED
  BY <1>7, <1>8, <1>9 DEF MarketInv

\* A step of a clearing, which the request around it does not notice.
LEMMA ClearingKeeps ==
  ASSUME MarketInv, Clearing
  PROVE  MarketInv'
<1>1. IInv /\ PriceInv /\ WithinSupply /\ phase = "passing"
  BY DEF MarketInv, Clearing, ClearPass, Settle
<1>2. UNCHANGED marketVars /\ book' = book /\ view' = view
  BY DEF Clearing, ClearPass, Settle
<1>3. ASSUME ClearPass PROVE IInv' /\ PriceInv' /\ WithinSupply'
  <2>1. IInv' /\ PriceInv'
    BY <1>1, <1>3, PassInv, PassPrices
  <2>2. ASSUME NEW p \in Pools PROVE HeldAt(p)' <= view[p].supply
    BY <1>1, <1>3, HeldAfterPassIs, HeldBounds
  <2> QED
    BY <1>2, <2>1, <2>2 DEF WithinSupply
<1>4. ASSUME Settle PROVE IInv' /\ PriceInv' /\ WithinSupply'
  <2>1. WithinSupply'
    BY <1>1, <1>4 DEF Settle, WithinSupply, HeldAt, At, PoolOf
  <2> QED
    BY <1>1, <1>4, <2>1, SettleInv, SettlePrices
<1>5. IInv' /\ PriceInv' /\ WithinSupply'
  BY <1>3, <1>4 DEF Clearing
<1>6. stage # "returned" /\ stage' = stage
  BY <1>1, <1>2 DEF MarketInv, StageOK, marketVars
<1>7. RequestOK' /\ ChosenOK'
  BY <1>2 DEF MarketInv, RequestOK, ChosenOK, QuoteOf, marketVars
<1>8. StageOK'
  BY <1>2, <1>6 DEF MarketInv, StageOK, Asked, marketVars
<1>9. \A a \in first' \cup awards' : AwardOK(a)'
  BY <1>2 DEF MarketInv, AwardOK, QuoteOf, marketVars
<1> QED
  BY <1>5, <1>7, <1>8, <1>9 DEF MarketInv

LEMMA SameClearing ==
  ASSUME IInv, PriceInv, WithinSupply, UNCHANGED clearingVars
  PROVE  (IInv /\ PriceInv /\ WithinSupply)'
<1>1. IInv'
  BY NextInv
<1>2. PriceInv' /\ WithinSupply'
  BY DEF clearingVars, PriceInv, WithinSupply, HeldAt, At, PoolOf, Bid, FillOf, Pay
<1> QED
  BY <1>1, <1>2

LEMMA RepriceKeeps ==
  ASSUME MarketInv, Reprice
  PROVE  MarketInv'
<1> DEFINE v == [p \in Pools |-> [view[p] EXCEPT !.supply = Clamped(p, HoursAt(p))]]
<1>1. /\ IInv /\ RequestOK /\ ChosenOK /\ StageOK /\ stage = "market" /\ turns <= MaxTurns
      /\ turns' = turns + 1 /\ clamped' \in [Pools -> BOOLEAN]
      /\ Restart(book, v, limit)
      /\ UNCHANGED <<offer, ladders, stage, first, chosen, movers, awards, gains>>
  BY DEF MarketInv, Reprice, Cleared
<1>2. ASSUME NEW p \in Pools
      PROVE  /\ v[p] = [view[p] EXCEPT !.supply = Clamped(p, HoursAt(p))]
             /\ v[p] \in PoolView
             /\ v[p].reserve = view[p].reserve
  <2>1. offer[p] \in Offer /\ offer[p].quote \in RequestQuote \cup TierQuote
    BY <1>1 DEF RequestOK, Offer
  <2>2. view[p] \in PoolView /\ price[p] \in Int
    BY <1>1 DEF IInv, TypeOK, NoPrice
  <2>3. LoopPrice(p) \in Int
    BY <2>2 DEF LoopPrice, FinalPrice, PoolView, NoPrice
  <2>4. HoursAt(p) \in Nat
    BY <2>1, <2>3, QuoteNumbers DEF HoursAt
  <2>5. Clamped(p, HoursAt(p)) \in Nat
    BY <1>1, <2>4, ClampedNat DEF RequestOK
  <2> QED
    BY <2>2, <2>5 DEF PoolView
<1> HIDE DEF v
<1>3. v \in [Pools -> PoolView]
  <2>1. v = [p \in Pools |-> v[p]]
    BY DEF v
  <2> QED
    BY <1>2, <2>1
<1>4. book \in [Orders -> Order] /\ limit \in Nat \ {0}
  BY <1>1 DEF IInv, TypeOK
<1>5. (IInv /\ PriceInv /\ WithinSupply)' /\ book' = book /\ view' = v /\ phase' = "passing"
  BY <1>1, <1>3, <1>4, RestartBegins
<1>6. RequestOK'
  <2>1. turns + 1 \in 1..(MaxTurns + 1)
    BY <1>1, MarketAssumption DEF RequestOK
  <2>2. \A p \in Pools : view'[p].reserve = ReserveOf(offer[p].quote)
    BY <1>1, <1>2, <1>5 DEF RequestOK, QuoteOf
  <2> QED
    BY <1>1, <2>1, <2>2 DEF RequestOK, QuoteOf
<1>7. ChosenOK' /\ StageOK'
  BY <1>1, <1>5 DEF ChosenOK, StageOK
<1>8. \A a \in first' \cup awards' : AwardOK(a)'
  BY <1>1 DEF MarketInv, AwardOK, QuoteOf
<1> QED
  BY <1>5, <1>6, <1>7, <1>8 DEF MarketInv

LEMMA MarketAwards ==
  ASSUME MarketInv, stage = "market", phase = "done",
         NEW A, A = {AwardOf(f, f.rung) : f \in fills}
  PROVE  \A a \in A : AwardOK(a) /\ \E f \in fills : a.order = f.order /\ a.rung = f.rung
<1>1. book = ladders
  BY DEF MarketInv, StageOK
<1> QED
  BY <1>1, FilledAwards

LEMMA StartUpgradeKeeps ==
  ASSUME MarketInv, StartUpgrade
  PROVE  MarketInv'
<1> DEFINE b == [o \in Orders |-> OneRung(o)]
<1>1. /\ IInv /\ RequestOK /\ ChosenOK /\ StageOK /\ stage = "market" /\ phase = "done"
      /\ stage' = "upgrade" /\ first' = {AwardOf(f, f.rung) : f \in fills}
      /\ chosen' = [o \in Orders |-> Rebid(o)] /\ movers' = Movers /\ Movers # {}
      /\ Restart(b, view, 1)
      /\ UNCHANGED <<offer, ladders, turns, clamped, awards, gains>>
  BY DEF MarketInv, StartUpgrade, Priced, Cleared
<1>2. \A o \in Orders : b[o] = OneRung(o)
  OBVIOUS
<1>3. \A o \in Orders : b[o] \in Order
  BY <1>1, <1>2, OneRungIs
<1>4. b \in [Orders -> Order]
  BY <1>3
<1> HIDE DEF b
<1>5. view \in [Pools -> PoolView] /\ 1 \in Nat \ {0}
  BY <1>1 DEF IInv, TypeOK
<1>6. (IInv /\ PriceInv /\ WithinSupply)' /\ book' = b /\ view' = view /\ phase' = "passing"
  BY <1>1, <1>4, <1>5, RestartBegins
<1>7. RequestOK'
  <2>1. Movers \subseteq Orders
    BY DEF Movers
  <2> QED
    BY <1>1, <1>6, <2>1 DEF RequestOK, QuoteOf
<1>8. ChosenOK'
  BY <1>1, RebidIs DEF ChosenOK
<1>9. \A a \in first' : /\ AwardOK(a)
                        /\ \E f \in fills : a.order = f.order /\ a.rung = f.rung
  BY <1>1, MarketAwards
<1>10. \A f \in fills : \E a \in first' : a.order = f.order /\ a.rung = f.rung
  <2> SUFFICES ASSUME NEW f \in fills
               PROVE  \E a \in first' : a.order = f.order /\ a.rung = f.rung
    OBVIOUS
  <2>1. AwardOf(f, f.rung) \in first'
    BY <1>1
  <2>2. AwardOf(f, f.rung).order = f.order /\ AwardOf(f, f.rung).rung = f.rung
    BY <1>1, FilledAwards DEF StageOK
  <2> QED
    BY <2>1, <2>2
<1>11. ASSUME NEW o \in Orders PROVE Asked(o)'
  <2>1. /\ OneRung(o).rungs = IF Rebid(o) = {} THEN <<>>
                              ELSE <<ladders[o].rungs[CHOOSE r \in Rebid(o) : TRUE]>>
        /\ o \in Movers => \A r \in Rebid(o) : \A f \in fills : f.order = o => r < f.rung
        /\ o \notin Movers => \A r \in Rebid(o) : \E f \in fills : f.order = o /\ f.rung = r
    BY <1>1, OneRungIs, RebidIs
  <2>2. chosen'[o] = Rebid(o) /\ book'[o].rungs = OneRung(o).rungs
    BY <1>1, <1>2, <1>6
  <2>3. o \in Movers => \A r \in Rebid(o) : \A a \in first' : a.order = o => r < a.rung
    BY <1>9, <2>1
  <2>4. o \notin Movers => \A r \in Rebid(o) : \E a \in first' : a.order = o /\ a.rung = r
    BY <1>10, <2>1
  <2> QED
    BY <1>1, <2>1, <2>2, <2>3, <2>4 DEF Asked
<1>12. StageOK'
  BY <1>1, <1>11 DEF StageOK
<1>13. \A a \in first' \cup awards' : AwardOK(a)'
  BY <1>1, <1>9 DEF MarketInv, AwardOK, QuoteOf
<1> QED
  BY <1>6, <1>7, <1>8, <1>12, <1>13 DEF MarketInv

\* What a pool has sold, it held.
LEMMA SoldIsHeld ==
  ASSUME MarketInv, phase = "done", NEW p \in Pools,
         NEW A, A = {AwardOf(f, f.rung) : f \in fills}
  PROVE  /\ Hours({a \in A : a.pool = p}) <= HeldAt(p)
         /\ Hours({a \in A : a.pool = p}) \in Nat
<1> DEFINE S == Units(At(book, placed, p))
           T == Units({a \in A : a.pool = p})
           g == [u \in S |-> <<AwardOf(FillOf(u[1]), FillOf(u[1]).rung), u[2]>>]
<1>1. IInv /\ fills = {FillOf(c) : c \in placed}
  BY DEF MarketInv, PriceInv
<1>2. IsFiniteSet(S)
  <2>1. IsFiniteSet(Standing) /\ At(book, placed, p) \subseteq Standing
    BY <1>1, AlwaysFinite DEF At, Standing
  <2> QED
    BY <2>1, FS_Subset, UnitsFinite
<1>3. ASSUME NEW c \in placed
      PROVE  LET a == AwardOf(FillOf(c), FillOf(c).rung)
             IN a \in A /\ a.pool = PoolOf(book, c) /\ a.hours = c.hours
  <2>1. FillOf(c) \in fills /\ FillOf(c).order = c.order /\ FillOf(c).rung = c.rung
        /\ FillOf(c).hours = c.hours
    BY <1>1 DEF FillOf
  <2> QED
    BY <2>1 DEF AwardOf, PoolOf
<1>4. ASSUME NEW u \in S PROVE g[u] \in T
  <2>1. u[1] \in placed /\ PoolOf(book, u[1]) = p /\ u[2] \in 1..MaxHours /\ u[2] <= u[1].hours
    BY DEF Units, At
  <2>2. g[u] = <<AwardOf(FillOf(u[1]), FillOf(u[1]).rung), u[2]>>
    OBVIOUS
  <2> QED
    BY <2>1, <2>2, <1>3 DEF Units
<1>5. ASSUME NEW t \in T PROVE \E u \in S : g[u] = t
  <2>1. t[1] \in A /\ t[1].pool = p /\ t[2] \in 1..MaxHours /\ t[2] <= t[1].hours /\ t = <<t[1], t[2]>>
    BY DEF Units
  <2>2. PICK c \in placed : t[1] = AwardOf(FillOf(c), FillOf(c).rung)
    BY <1>1, <2>1
  <2>3. PoolOf(book, c) = p /\ t[2] <= c.hours
    BY <1>3, <2>1, <2>2
  <2>4. <<c, t[2]>> \in S
    BY <2>1, <2>3 DEF Units, At
  <2>5. g[<<c, t[2]>>] = t
    BY <2>1, <2>2, <2>4
  <2> QED
    BY <2>4, <2>5
<1>6. g \in [S -> T]
  BY <1>4
<1> HIDE DEF g
<1>7. g \in Surjection(S, T)
  BY <1>5, <1>6, Fun_IsSurj
<1>8. Cardinality(T) <= Cardinality(S) /\ Cardinality(T) \in Nat
  BY <1>2, <1>7, FS_Surjection, FS_CardinalityType
<1> QED
  BY <1>8 DEF Hours, HeldAt

LEMMA ReturnMarketKeeps ==
  ASSUME MarketInv, ReturnMarket
  PROVE  MarketInv'
<1>1. /\ IInv /\ PriceInv /\ WithinSupply /\ RequestOK /\ ChosenOK /\ StageOK
      /\ stage = "market" /\ phase = "done" /\ book = ladders
      /\ ~Changed \/ turns > MaxTurns
      /\ stage' = "returned" /\ first' = {AwardOf(f, f.rung) : f \in fills} /\ awards' = first'
      /\ UNCHANGED <<clearingVars, offer, ladders, turns, clamped, chosen, movers, gains>>
      /\ movers = {} /\ gains = 0
  BY DEF MarketInv, ReturnMarket, Priced, Cleared, StageOK
<1>2. \A a \in first' : AwardOK(a)
  BY <1>1, MarketAwards
<1>3. GainsAreReal'
  <2> DEFINE up == {o \in Orders : /\ Holds(awards, o)'
                                   /\ \A a \in awards', c \in first' :
                                        a.order = o /\ c.order = o => a.rung < c.rung}
  <2>1. ASSUME NEW o \in up PROVE FALSE
    <3>1. PICK a \in awards' : a.order = o
      BY <2>1 DEF Holds
    <3>2. a.rung < a.rung /\ a.rung \in Nat
      BY <1>1, <1>2, <2>1, <3>1 DEF AwardOK
    <3> QED
      BY <3>2
  <2>2. Cardinality(up) = 0
    BY <2>1, FS_EmptySet
  <2> QED
    BY <1>1, <2>2 DEF GainsAreReal, Holds
<1>4. AgreedTiersArePaid'
  <2> SUFFICES ASSUME turns <= MaxTurns, NEW a \in awards'
               PROVE  SoldAt(a.pool)' <= PaidHours(offer[a.pool].quote, a.pay)
    BY <1>1 DEF AgreedTiersArePaid, PaidHours
  <2> DEFINE p == a.pool
  <2>1. ~Changed
    BY <1>1, MarketAssumption DEF RequestOK
  <2>2. PICK f \in fills : a = AwardOf(f, f.rung)
    BY <1>1
  <2>3. /\ a.pay = f.pay /\ p = book[f.order].rungs[f.rung].pool
        /\ p \in Pools /\ f.pay = price[p] /\ f.pay \in Nat
    <3>1. /\ book[f.order].rungs[f.rung].pool \in Pools
          /\ f.pay = price[book[f.order].rungs[f.rung].pool] /\ f.pay \in Nat
      BY <1>1, FillIs
    <3> QED
      BY <2>2, <3>1 DEF AwardOf
  <2> HIDE DEF p
  <2>12. a.pay \in Nat /\ a.pay \in Int /\ a.pay # NoPrice /\ price[p] = a.pay
    <3>1. a.pay \in Nat /\ price[p] = a.pay
      BY <2>3, Zenon
    <3>2. \A n \in Nat : n \in Int /\ n # NoPrice
      BY DEF NoPrice
    <3> QED
      BY <3>1, <3>2, Zenon
  <2>4. LoopPrice(p) = a.pay
    BY <2>12 DEF LoopPrice, FinalPrice
  <2>5. offer[p] \in Offer /\ offer[p].quote \in RequestQuote \cup TierQuote
    BY <1>1, <2>3 DEF RequestOK, Offer
  <2>6. HoursAt(p) = SupplyAt(offer[p].quote, a.pay) /\ HoursAt(p) \in Nat
    BY <2>4, <2>5, <2>12, QuoteNumbers DEF HoursAt
  <2>7. view[p].supply = Clamped(p, HoursAt(p)) /\ Clamped(p, HoursAt(p)) <= HoursAt(p)
        /\ Clamped(p, HoursAt(p)) \in Nat
    BY <1>1, <2>1, <2>3, <2>6, ClampedNat DEF Changed, RequestOK
  <2>8. HeldAt(p) <= view[p].supply /\ HeldAt(p) \in Nat
    BY <1>1, <2>3, HeldBounds DEF WithinSupply
  <2>9. SoldAt(p)' <= HeldAt(p) /\ SoldAt(p)' \in Nat
    <3>1. /\ Hours({x \in awards' : x.pool = p}) <= HeldAt(p)
          /\ Hours({x \in awards' : x.pool = p}) \in Nat
      BY <1>1, <2>3, SoldIsHeld
    <3> QED
      BY <3>1 DEF SoldAt
  <2>10. SupplyAt(offer[p].quote, a.pay) = PaidHours(offer[p].quote, a.pay)
    <3>1. CASE offer[p].quote.source = "tiers"
      <4>1. offer[p].quote.boxes \subseteq Nat \X Nat
        BY <2>5, <3>1 DEF RequestQuote, TierQuote
      <4>2. \A x \in offer[p].quote.boxes : x[2] <= a.pay <=> a.pay >= x[2]
        BY <2>3, <4>1
      <4>3. {x \in offer[p].quote.boxes : x[2] <= a.pay} = {x \in offer[p].quote.boxes : a.pay >= x[2]}
        BY <4>2
      <4> QED
        BY <3>1, <4>3 DEF SupplyAt, PaidHours
    <3>2. CASE offer[p].quote.source # "tiers"
      BY <3>2 DEF SupplyAt, PaidHours
    <3> QED
      BY <3>1, <3>2
  <2> QED
    BY <2>6, <2>7, <2>8, <2>9, <2>10 DEF p
<1>5. gains' \in 0..Cardinality(movers')
  <2>1. Cardinality({}) = 0
    BY FS_EmptySet
  <2> QED
    BY <1>1, <2>1
<1>6. RequestOK' /\ ChosenOK'
  BY <1>1 DEF RequestOK, ChosenOK, QuoteOf, clearingVars
<1>7. StageOK'
  BY <1>1, <1>3, <1>4, <1>5 DEF StageOK, clearingVars
<1>8. (IInv /\ PriceInv /\ WithinSupply)'
  BY <1>1, SameClearing
<1>9. \A a \in first' \cup awards' : AwardOK(a)'
  BY <1>1, <1>2 DEF AwardOK, QuoteOf
<1> QED
  BY <1>6, <1>7, <1>8, <1>9 DEF MarketInv

LEMMA ReturnUpgradeKeeps ==
  ASSUME MarketInv, ReturnUpgrade
  PROVE  MarketInv'
<1>1. /\ IInv /\ PriceInv /\ WithinSupply /\ RequestOK /\ ChosenOK /\ StageOK
      /\ stage = "upgrade" /\ phase = "done" /\ movers # {}
      /\ \A o \in Orders : Asked(o)
      /\ stage' = "returned" /\ awards' = {AwardOf(f, LadderRung(f)) : f \in fills}
      /\ gains' = Cardinality(Gained)
      /\ UNCHANGED <<clearingVars, offer, ladders, turns, clamped, first, chosen, movers>>
  BY DEF MarketInv, ReturnUpgrade, StageOK
<1>2. \A a \in awards' : /\ AwardOK(a) /\ a.order \in Orders
                         /\ a.rung \in chosen[a.order]
                         /\ \E f \in fills : f.order = a.order
  BY <1>1, UpgradedAwards
<1>3. \A f \in fills : \E a \in awards' : a.order = f.order
  <2> SUFFICES ASSUME NEW f \in fills PROVE \E a \in awards' : a.order = f.order
    OBVIOUS
  <2>1. AwardOf(f, LadderRung(f)) \in awards' /\ AwardOf(f, LadderRung(f)).order = f.order
    BY <1>1, UpgradedAwards
  <2> QED
    BY <2>1
<1>4. GainsAreReal'
  <2> DEFINE up == {o \in Orders : /\ Holds(awards, o)'
                                   /\ \A a \in awards', c \in first' :
                                        a.order = o /\ c.order = o => a.rung < c.rung}
  <2>1. ASSUME NEW o \in up PROVE o \in Gained
    <3>1. PICK a \in awards' : a.order = o
      BY <2>1 DEF Holds
    <3>2. o \in Orders /\ a.rung \in chosen[o] /\ a.rung \in Nat /\ \E f \in fills : f.order = o
      BY <1>2, <3>1 DEF AwardOK
    <3>3. o \in movers
      <4> SUFFICES ASSUME o \notin movers PROVE FALSE
        OBVIOUS
      <4>1. PICK c \in first : c.order = o /\ c.rung = a.rung
        BY <1>1, <3>2 DEF Asked
      <4>2. a.rung < c.rung
        BY <1>1, <2>1, <3>1, <4>1
      <4> QED
        BY <3>2, <4>1, <4>2
    <3> QED
      BY <3>2, <3>3 DEF Gained
  <2>2. ASSUME NEW o \in Gained PROVE o \in up
    <3>1. o \in movers /\ o \in Orders /\ \E f \in fills : f.order = o
      BY <1>1, <2>2 DEF Gained, RequestOK
    <3>2. Holds(awards, o)'
      BY <1>3, <3>1 DEF Holds
    <3>3. ASSUME NEW a \in awards', NEW c \in first', a.order = o, c.order = o
          PROVE  a.rung < c.rung
      <4>1. a.rung \in chosen[o] /\ c \in first
        BY <1>1, <1>2, <3>3
      <4> QED
        BY <1>1, <3>1, <3>3, <4>1 DEF Asked
    <3> QED
      BY <3>1, <3>2, <3>3
  <2>3. up = Gained
    BY <2>1, <2>2
  <2> QED
    BY <1>1, <2>3 DEF GainsAreReal, Holds
<1>5. AgreedTiersArePaid'
  BY <1>1 DEF AgreedTiersArePaid
<1>6. gains' \in 0..Cardinality(movers')
  <2>1. IsFiniteSet(movers)
    BY <1>1, LadderAssumption, FS_Subset DEF RequestOK
  <2>2. Gained \subseteq movers
    BY DEF Gained
  <2>3. Cardinality(Gained) <= Cardinality(movers) /\ IsFiniteSet(Gained)
    BY <2>1, <2>2, FS_Subset
  <2>4. Cardinality(Gained) \in Nat /\ Cardinality(movers) \in Nat
    BY <2>1, <2>3, FS_CardinalityType
  <2> QED
    BY <1>1, <2>3, <2>4
<1>7. RequestOK' /\ ChosenOK'
  BY <1>1 DEF RequestOK, ChosenOK, QuoteOf, clearingVars
<1>8. StageOK'
  BY <1>1, <1>4, <1>5, <1>6 DEF StageOK, clearingVars
<1>9. (IInv /\ PriceInv /\ WithinSupply)'
  BY <1>1, SameClearing
<1>10. \A a \in first' \cup awards' : AwardOK(a)'
  BY <1>1, <1>2 DEF MarketInv, AwardOK, QuoteOf
<1> QED
  BY <1>7, <1>8, <1>9, <1>10 DEF MarketInv

LEMMA NextMarket == MarketInv /\ [MarketNext]_vars => MarketInv'
<1> SUFFICES ASSUME MarketInv, [MarketNext]_vars PROVE MarketInv'
  OBVIOUS
<1>1. CASE Clearing
  BY <1>1, ClearingKeeps
<1>2. CASE Reprice
  BY <1>2, RepriceKeeps
<1>3. CASE StartUpgrade
  BY <1>3, StartUpgradeKeeps
<1>4. CASE ReturnMarket
  BY <1>4, ReturnMarketKeeps
<1>5. CASE ReturnUpgrade
  BY <1>5, ReturnUpgradeKeeps
<1>6. CASE UNCHANGED vars
  <2>1. UNCHANGED clearingVars /\ UNCHANGED marketVars
    BY <1>6 DEF vars
  <2>2. (IInv /\ PriceInv /\ WithinSupply)'
    BY <2>1, SameClearing DEF MarketInv
  <2>3. (RequestOK /\ ChosenOK)' /\ \A a \in first' \cup awards' : AwardOK(a)'
    BY <2>1 DEF MarketInv, RequestOK, ChosenOK, AwardOK, QuoteOf, clearingVars, marketVars
  <2>4. StageOK'
    BY <2>1 DEF MarketInv, StageOK, Asked, GainsAreReal, Holds, AgreedTiersArePaid, SoldAt,
                clearingVars, marketVars
  <2> QED
    BY <2>2, <2>3, <2>4 DEF MarketInv
<1> QED
  BY <1>1, <1>2, <1>3, <1>4, <1>5, <1>6 DEF MarketNext

LEMMA MarketInvariant == MarketSpec => []MarketInv
<1>1. MarketInit => MarketInv
  BY InitMarket
<1>2. MarketInv /\ [MarketNext]_vars => MarketInv'
  BY NextMarket
<1> QED
  BY <1>1, <1>2, PTL DEF MarketSpec

\* Type correctness of a request: every clearing that it starts, repriced or for
\* the upgrade, is a well-formed one, and awards name hours of the ladders sent.
THEOREM RequestsKeepTheirTypes == MarketSpec => []MarketTypeOK
<1>1. MarketInv => MarketTypeOK
  <2> SUFFICES ASSUME MarketInv PROVE MarketTypeOK
    OBVIOUS
  <2>1. TypeOK /\ RequestOK
    BY DEF MarketInv, IInv
  <2>2. ASSUME NEW o \in Orders
        PROVE  chosen[o] \subseteq DOMAIN ladders[o].rungs /\ Cardinality(chosen[o]) <= 1
    <3>1. chosen[o] \subseteq DOMAIN ladders[o].rungs /\ \A r, s \in chosen[o] : r = s
      BY DEF MarketInv, ChosenOK
    <3>2. CASE chosen[o] = {}
      BY <3>1, <3>2, FS_EmptySet
    <3>3. CASE chosen[o] # {}
      <4>1. PICK r \in chosen[o] : TRUE
        BY <3>3
      <4>2. chosen[o] = {r}
        BY <3>1, <4>1
      <4> QED
        BY <3>1, <4>2, FS_Singleton
    <3> QED
      BY <3>2, <3>3
  <2>3. first \cup awards \subseteq [id : Nat, order : Orders, rung : Nat \ {0},
                                     hours : 1..MaxHours, pay : Nat, pool : Pools]
    BY DEF MarketInv, AwardOK
  <2>4. gains \in 0..Cardinality(movers)
    <3>1. CASE stage = "returned"
      BY <3>1 DEF MarketInv, StageOK
    <3>2. CASE stage # "returned"
      <4>1. IsFiniteSet(movers)
        BY <2>1, LadderAssumption, FS_Subset DEF RequestOK
      <4>2. Cardinality(movers) \in Nat
        BY <4>1, FS_CardinalityType
      <4> QED
        BY <3>2, <4>2 DEF MarketInv, StageOK
    <3> QED
      BY <3>1, <3>2
  <2> QED
    BY <2>1, <2>2, <2>3, <2>4 DEF MarketTypeOK, RequestOK
<1> QED
  BY <1>1, MarketInvariant, PTL

\* An award is on a rung of the ladder the renter sent, in its pool, at a price
\* between the reserve and the bid, although the upgrade pass clears other
\* ladders and the clearing is repeated with other supplies.
THEOREM AwardsStandOnTheLadder == MarketSpec => []AwardsOnTheLadder
<1>1. MarketInv => AwardsOnTheLadder
  BY DEF MarketInv, AwardsOnTheLadder, AwardOK, QuoteOf
<1> QED
  BY <1>1, MarketInvariant, PTL

\* The gains that the answer counts are the orders that end on a better rung
\* than all they had, no more and no fewer.
THEOREM GainsAreCounted == MarketSpec => []GainsAreReal
<1>1. MarketInv => GainsAreReal
  BY DEF MarketInv, StageOK, GainsAreReal
<1> QED
  BY <1>1, MarketInvariant, PTL

\* Where the loop of _clear_prepared agreed and nobody moved, the boxes that a
\* pool sold are boxes whose own reserve its price pays.
THEOREM AgreedBoxesArePaid == MarketSpec => []AgreedTiersArePaid
<1>1. MarketInv => AgreedTiersArePaid
  BY DEF MarketInv, StageOK, AgreedTiersArePaid
<1> QED
  BY <1>1, MarketInvariant, PTL

-----------------------------------------------------------------------------
(* Those who do not move up, in the upgrade pass: the hours that they bid  *)
(* again, of as many as they had, find no more before them than the pool   *)
(* held, all told, when the block was done.                                *)

\* Chunks under other names have as many hours.
LEMMA HoursRenamed ==
  ASSUME NEW D, IsFiniteSet(D), NEW A, NEW f \in [D -> A],
         \A c, d \in D : f[c] = f[d] => c = d,
         \A a \in A : \E c \in D : f[c] = a,
         \A c \in D : f[c].hours = c.hours
  PROVE  Hours(A) = Hours(D)
<1> DEFINE h == [c \in D |-> c.hours]
           k == [a \in A |-> a.hours]
<1>1. \A c \in D : k[f[c]] = h[c]
  OBVIOUS
<1>2. MaxHours \in Nat
  BY LadderAssumption
<1>3. Units(D) = CountBy(D, h, MaxHours) /\ Units(A) = CountBy(A, k, MaxHours)
  BY UnitsAreCounted
<1> HIDE DEF h, k
<1> QED
  BY <1>1, <1>2, <1>3, CountRenamed DEF Hours

\* The hours awarded on a rung, before the upgrade pass, are those placed there.
LEMMA FirstAwards ==
  ASSUME MarketInv, phase = "done", NEW o \in Orders, NEW r,
         NEW A, A = {AwardOf(f, f.rung) : f \in fills}
  PROVE  HoursOn(A, o, r) = Hours(On(placed, o, {r}))
<1> DEFINE D == On(placed, o, {r})
           E == {a \in A : a.order = o /\ a.rung = r}
           g == [c \in D |-> AwardOf(FillOf(c), FillOf(c).rung)]
<1>1. IInv /\ fills = {FillOf(c) : c \in placed}
  BY DEF MarketInv, PriceInv
<1>2. IsFiniteSet(D)
  <2>1. IsFiniteSet(Standing) /\ D \subseteq Standing
    BY <1>1, AlwaysFinite DEF On, Standing
  <2> QED
    BY <2>1, FS_Subset
<1>3. \A c : /\ FillOf(c).id = c.id /\ FillOf(c).order = c.order
             /\ FillOf(c).rung = c.rung /\ FillOf(c).hours = c.hours
  BY DEF FillOf
<1>4. \A f : /\ AwardOf(f, f.rung).id = f.id /\ AwardOf(f, f.rung).order = f.order
             /\ AwardOf(f, f.rung).rung = f.rung /\ AwardOf(f, f.rung).hours = f.hours
  BY DEF AwardOf
<1>5. ASSUME NEW c \in D
      PROVE  g[c] \in E /\ g[c].hours = c.hours /\ g[c].id = c.id
  <2>1. c \in placed /\ c.order = o /\ c.rung = r
    BY DEF On
  <2>2. FillOf(c) \in fills
    BY <1>1, <2>1
  <2>3. AwardOf(FillOf(c), FillOf(c).rung) \in A
    BY <2>2
  <2>4. g[c] = AwardOf(FillOf(c), FillOf(c).rung)
    OBVIOUS
  <2> HIDE DEF g
  <2> QED
    BY <1>3, <1>4, <2>1, <2>3, <2>4
<1>6. ASSUME NEW a \in E PROVE \E c \in D : g[c] = a
  <2>1. PICK c \in placed : a = AwardOf(FillOf(c), FillOf(c).rung)
    BY <1>1
  <2>2. c \in D
    BY <1>3, <1>4, <2>1 DEF On
  <2> QED
    BY <2>1, <2>2
<1>7. \A c, d \in D : g[c] = g[d] => c = d
  <2> SUFFICES ASSUME NEW c \in D, NEW d \in D, g[c] = g[d] PROVE c = d
    OBVIOUS
  <2>1. c \in Standing /\ d \in Standing
    BY DEF On, Standing
  <2> HIDE DEF g
  <2>2. c.id = d.id
    BY <1>5
  <2> QED
    BY <1>1, <2>1, <2>2 DEF IInv, IdsDistinct
<1>8. g \in [D -> E]
  BY <1>5
<1> HIDE DEF D, E, g
<1>9. Hours(E) = Hours(D)
  BY <1>2, <1>5, <1>6, <1>7, <1>8, HoursRenamed
<1> QED
  BY <1>9 DEF D, E, HoursOn

\* What an order is awarded after the upgrade pass is all that it has placed.
LEMMA LastAwards ==
  ASSUME MarketInv, stage = "upgrade", phase = "done", NEW o \in Orders, NEW r \in chosen[o],
         NEW A, A = {AwardOf(f, LadderRung(f)) : f \in fills}
  PROVE  HoursOn(A, o, r) = Hours(OfOrder(placed, o))
<1> DEFINE D == OfOrder(placed, o)
           E == {a \in A : a.order = o /\ a.rung = r}
           g == [c \in D |-> AwardOf(FillOf(c), LadderRung(FillOf(c)))]
<1>1. IInv /\ fills = {FillOf(c) : c \in placed} /\ \A q, s \in chosen[o] : q = s
  BY DEF MarketInv, PriceInv, ChosenOK
<1>2. IsFiniteSet(D)
  <2>1. IsFiniteSet(Standing) /\ D \subseteq Standing
    BY <1>1, AlwaysFinite DEF OfOrder, Standing
  <2> QED
    BY <2>1, FS_Subset
<1>3. \A c : /\ FillOf(c).id = c.id /\ FillOf(c).order = c.order
             /\ FillOf(c).hours = c.hours
  BY DEF FillOf
<1>4. \A f : /\ AwardOf(f, LadderRung(f)).id = f.id /\ AwardOf(f, LadderRung(f)).order = f.order
             /\ AwardOf(f, LadderRung(f)).rung = LadderRung(f)
             /\ AwardOf(f, LadderRung(f)).hours = f.hours
  BY DEF AwardOf
<1>5. \A f : f.order = o => LadderRung(f) = r
  <2> SUFFICES ASSUME NEW f, f.order = o PROVE LadderRung(f) = r
    OBVIOUS
  <2>1. LadderRung(f) = CHOOSE x \in chosen[o] : TRUE
    BY DEF LadderRung
  <2>2. (CHOOSE x \in chosen[o] : TRUE) \in chosen[o]
    OBVIOUS
  <2> QED
    BY <1>1, <2>1, <2>2
<1>6. ASSUME NEW c \in D
      PROVE  g[c] \in E /\ g[c].hours = c.hours /\ g[c].id = c.id
  <2>1. c \in placed /\ c.order = o
    BY DEF OfOrder
  <2>2. FillOf(c) \in fills
    BY <1>1, <2>1
  <2>3. AwardOf(FillOf(c), LadderRung(FillOf(c))) \in A
    BY <2>2
  <2>4. g[c] = AwardOf(FillOf(c), LadderRung(FillOf(c)))
    OBVIOUS
  <2> HIDE DEF g
  <2> QED
    BY <1>3, <1>4, <1>5, <2>1, <2>3, <2>4
<1>7. ASSUME NEW a \in E PROVE \E c \in D : g[c] = a
  <2>1. PICK c \in placed : a = AwardOf(FillOf(c), LadderRung(FillOf(c)))
    BY <1>1
  <2>2. c \in D
    BY <1>3, <1>4, <2>1 DEF OfOrder
  <2> QED
    BY <2>1, <2>2
<1>8. \A c, d \in D : g[c] = g[d] => c = d
  <2> SUFFICES ASSUME NEW c \in D, NEW d \in D, g[c] = g[d] PROVE c = d
    OBVIOUS
  <2>1. c \in Standing /\ d \in Standing
    BY DEF OfOrder, Standing
  <2> HIDE DEF g
  <2>2. c.id = d.id
    BY <1>6
  <2> QED
    BY <1>1, <2>1, <2>2 DEF IInv, IdsDistinct
<1>9. g \in [D -> E]
  BY <1>6
<1> HIDE DEF D, E, g
<1>10. Hours(E) = Hours(D)
  BY <1>2, <1>6, <1>7, <1>8, <1>9, HoursRenamed
<1> QED
  BY <1>10 DEF D, E, HoursOn

\* An order holds, after a pass, the hours that were chosen of one of its chunks.
LEMMA PassServes ==
  ASSUME IInv, ClearPass, NEW c \in Standing, NEW n \in Nat, n <= c.hours,
         \A i \in 1..n : <<c, i>> \in ChosenHours(AskedHours(PoolOf(book, c)), PoolOf(book, c))
  PROVE  Hours(OfOrder(placed', c.order)) \in Nat /\ n <= Hours(OfOrder(placed', c.order))
<1> DEFINE P == OfOrder(placed', c.order)
           K == PartsOf(Kept(OutcomeNow), {c})
<1>1. PoolOf(book, c) \in Pools
  BY ChunkContext DEF IInv
<1>2. Granted(ServedNow, c) \in Nat /\ n <= Granted(ServedNow, c)
  BY <1>1, GrantedAtLeast
<1>3. Hours(K) = Granted(ServedNow, c)
  <2>1. Hours(K) = Cardinality({s \in ServedNow : s.chunk \in {c}})
    BY KeptHours
  <2>2. {s \in ServedNow : s.chunk \in {c}} = {s \in ServedNow : s.chunk = c}
    OBVIOUS
  <2> QED
    BY <2>1, <2>2 DEF Granted
<1>4. K \subseteq P
  <2> SUFFICES ASSUME NEW k \in K PROVE k \in P
    OBVIOUS
  <2>1. k \in Kept(OutcomeNow) /\ k.id = c.id
    BY DEF PartsOf
  <2>2. PICK d \in Standing : k.id = d.id /\ k.order = d.order
    BY <2>1, KeptChunks
  <2>3. d = c
    BY <2>1, <2>2 DEF IInv, IdsDistinct
  <2> QED
    BY <2>1, <2>2, <2>3, PassEffect DEF OfOrder
<1>5. IsFiniteSet(P)
  <2>1. IInv'
    BY PassInv
  <2>2. IInv' => IsFiniteSet(Standing)'
    BY AlwaysFinite, PTL
  <2>3. P \subseteq Standing'
    BY DEF OfOrder, Standing
  <2> QED
    BY <2>1, <2>2, <2>3, FS_Subset
<1> HIDE DEF P, K
<1>6. IsFiniteSet(Units(P)) /\ Units(K) \subseteq Units(P)
  BY <1>4, <1>5, UnitsFinite DEF Units
<1>7. Hours(K) <= Hours(P) /\ Hours(P) \in Nat
  BY <1>6, FS_Subset, FS_CardinalityType DEF Hours
<1> QED
  BY <1>2, <1>3, <1>7 DEF P

\* The hours asked in the upgrade pass by those who do not move up, of as many
\* as they were awarded on the rung that they bid again.
AskedAgain(p) ==
  {u \in AskedHours(p) :
     /\ u[1].order \notin movers
     /\ \E r \in chosen[u[1].order] : u[2] <= HoursOn(first, u[1].order, r)}

\* They are some of the hours X that the pool held before the pass, and those who
\* had been turned away come before none of them.
HoldTheirPlace(p) ==
  \E X, held, e :
    /\ AskAgain(AskedHours(p), HourOrg, HourRank(AskedHours(p)), Share(p),
                AskedAgain(p), X, held, e)
    /\ Cardinality(X) <= view[p].supply

\* Then each of them is chosen.
LEMMA PlacesAreChosen ==
  ASSUME IInv, NEW p \in Pools, HoldTheirPlace(p), NEW v \in AskedAgain(p)
  PROVE  v \in ChosenHours(AskedHours(p), p)
<1> DEFINE T == AskedHours(p)
           K == AskedAgain(p)
           rank == HourRank(T)
           before == FirstBand(T, HourOrg, rank, Share(p))
<1>1. PICK X, held, e :
        AskAgain(T, HourOrg, rank, Share(p), K, X, held, e) /\ Cardinality(X) <= view[p].supply
  BY DEF HoldTheirPlace
<1>2. IsFiniteSet(T) /\ view[p].supply \in Nat /\ K \in SUBSET T
  BY AskedContext DEF AskedAgain
<1>3. v \in K /\ v \in T
  BY <1>2
<1> HIDE DEF T, K, rank
<1>4. Cardinality(InFront(T, FirstBand(T, HourOrg, rank, Share(p)), rank, v)) < Cardinality(X)
  BY <1>1, <1>3, KeptInFront
<1>5. Cardinality(X) \in Nat
  BY <1>1, FS_CardinalityType DEF AskAgain
<1>6. Cardinality(InFront(T, before, rank, v)) \in Nat
  <2>1. InFront(T, before, rank, v) \subseteq T
    BY DEF InFront
  <2> QED
    BY <1>2, <2>1, FS_Subset, FS_CardinalityType
<1>7. Cardinality(InFront(T, before, rank, v)) < view[p].supply
  BY <1>1, <1>2, <1>4, <1>5, <1>6
<1> QED
  BY <1>3, <1>7 DEF ChosenHours, ChosenOf, FirstHours, T, rank

\* Those who do not move up, until the pass and after it.
StayersKept ==
  /\ limit = 1
  /\ \A o \in Orders \ movers : chosen[o] = Best({a.rung : a \in OfOrder(first, o)})
  /\ passes = 0 =>
       /\ \A p \in Pools : HoldTheirPlace(p)
       /\ \A o \in Orders \ movers : \A r \in chosen[o] :
            \E c \in seeking : c.order = o /\ HoursOn(first, o, r) \in 0..c.hours
  /\ passes # 0 =>
       \A o \in Orders \ movers : \A r \in chosen[o] :
         Hours(OfOrder(placed, o)) >= HoursOn(first, o, r)

LEMMA PassKeepsStayers ==
  ASSUME MarketInv, stage = "upgrade", StayersKept, ClearPass, UNCHANGED marketVars
  PROVE  StayersKept'
<1>1. /\ IInv /\ limit' = limit /\ passes' = passes + 1 /\ passes \in Nat
      /\ first' = first /\ chosen' = chosen /\ movers' = movers /\ passes < limit
  BY DEF MarketInv, IInv, TypeOK, ClearPass, marketVars
<1>2. passes = 0 /\ passes' # 0
  BY <1>1 DEF StayersKept
<1>3. ASSUME NEW o \in Orders \ movers, NEW r \in chosen[o]
      PROVE  Hours(OfOrder(placed', o)) >= HoursOn(first, o, r)
  <2> DEFINE n == HoursOn(first, o, r)
  <2>1. PICK c \in seeking : c.order = o /\ n \in 0..c.hours
    BY <1>2, <1>3 DEF StayersKept
  <2>2. c \in Standing /\ PoolOf(book, c) \in Pools /\ c \in Chunk
    BY <1>1, ChunkContext DEF Standing, IInv
  <2>3. n \in Nat /\ n <= c.hours
    <3>1. c.hours \in Nat
      BY <2>2, LadderAssumption DEF Chunk
    <3> HIDE DEF n
    <3> QED
      BY <2>1, <3>1
  <2>4. ASSUME NEW i \in 1..n
        PROVE  <<c, i>> \in ChosenHours(AskedHours(PoolOf(book, c)), PoolOf(book, c))
    <3>1. c.hours \in 1..MaxHours /\ MaxHours \in Nat
      BY <2>2, LadderAssumption DEF Chunk
    <3> HIDE DEF n
    <3>2. i \in 1..MaxHours /\ i <= c.hours /\ i <= n
      BY <2>3, <2>4, <3>1
    <3>3. <<c, i>> \in AskedHours(PoolOf(book, c))
      BY <2>2, <3>2 DEF AskedHours, AskedAt, At, Units
    <3>4. <<c, i>> \in AskedAgain(PoolOf(book, c))
      BY <1>3, <2>1, <3>2, <3>3 DEF AskedAgain, n
    <3> QED
      BY <1>1, <1>2, <2>2, <3>4, PlacesAreChosen DEF StayersKept
  <2> HIDE DEF n
  <2>5. Hours(OfOrder(placed', o)) \in Nat /\ n <= Hours(OfOrder(placed', o))
    BY <1>1, <2>1, <2>2, <2>3, <2>4, PassServes
  <2> QED
    BY <2>3, <2>5 DEF n
<1> QED
  BY <1>1, <1>2, <1>3 DEF StayersKept

\* An order that bids one rung is otherwise the order that it was.
LEMMA OneRungKeeps ==
  ASSUME MarketInv, StartUpgrade, NEW o \in Orders
  PROVE  /\ book'[o] = OneRung(o)
         /\ book'[o].org = book[o].org /\ book'[o].hours = book[o].hours
         /\ book'[o].tier = book[o].tier /\ book'[o].lottery = book[o].lottery
         /\ book'[o].rungs = IF Rebid(o) = {} THEN <<>>
                             ELSE <<book[o].rungs[CHOOSE r \in Rebid(o) : TRUE]>>
<1>1. /\ book' = [q \in Orders |-> OneRung(q)] /\ book[o] \in Order
      /\ stage = "market" /\ phase = "done" /\ book = ladders
  BY DEF StartUpgrade, Restart, Priced, Cleared, MarketInv, IInv, TypeOK, StageOK
<1>2. book'[o] = OneRung(o)
  BY <1>1
<1> DEFINE one == IF Rebid(o) = {} THEN <<>> ELSE <<book[o].rungs[CHOOSE r \in Rebid(o) : TRUE]>>
<1>3. OneRung(o) = [book[o] EXCEPT !.tip = 0, !.rungs = one]
  BY DEF OneRung
<1> HIDE DEF one
<1>4. OneRung(o) = [[book[o] EXCEPT !.tip = 0] EXCEPT !.rungs = one]
  BY <1>3
<1>5. /\ OneRung(o).org = book[o].org /\ OneRung(o).hours = book[o].hours
      /\ OneRung(o).tier = book[o].tier /\ OneRung(o).lottery = book[o].lottery
      /\ OneRung(o).rungs = one
  BY <1>1, <1>4 DEF Order
<1> QED
  BY <1>2, <1>5 DEF one

\* What a chunk of the upgrade pass is, of an order that bids rung s again.
IsRebid(c, s) ==
  /\ c.order \in Orders /\ s \in Rebid(c.order)
  /\ s \in OpenRungs(book[c.order], view, TRUE) /\ s \in DOMAIN book[c.order].rungs
  /\ c.rung = 1 /\ c.hours = book[c.order].hours

LEMMA RebidChunk ==
  ASSUME MarketInv, StartUpgrade, NEW o \in Orders, NEW s \in Rebid(o)
  PROVE  /\ book'[o].rungs = <<book[o].rungs[s]>>
         /\ s \in DOMAIN book[o].rungs /\ s \in Nat \ {0} /\ book[o].rungs[s].pool \in Pools
         /\ 1 \in OpenRungs(book'[o], view, TRUE) <=> s \in OpenRungs(book[o], view, TRUE)
         /\ Best(OpenRungs(book'[o], view, TRUE)) = OpenRungs(book'[o], view, TRUE)
         /\ OpenRungs(book'[o], view, TRUE) \subseteq {1}
<1>1. /\ IInv /\ stage = "market" /\ phase = "done" /\ book = ladders
  BY DEF StartUpgrade, Priced, Cleared, MarketInv, StageOK
<1>2. Rebid(o) \subseteq DOMAIN book[o].rungs /\ \A r, q \in Rebid(o) : r = q
  BY <1>1, RebidIs
<1>3. (CHOOSE r \in Rebid(o) : TRUE) = s
  BY <1>2
<1>4. book'[o].rungs = <<book[o].rungs[s]>>
  BY <1>3, OneRungKeeps
<1>5. s \in DOMAIN book[o].rungs /\ s \in Nat \ {0} /\ book[o].rungs[s].pool \in Pools
  BY <1>1, <1>2, RungContext
<1>6. DOMAIN book'[o].rungs = {1} /\ book'[o].rungs[1] = book[o].rungs[s]
  BY <1>4
<1>7. 1 \in OpenRungs(book'[o], view, TRUE) <=> s \in OpenRungs(book[o], view, TRUE)
  BY <1>5, <1>6 DEF OpenRungs
<1>8. OpenRungs(book'[o], view, TRUE) \subseteq {1}
  BY <1>6 DEF OpenRungs
<1>9. Best(OpenRungs(book'[o], view, TRUE)) = OpenRungs(book'[o], view, TRUE)
  <2>1. ASSUME NEW r \in OpenRungs(book'[o], view, TRUE), NEW q \in OpenRungs(book'[o], view, TRUE)
        PROVE  r <= q
    <3>1. r = 1 /\ q = 1
      BY <1>8
    <3> QED
      BY <3>1
  <2> QED
    BY <2>1 DEF Best
<1> QED
  BY <1>4, <1>5, <1>7, <1>8, <1>9

LEMMA NothingRebid ==
  ASSUME MarketInv, StartUpgrade, NEW o \in Orders, Rebid(o) = {}
  PROVE  OpenRungs(book'[o], view, TRUE) = {}
<1>1. book'[o].rungs = <<>>
  BY OneRungKeeps
<1> QED
  BY <1>1 DEF OpenRungs

LEMMA UpgradeChunks ==
  ASSUME MarketInv, StartUpgrade, NEW c \in seeking'
  PROVE  /\ \E s \in Rebid(c.order) : IsRebid(c, s)
         /\ c.id = Cardinality(EnteredUpTo(book', c.order))
<1>1. seeking' = FirstChunks(book', view, TRUE)
  BY DEF StartUpgrade, Restart
<1>2. PICK o \in Orders : \E r \in Best(OpenRungs(book'[o], view, TRUE)) :
        c = [id |-> Cardinality(EnteredUpTo(book', o)), order |-> o,
             rung |-> r, hours |-> book'[o].hours]
  BY <1>1 DEF FirstChunks
<1>3. PICK r \in Best(OpenRungs(book'[o], view, TRUE)) :
        c = [id |-> Cardinality(EnteredUpTo(book', o)), order |-> o,
             rung |-> r, hours |-> book'[o].hours]
  BY <1>2
<1>4. r \in OpenRungs(book'[o], view, TRUE)
  BY DEF Best
<1>5. PICK s \in Rebid(o) : TRUE
  BY <1>4, NothingRebid
<1>6. r = 1 /\ s \in OpenRungs(book[o], view, TRUE) /\ s \in DOMAIN book[o].rungs
  BY <1>4, <1>5, RebidChunk
<1>7. c.order = o /\ c.rung = 1 /\ c.hours = book[o].hours
      /\ c.id = Cardinality(EnteredUpTo(book', o))
  BY <1>3, <1>6, OneRungKeeps
<1> QED
  BY <1>5, <1>6, <1>7 DEF IsRebid

\* The hours of an order on the rungs down to the one it bids again.
LEMMA RebidStands ==
  ASSUME MarketInv, stage = "market", phase = "done", seeking = {},
         NEW o \in Orders, NEW s \in Rebid(o)
  PROVE  HoursDownTo(o, s) = IF o \in Movers THEN 0 ELSE Hours(On(placed, o, {s}))
<1>1. IInv /\ PriceInv /\ fills = {FillOf(c) : c \in placed} /\ book = ladders
  BY DEF MarketInv, PriceInv, StageOK
<1>2. s \in Nat
  <2>1. Rebid(o) \subseteq DOMAIN book[o].rungs
    BY <1>1, RebidIs
  <2> QED
    BY <1>1, <2>1, RungContext
<1>3. \A c \in placed : /\ FillOf(c) \in fills /\ FillOf(c).order = c.order
                        /\ FillOf(c).rung = c.rung /\ c.rung \in Nat
  BY <1>1 DEF FillOf, IInv, TypeOK, Chunk
<1>4. CASE o \in Movers
  <2>1. \A f \in fills : f.order = o => s < f.rung
    BY <1>4, RebidIs
  <2>2. {c \in OfOrder(placed \cup seeking, o) : c.rung <= s} = {}
    BY <1>2, <1>3, <2>1 DEF OfOrder
  <2>3. Hours({}) = 0
    BY FS_EmptySet DEF Hours, Units
  <2> QED
    BY <1>4, <2>2, <2>3 DEF HoursDownTo
<1>5. CASE o \notin Movers
  <2>1. s \in Won(o)
    BY <1>5 DEF Rebid
  <2>2. \A f \in fills : f.order = o => s <= f.rung
    BY <2>1 DEF Won, Best
  <2>3. {c \in OfOrder(placed \cup seeking, o) : c.rung <= s} = On(placed, o, {s})
    BY <1>2, <1>3, <2>2 DEF OfOrder, On
  <2> QED
    BY <1>5, <2>3 DEF HoursDownTo
<1> QED
  BY <1>4, <1>5

\* The hours that ask at a pool can be ranked.
RankedHours ==
  \A p \in Pools : /\ IsFiniteSet(AskedHours(p)) /\ Share(p) \in Nat
                   /\ StrictOrderBy(AskedHours(p), HourRank(AskedHours(p)))

LEMMA HoursAreRanked == IInv => RankedHours
BY AskedContext DEF RankedHours

\* An hour that asks in the upgrade pass.
LEMMA UpgradeHour ==
  ASSUME MarketInv, StartUpgrade, NEW p \in Pools, NEW u \in AskedHours(p)'
  PROVE  /\ u = <<u[1], u[2]>> /\ u[2] \in Nat \ {0} /\ u[2] <= u[1].hours
         /\ u[1] \in seeking' /\ u[1] \in Chunk
         /\ HourOrg'[u] = book[u[1].order].org
         /\ \E s : IsRebid(u[1], s) /\ book[u[1].order].rungs[s].pool = p
<1>1. placed' = {} /\ MarketInv'
  BY StartUpgradeKeeps DEF StartUpgrade, Restart
<1>2. /\ u = <<u[1], u[2]>> /\ u[2] \in 1..MaxHours /\ u[2] <= u[1].hours
      /\ u[1] \in seeking' /\ PoolOf(book', u[1]) = p
  BY <1>1 DEF AskedHours, AskedAt, At, Standing, Units
<1>3. u[2] \in Nat \ {0}
  BY <1>2, LadderAssumption
<1>4. u[1] \in Chunk
  BY <1>1, <1>2 DEF MarketInv, IInv, TypeOK
<1>5. PICK s \in Rebid(u[1].order) : IsRebid(u[1], s)
  BY <1>2, UpgradeChunks
<1>6. u[1].order \in Orders /\ u[1].rung = 1
  BY <1>5 DEF IsRebid
<1>7. book'[u[1].order].rungs = <<book[u[1].order].rungs[s]>>
  BY <1>6, RebidChunk
<1>8. book[u[1].order].rungs[s].pool = p
  BY <1>2, <1>6, <1>7 DEF PoolOf
<1>9. HourOrg'[u] = book'[u[1].order].org
  <2>1. u \in Chunk \X (1..MaxHours)
    BY <1>2, <1>4
  <2> QED
    BY <2>1 DEF HourOrg, OrgOf
<1>10. book'[u[1].order].org = book[u[1].order].org
  BY <1>6, OneRungKeeps
<1> QED
  BY <1>2, <1>3, <1>4, <1>5, <1>8, <1>9, <1>10

\* Where one hour comes before another in the upgrade pass, by what was bid.
LEMMA UpgradeRank ==
  ASSUME MarketInv, StartUpgrade,
         NEW c \in seeking', NEW r, IsRebid(c, r), NEW d \in seeking', NEW s, IsRebid(d, s),
         NEW k \in Chunk, k.order = c.order, k.rung = r, c.order # d.order,
         Better(k, d.order, s)
  PROVE  Outranks(c, d)'
<1> DEFINE q == d.order
           a == Asker(q, s, k.id + 1)
<1>1. IInv /\ c.order \in Orders /\ q \in Orders /\ r \in DOMAIN book[c.order].rungs
      /\ s \in DOMAIN book[q].rungs /\ r \in Rebid(c.order) /\ s \in Rebid(q)
      /\ c.rung = 1 /\ d.rung = 1
  BY DEF IsRebid, MarketInv
<1>2. /\ book'[c.order].rungs[1] = book[c.order].rungs[r]
      /\ book'[q].rungs[1] = book[q].rungs[s]
  <2>1. book'[c.order].rungs = <<book[c.order].rungs[r]>>
    BY <1>1, RebidChunk
  <2>2. book'[q].rungs = <<book[q].rungs[s]>>
    BY <1>1, RebidChunk
  <2> QED
    BY <2>1, <2>2
<1>3. /\ book'[c.order].tier = book[c.order].tier /\ book'[c.order].lottery = book[c.order].lottery
      /\ book'[q].tier = book[q].tier /\ book'[q].lottery = book[q].lottery
  BY <1>1, OneRungKeeps
<1>4. Bid(c)' = Bid(k) /\ Bid(d)' = Bid(a) /\ a.order = q
  BY <1>1, <1>2 DEF Bid, Asker
<1>5. Outranks(k, a)
  BY DEF Better
<1> HIDE DEF a, q
<1>6. \/ Bid(k) > Bid(a)
      \/ /\ Bid(k) = Bid(a)
         /\ \/ book[c.order].tier > book[q].tier
            \/ /\ book[c.order].tier = book[q].tier
               /\ \/ book[c.order].lottery < book[q].lottery
                  \/ book[c.order].lottery = book[q].lottery /\ c.order < q
  BY <1>4, <1>5 DEF Outranks, q
<1> QED
  BY <1>3, <1>4, <1>6 DEF Outranks, q

\* The chunks of an order on the rung that it bids again.
WonOn(o) == On(placed, o, Rebid(o))

LEMMA WonOnIs ==
  ASSUME MarketInv, stage = "market", phase = "done", NEW o \in Orders, NEW s \in Rebid(o)
  PROVE  /\ WonOn(o) = On(placed, o, {s}) /\ IsFiniteSet(WonOn(o))
         /\ WonOn(o) \subseteq At(book, placed, book[o].rungs[s].pool)
         /\ IsFiniteSet(Units(WonOn(o))) /\ Hours(WonOn(o)) \in Nat
<1>1. \A r \in Rebid(o) : r = s
  BY RebidIs
<1>2. WonOn(o) = On(placed, o, {s})
  BY <1>1 DEF WonOn, On
<1>3. WonOn(o) \subseteq At(book, placed, book[o].rungs[s].pool)
  BY <1>2 DEF On, At, PoolOf
<1>4. IsFiniteSet(WonOn(o))
  <2>1. IsFiniteSet(Standing) /\ WonOn(o) \subseteq Standing
    BY AlwaysFinite DEF MarketInv, WonOn, On, Standing
  <2> QED
    BY <2>1, FS_Subset
<1> QED
  BY <1>2, <1>3, <1>4, UnitsFinite

\* The upgrade pass asks again for no more hours than had been won, and the
\* others who ask had been turned away.
LEMMA HourAgain ==
  ASSUME MarketInv, StartUpgrade, NEW p \in Pools, NEW u \in AskedAgain(p)'
  PROVE  /\ u \in AskedHours(p)' /\ u[1].order \in Orders \ Movers
         /\ u[2] \in 1..Hours(WonOn(u[1].order))
<1>1. /\ stage = "market" /\ phase = "done" /\ movers' = Movers
      /\ chosen' = [o \in Orders |-> Rebid(o)] /\ first' = {AwardOf(f, f.rung) : f \in fills}
  BY DEF StartUpgrade, Priced, Cleared
<1>2. u \in AskedHours(p)'
  BY DEF AskedAgain
<1>3. u[1].order \in Orders /\ u[2] \in Nat \ {0}
  BY <1>2, UpgradeHour DEF IsRebid
<1> DEFINE o == u[1].order
<1>4. o \notin Movers /\ \E r \in Rebid(o) : u[2] <= HoursOn(first', o, r)
  BY <1>1, <1>3 DEF AskedAgain
<1> HIDE DEF o
<1>5. PICK r \in Rebid(o) : u[2] <= HoursOn(first', o, r)
  BY <1>4
<1>6. HoursOn(first', o, r) = Hours(On(placed, o, {r}))
  BY <1>1, <1>3, FirstAwards DEF o
<1>7. WonOn(o) = On(placed, o, {r}) /\ Hours(WonOn(o)) \in Nat
  BY <1>1, <1>3, WonOnIs DEF o
<1> QED
  BY <1>2, <1>3, <1>4, <1>5, <1>6, <1>7 DEF o

LEMMA HourRefused ==
  ASSUME MarketInv, StartUpgrade, seeking = {}, NEW p \in Pools,
         NEW a \in AskedHours(p)', a \notin AskedAgain(p)', NEW s, IsRebid(a[1], s)
  PROVE  /\ TurnedAway(a[1].order, s)
         /\ a[1].order \notin Movers => a[2] > Hours(WonOn(a[1].order))
<1> DEFINE q == a[1].order
<1>1. /\ IInv /\ stage = "market" /\ phase = "done" /\ movers' = Movers
      /\ chosen' = [o \in Orders |-> Rebid(o)] /\ first' = {AwardOf(f, f.rung) : f \in fills}
  BY DEF StartUpgrade, Priced, Cleared, MarketInv
<1>2. a[2] \in Nat \ {0} /\ a[2] <= a[1].hours
  BY UpgradeHour
<1>3. /\ q \in Orders /\ s \in Rebid(q) /\ a[1].hours = book[q].hours
      /\ s \in OpenRungs(book[q], view, TRUE)
  BY DEF IsRebid
<1>4. book[q].hours \in 1..MaxHours
  BY <1>1, <1>3 DEF IInv, TypeOK, Order
<1>5. HoursDownTo(q, s) = IF q \in Movers THEN 0 ELSE Hours(On(placed, q, {s}))
  BY <1>1, <1>3, RebidStands
<1>6. HoursOn(first', q, s) = Hours(On(placed, q, {s}))
  BY <1>1, <1>3, FirstAwards
<1>7. WonOn(q) = On(placed, q, {s}) /\ Hours(WonOn(q)) \in Nat
  BY <1>1, <1>3, WonOnIs
<1>8. q \notin Movers => ~(a[2] <= HoursOn(first', q, s))
  BY <1>1, <1>3 DEF AskedAgain
<1> HIDE DEF q
<1>9. q \notin Movers => a[2] > Hours(WonOn(q))
  BY <1>2, <1>6, <1>7, <1>8
<1>10. HoursDownTo(q, s) < book[q].hours
  <2>1. book[q].hours \in Nat /\ a[2] <= book[q].hours
    BY <1>2, <1>3, <1>4, LadderAssumption
  <2> QED
    BY <1>2, <1>5, <1>7, <1>9, <2>1
<1>11. TurnedAway(q, s)
  BY <1>3, <1>10 DEF TurnedAway
<1> QED
  BY <1>9, <1>11 DEF q

\* The members of a finite set S, numbered.
Numbering(S) == CHOOSE g : g \in Injection(1..Cardinality(S), S)

LEMMA Numbered ==
  ASSUME NEW S, IsFiniteSet(S)
  PROVE  /\ Numbering(S) \in [1..Cardinality(S) -> S]
         /\ \A i, j \in 1..Cardinality(S) : Numbering(S)[i] = Numbering(S)[j] => i = j
<1>1. \E g : g \in Injection(1..Cardinality(S), S)
  BY FS_CardinalityType DEF ExistsBijection, Bijection
<1>2. Numbering(S) \in Injection(1..Cardinality(S), S)
  BY <1>1 DEF Numbering
<1> QED
  BY <1>2 DEF Injection, IsInjective

\* The hour that was held before by one that is asked again.
FormerHour(u) == Numbering(Units(WonOn(u[1].order)))[u[2]]

LEMMA HeldHour ==
  ASSUME MarketInv, StartUpgrade, NEW p \in Pools, NEW u \in AskedAgain(p)',
         NEW s, IsRebid(u[1], s), NEW x, x = FormerHour(u)
  PROVE  /\ x \in HeldHours(p) /\ x[1] \in Chunk /\ x[1].order = u[1].order /\ x[1].rung = s
         /\ HourOrg[x] = book[u[1].order].org
<1> DEFINE o == u[1].order
           S == Units(WonOn(o))
<1>1. /\ stage = "market" /\ phase = "done" /\ IInv
      /\ o \in Orders /\ s \in Rebid(o) /\ u \in AskedHours(p)'
      /\ u[2] \in 1..Cardinality(S)
  BY HourAgain DEF StartUpgrade, Priced, Cleared, MarketInv, IsRebid, Hours
<1>2. PICK t : IsRebid(u[1], t) /\ book[o].rungs[t].pool = p
  BY <1>1, UpgradeHour
<1>3. book[o].rungs[s].pool = p
  <2>1. \A r, q \in Rebid(o) : r = q
    BY <1>1, RebidIs
  <2>2. t \in Rebid(o)
    BY <1>2 DEF IsRebid
  <2> QED
    BY <1>1, <1>2, <2>1, <2>2
<1>4. /\ WonOn(o) = On(placed, o, {s}) /\ WonOn(o) \subseteq At(book, placed, p)
      /\ IsFiniteSet(S)
  BY <1>1, <1>3, WonOnIs
<1> HIDE DEF S
<1>5. Numbering(S) \in [1..Cardinality(S) -> S]
  BY <1>4, Numbered
<1>6. x \in S
  BY <1>1, <1>5 DEF FormerHour, S
<1>7. x[1] \in WonOn(o) /\ x \in HeldHours(p)
  BY <1>4, <1>6 DEF S, Units, HeldHours
<1>8. x[1].order = o /\ x[1].rung = s
  BY <1>4, <1>7 DEF On
<1>9. x[1] \in Chunk /\ HourOrg[x] = OrgOf(x[1])
  <2>1. At(book, placed, p) \subseteq Chunk
    BY <1>1 DEF IInv, TypeOK, At
  <2> QED
    BY <1>7, <2>1, UnitForm DEF HeldHours
<1> QED
  BY <1>7, <1>8, <1>9 DEF OrgOf

\* Different hours that are asked again were different hours before.
LEMMA HoursStayApart ==
  ASSUME MarketInv, StartUpgrade, NEW p \in Pools,
         NEW u \in AskedAgain(p)', NEW v \in AskedAgain(p)', FormerHour(u) = FormerHour(v)
  PROVE  u = v
<1>1. /\ stage = "market" /\ phase = "done" /\ u \in AskedHours(p)' /\ v \in AskedHours(p)'
      /\ u[2] \in 1..Hours(WonOn(u[1].order)) /\ v[2] \in 1..Hours(WonOn(v[1].order))
  BY HourAgain DEF StartUpgrade, Priced, Cleared
<1>2. PICK r : IsRebid(u[1], r)
  BY <1>1, UpgradeHour
<1>3. PICK s : IsRebid(v[1], s)
  BY <1>1, UpgradeHour
<1>4. u[1].order = v[1].order
  <2>1. PICK x : x = FormerHour(u)
    OBVIOUS
  <2>2. x[1].order = u[1].order
    BY <1>2, <2>1, HeldHour
  <2>3. x[1].order = v[1].order
    BY <1>3, <2>1, HeldHour
  <2> QED
    BY <2>2, <2>3
<1>5. u[1] = v[1]
  <2>1. u[1] \in seeking' /\ v[1] \in seeking'
    BY <1>1, UpgradeHour
  <2>2. u[1].id = v[1].id
    BY <1>4, <2>1, UpgradeChunks
  <2>3. IInv'
    BY StartUpgradeKeeps DEF MarketInv
  <2> QED
    BY <2>1, <2>2, <2>3 DEF IInv, IdsDistinct, Standing
<1>6. u[2] = v[2]
  <2> DEFINE S == Units(WonOn(u[1].order))
  <2>1. IsFiniteSet(S)
    BY <1>1, <1>2, WonOnIs DEF IsRebid
  <2>2. u[2] \in 1..Cardinality(S) /\ v[2] \in 1..Cardinality(S)
    BY <1>1, <1>4 DEF Hours
  <2>3. Numbering(S)[u[2]] = Numbering(S)[v[2]]
    BY <1>4 DEF FormerHour
  <2> HIDE DEF S
  <2> QED
    BY <2>1, <2>2, <2>3, Numbered
<1> QED
  BY <1>1, <1>5, <1>6, UpgradeHour

\* Who had been turned away comes after those who bid again what they had won.
LEMMA RefusedComeAfter ==
  ASSUME MarketInv, FairTurns, StartUpgrade, seeking = {}, NEW p \in Pools,
         NEW u \in AskedAgain(p)', NEW a \in AskedHours(p)', a \notin AskedAgain(p)'
  PROVE  /\ \/ HourOrg'[u] = HourOrg'[a]
            \/ Cardinality(Own(HeldHours(p), HourOrg, HourOrg'[u])) > Share(p)
            \/ Cardinality(Own(HeldHours(p), HourOrg, HourOrg'[a])) < Share(p)
            => HourBefore(u, a)'
         /\ Cardinality(Own(HeldHours(p), HourOrg, HourOrg'[a])) < Share(p) =>
              Cardinality(Own(HeldHours(p), HourOrg, HourOrg'[u])) <= Share(p)
<1> DEFINE q == a[1].order
           X == HeldHours(p)
<1>1. u \in AskedHours(p)' /\ u[2] \in 1..Hours(WonOn(u[1].order)) /\ u[1].order \notin Movers
  BY HourAgain
<1>2. PICK r : IsRebid(u[1], r)
  BY <1>1, UpgradeHour
<1>3. PICK s : IsRebid(a[1], s) /\ book[q].rungs[s].pool = p
  BY UpgradeHour
<1>4. TurnedAway(q, s) /\ (q \notin Movers => a[2] > Hours(WonOn(q)))
  BY <1>3, HourRefused
<1>5. q \in Orders /\ s \in DOMAIN book[q].rungs
  BY <1>3 DEF IsRebid
<1>6. FairlyAt(q, s)
  BY <1>4, <1>5 DEF FairTurns
<1>7. /\ Guarded(X, HourOrg, Share(p), HighIn(X, q, s), book[q].org)
      /\ Yielding(X, HourOrg, Share(p), book[q].org)
  BY <1>3, <1>6 DEF FairlyAt
<1>8. PICK x : x = FormerHour(u)
  OBVIOUS
<1>9. /\ x \in X /\ x[1] \in Chunk /\ x[1].order = u[1].order /\ x[1].rung = r
      /\ HourOrg[x] = book[u[1].order].org
  BY <1>2, <1>8, HeldHour
<1>10. HourOrg'[u] = HourOrg[x] /\ HourOrg'[a] = book[q].org
  BY <1>1, <1>9, UpgradeHour
<1>11. u[1] \in seeking' /\ a[1] \in seeking'
  BY <1>1, UpgradeHour
<1>12. ASSUME x \in HighIn(X, q, s) PROVE HourBefore(u, a)'
  <2>1. CASE u[1].order = q
    <3>1. u[1] = a[1]
      <4>1. u[1].id = a[1].id
        BY <1>11, <2>1, UpgradeChunks
      <4>2. IInv'
        BY StartUpgradeKeeps DEF MarketInv
      <4> QED
        BY <1>11, <4>1, <4>2 DEF IInv, IdsDistinct, Standing
    <3>2. u[2] < a[2]
      <4>1. stage = "market" /\ phase = "done" /\ s \in Rebid(q)
        BY <1>3 DEF StartUpgrade, Priced, Cleared, IsRebid
      <4>2. Hours(WonOn(q)) \in Nat
        BY <1>5, <4>1, WonOnIs
      <4>3. a[2] \in Nat
        BY UpgradeHour
      <4>4. a[2] > Hours(WonOn(q)) /\ u[2] \in 1..Hours(WonOn(q))
        BY <1>1, <1>4, <2>1
      <4> HIDE DEF q
      <4> QED
        BY <4>2, <4>3, <4>4
    <3> QED
      BY <3>1, <3>2 DEF HourBefore
  <2>2. CASE u[1].order # q
    <3>1. Better(x[1], q, s)
      BY <1>12 DEF HighIn
    <3>2. Outranks(u[1], a[1])'
      BY <1>2, <1>3, <1>9, <1>11, <2>2, <3>1, UpgradeRank
    <3> QED
      BY <3>2 DEF HourBefore
  <2> QED
    BY <2>1, <2>2
<1> HIDE DEF X, q
<1>13. \/ HourOrg'[u] = HourOrg'[a]
       \/ Cardinality(Own(X, HourOrg, HourOrg'[u])) > Share(p)
       \/ Cardinality(Own(X, HourOrg, HourOrg'[a])) < Share(p)
       => x \in HighIn(X, q, s)
  BY <1>7, <1>9, <1>10 DEF Guarded
<1>14. Cardinality(Own(X, HourOrg, HourOrg'[a])) < Share(p) =>
         Cardinality(Own(X, HourOrg, HourOrg'[u])) <= Share(p)
  BY <1>7, <1>9, <1>10 DEF Yielding
<1> QED
  BY <1>12, <1>13, <1>14 DEF X

LEMMA PlacesAreHeld ==
  ASSUME MarketInv, FairTurns, StartUpgrade, seeking = {}, NEW p \in Pools
  PROVE  HoldTheirPlace(p)'
<1> DEFINE T == AskedHours(p)'
           K == AskedAgain(p)'
<1>1. PICK X : X = HeldHours(p)
  OBVIOUS
<1>2. PICK held : held = HourOrg
  OBVIOUS
<1>3. PICK e : e = [u \in K |-> FormerHour(u)]
  OBVIOUS
<1>4. /\ IsFiniteSet(T) /\ StrictOrderBy(T, HourRank(AskedHours(p))')
      /\ Share(p)' \in Nat /\ K \subseteq T
  <2>1. MarketInv'
    BY StartUpgradeKeeps
  <2>2. IInv' => RankedHours'
    BY HoursAreRanked, PTL
  <2>3. K \subseteq T
    BY DEF AskedAgain
  <2> QED
    BY <2>1, <2>2, <2>3 DEF RankedHours, MarketInv
<1>5. IsFiniteSet(X) /\ Cardinality(X) <= view'[p].supply /\ Share(p)' = Share(p)
  <2>1. view' = view
    BY DEF StartUpgrade, Restart
  <2>2. HeldAt(p) <= view[p].supply /\ HeldAt(p) = Cardinality(X)
    BY <1>1 DEF MarketInv, WithinSupply, HeldAt, Hours, HeldHours
  <2>3. IsFiniteSet(AskedHours(p)) /\ HeldHours(p) \subseteq AskedHours(p)
    BY AskedContext DEF MarketInv
  <2> QED
    BY <1>1, <2>1, <2>2, <2>3, FS_Subset DEF Share
<1>6. ASSUME NEW u \in K
      PROVE  e[u] = FormerHour(u) /\ e[u] \in X /\ held[e[u]] = HourOrg'[u]
  <2>1. u \in AskedHours(p)'
    BY <1>4
  <2>2. PICK s : IsRebid(u[1], s)
    BY <2>1, UpgradeHour
  <2>3. PICK x : x = FormerHour(u)
    OBVIOUS
  <2>4. x \in HeldHours(p) /\ HourOrg[x] = book[u[1].order].org
    BY <2>2, <2>3, HeldHour
  <2>5. HourOrg'[u] = book[u[1].order].org
    BY <2>1, UpgradeHour
  <2>6. e[u] = x
    BY <1>3, <2>3
  <2> QED
    BY <1>1, <1>2, <2>3, <2>4, <2>5, <2>6
<1>7. e \in Injection(K, X)
  <2>1. e \in [K -> X]
    BY <1>3, <1>6
  <2>2. \A u, v \in K : e[u] = e[v] => u = v
    BY <1>6, HoursStayApart
  <2> QED
    BY <2>1, <2>2, Fun_IsInj
<1>8. ASSUME NEW a \in T \ K, NEW u \in K
      PROVE  /\ \/ HourOrg'[u] = HourOrg'[a]
                \/ Cardinality(Own(X, held, HourOrg'[u])) > Share(p)'
                \/ Cardinality(Own(X, held, HourOrg'[a])) < Share(p)'
                => u \in HourRank(AskedHours(p))'[a]
             /\ Cardinality(Own(X, held, HourOrg'[a])) < Share(p)' =>
                  Cardinality(Own(X, held, HourOrg'[u])) <= Share(p)'
  <2>1. HourBefore(u, a)' => u \in HourRank(AskedHours(p))'[a]
    BY <1>4 DEF HourRank
  <2>2. /\ \/ HourOrg'[u] = HourOrg'[a]
           \/ Cardinality(Own(X, held, HourOrg'[u])) > Share(p)
           \/ Cardinality(Own(X, held, HourOrg'[a])) < Share(p)
           => HourBefore(u, a)'
        /\ Cardinality(Own(X, held, HourOrg'[a])) < Share(p) =>
             Cardinality(Own(X, held, HourOrg'[u])) <= Share(p)
    BY <1>1, <1>2, RefusedComeAfter
  <2> QED
    BY <1>5, <2>1, <2>2
<1>9. AskAgain(T, HourOrg', HourRank(AskedHours(p))', Share(p)', K, X, held, e)
  <2> HIDE DEF T, K
  <2> QED
    BY <1>4, <1>5, <1>6, <1>7, <1>8 DEF AskAgain
<1> QED
  BY <1>5, <1>9 DEF HoldTheirPlace

\* The clearing of the block was not cut short by its limit.
InTime == stage = "market" /\ phase = "done" => seeking = {}

(***************************************************************************)
(* The inductive invariant.  Every clearing of the request is fair to      *)
(* those whom it turns away, so that those who stay keep their rung.       *)
(***************************************************************************)
StayersInv ==
  /\ ClearingFair
  /\ stage = "upgrade" => StayersKept
  /\ StayersKeepTheirRung

LEMMA PlacesStay ==
  ASSUME NEW p \in Pools, HoldTheirPlace(p),
         UNCHANGED <<book, view, placed, seeking, first, chosen, movers>>
  PROVE  HoldTheirPlace(p)'
<1>1. AskedHours(p)' = AskedHours(p)
  BY DEF AskedHours, AskedAt, At, PoolOf, Standing
<1>2. HourOrg' = HourOrg /\ Share(p)' = Share(p)
  BY DEF HourOrg, OrgOf, Share
<1>3. AskedAgain(p)' = AskedAgain(p)
  BY <1>1 DEF AskedAgain
<1>4. HourRank(AskedHours(p))' = HourRank(AskedHours(p))
  <2>1. \A u, v : HourBefore(u, v)' = HourBefore(u, v)
    BY DEF HourBefore, Outranks, Bid
  <2> QED
    BY <1>1, <2>1 DEF HourRank
<1>5. view'[p] = view[p]
  OBVIOUS
<1> QED
  BY <1>1, <1>2, <1>3, <1>4, <1>5 DEF HoldTheirPlace

LEMMA UpgradeStarts ==
  ASSUME MarketInv, StayersInv, InTime, StartUpgrade, ClearingFair'
  PROVE  StayersInv'
<1>1. /\ stage = "market" /\ phase = "done" /\ seeking = {} /\ movers' = Movers
      /\ stage' = "upgrade" /\ chosen' = [o \in Orders |-> Rebid(o)]
      /\ first' = {AwardOf(f, f.rung) : f \in fills}
      /\ limit' = 1 /\ passes' = 0 /\ seeking' = FirstChunks(book', view, TRUE)
  BY DEF StartUpgrade, Priced, Cleared, Restart, InTime
<1>2. \A p \in Pools : HoldTheirPlace(p)'
  BY <1>1, PlacesAreHeld DEF StayersInv, ClearingFair
<1>3. ASSUME NEW o \in Orders \ movers'
      PROVE  chosen'[o] = Best({a.rung : a \in OfOrder(first', o)})
  <2>1. {a.rung : a \in OfOrder(first', o)} = {f.rung : f \in {g \in fills : g.order = o}}
    <3>1. \A f : AwardOf(f, f.rung).order = f.order /\ AwardOf(f, f.rung).rung = f.rung
      BY DEF AwardOf
    <3> QED
      BY <1>1, <3>1 DEF OfOrder
  <2> QED
    BY <1>1, <2>1 DEF Rebid, Won
<1>4. ASSUME NEW o \in Orders \ movers', NEW r \in chosen'[o]
      PROVE  \E c \in seeking' : c.order = o /\ HoursOn(first', o, r) \in 0..c.hours
  <2>1. r \in Rebid(o) /\ IInv /\ o \notin Movers
    BY <1>1 DEF MarketInv
  <2>2. HoursOn(first', o, r) = Hours(On(placed, o, {r})) /\ Hours(On(placed, o, {r})) \in Nat
    BY <1>1, <2>1, FirstAwards, WonOnIs
  <2>3. HoursDownTo(o, r) = Hours(On(placed, o, {r}))
    BY <1>1, <2>1, RebidStands
  <2>4. r \in DOMAIN book[o].rungs
    BY <2>1, RebidChunk
  <2>5. HoursDownTo(o, r) <= book[o].hours
    BY <2>4 DEF StayersInv, ClearingFair, Climb, HoursFit
  <2>6. r \in OpenRungs(book[o], view, TRUE)
    <3>1. PICK f \in fills : f.order = o /\ f.rung = r
      BY <1>1, <2>1, RebidIs
    <3>2. PICK c \in placed : f = FillOf(c)
      BY <1>1, <3>1, FillIs DEF MarketInv
    <3>3. c.order = o /\ c.rung = r /\ c \in Standing
      BY <3>1, <3>2 DEF FillOf, Standing
    <3> QED
      BY <2>1, <3>3 DEF IInv, OnOpenRungs
  <2>7. 1 \in Best(OpenRungs(book'[o], view, TRUE))
    BY <2>1, <2>6, RebidChunk
  <2>8. PICK c \in seeking' : c.order = o
    <3> DEFINE d == [id |-> Cardinality(EnteredUpTo(book', o)), order |-> o,
                     rung |-> 1, hours |-> book'[o].hours]
    <3>1. d \in FirstChunks(book', view, TRUE)
      <4>1. d \in {[id |-> Cardinality(EnteredUpTo(book', o)), order |-> o,
                    rung |-> q, hours |-> book'[o].hours] :
                      q \in Best(OpenRungs(book'[o], view, TRUE))}
        BY <2>7
      <4> HIDE DEF d
      <4> QED
        BY <4>1 DEF FirstChunks
    <3>2. d.order = o
      OBVIOUS
    <3> HIDE DEF d
    <3> QED
      BY <1>1, <3>1, <3>2
  <2>9. c.hours = book[o].hours
    BY <2>8, UpgradeChunks DEF IsRebid
  <2>10. book[o].hours \in Nat
    BY <2>1, LadderAssumption DEF IInv, TypeOK, Order
  <2> QED
    BY <2>2, <2>3, <2>5, <2>8, <2>9, <2>10
<1>5. StayersKept'
  BY <1>1, <1>2, <1>3, <1>4 DEF StayersKept
<1> QED
  BY <1>1, <1>5 DEF StayersInv, StayersKeepTheirRung

LEMMA ClearingStays ==
  ASSUME MarketInv, StayersInv, Clearing, ClearingFair'
  PROVE  StayersInv'
<1>1. UNCHANGED marketVars /\ phase = "passing" /\ stage # "returned"
  BY DEF MarketInv, StageOK, Clearing, ClearPass, Settle
<1>2. stage = "upgrade" => StayersKept'
  <2>1. CASE ClearPass
    BY <1>1, <2>1, PassKeepsStayers DEF StayersInv
  <2>2. CASE Settle
    <3>1. UNCHANGED <<book, view, limit, passes, placed, seeking>>
      BY <2>2 DEF Settle
    <3>2. ASSUME NEW p \in Pools, HoldTheirPlace(p) PROVE HoldTheirPlace(p)'
      BY <1>1, <3>1, <3>2, PlacesStay DEF marketVars
    <3> QED
      BY <1>1, <3>1, <3>2 DEF StayersInv, StayersKept, marketVars
  <2> QED
    BY <2>1, <2>2 DEF Clearing
<1> QED
  BY <1>1, <1>2 DEF StayersInv, StayersKeepTheirRung, marketVars

LEMMA UpgradeReturns ==
  ASSUME MarketInv, StayersInv, ReturnUpgrade
  PROVE  StayersKeepTheirRung'
<1>1. /\ StayersKept /\ stage = "upgrade" /\ phase = "done"
      /\ awards' = {AwardOf(f, LadderRung(f)) : f \in fills}
      /\ first' = first /\ movers' = movers
  BY DEF ReturnUpgrade, StayersInv
<1> SUFFICES ASSUME NEW o \in Orders \ movers, NEW r \in Best({a.rung : a \in OfOrder(first, o)})
             PROVE  HoursOn(awards', o, r) >= HoursOn(first, o, r)
  BY <1>1 DEF StayersKeepTheirRung
<1>2. r \in chosen[o]
  BY <1>1 DEF StayersKept
<1>3. passes # 0
  <2> SUFFICES ASSUME passes = 0 PROVE FALSE
    OBVIOUS
  <2>1. seeking # {}
    BY <1>1, <1>2 DEF StayersKept
  <2> QED
    BY <1>1, <2>1 DEF StayersInv, ClearingFair, Climb, StayersKept
<1>4. Hours(OfOrder(placed, o)) >= HoursOn(first, o, r)
  BY <1>1, <1>2, <1>3 DEF StayersKept
<1>5. HoursOn(awards', o, r) = Hours(OfOrder(placed, o))
  BY <1>1, <1>2, LastAwards
<1> QED
  BY <1>4, <1>5

LEMMA NextFairClearings ==
  MarketInv /\ MarketInv' /\ ClearingFair /\ [MarketNext]_vars => ClearingFair'
<1> SUFFICES ASSUME MarketInv, MarketInv', ClearingFair, [MarketNext]_vars
             PROVE  ClearingFair'
  OBVIOUS
<1>1. IInv /\ IInv'
  BY DEF MarketInv
<1>2. CASE [Next]_clearingVars
  BY <1>1, <1>2, NextClearingFair
<1>3. CASE Reprice \/ StartUpgrade
  <2>1. Begins(book, view)'
    BY <1>3 DEF Reprice, StartUpgrade, Restart, Begins
  <2>2. Begun'
    BY <1>1, <2>1 DEF Begun, IInv, TypeOK
  <2>3. Begun' => ClearingFair'
    BY BeginsFair, PTL
  <2> QED
    BY <2>2, <2>3
<1>4. [Next]_clearingVars \/ Reprice \/ StartUpgrade
  BY DEF MarketNext, Clearing, Next, ReturnMarket, ReturnUpgrade, vars
<1> QED
  BY <1>2, <1>3, <1>4

LEMMA NextStays ==
  MarketInv /\ MarketInv' /\ StayersInv /\ InTime /\ [MarketNext]_vars => StayersInv'
<1> SUFFICES ASSUME MarketInv, MarketInv', StayersInv, InTime, [MarketNext]_vars
             PROVE  StayersInv'
  OBVIOUS
<1>0. ClearingFair'
  BY NextFairClearings DEF StayersInv
<1>1. CASE Clearing
  BY <1>0, <1>1, ClearingStays
<1>2. CASE Reprice
  <2>1. stage' = "market"
    BY <1>2 DEF Reprice, Cleared
  <2> QED
    BY <1>0, <2>1 DEF StayersInv, StayersKeepTheirRung
<1>3. CASE StartUpgrade
  BY <1>0, <1>3, UpgradeStarts
<1>4. CASE ReturnMarket
  <2>1. /\ stage' = "returned" /\ awards' = first' /\ first' = {AwardOf(f, f.rung) : f \in fills}
        /\ phase = "done" /\ UNCHANGED clearingVars
    BY <1>4 DEF ReturnMarket, Priced, Cleared
  <2>2. ASSUME NEW o \in Orders, NEW r PROVE HoursOn(first', o, r) \in Nat
    <3>1. HoursOn(first', o, r) = Hours(On(placed, o, {r}))
      BY <2>1, FirstAwards
    <3>2. IsFiniteSet(Standing) /\ On(placed, o, {r}) \subseteq Standing
      BY AlwaysFinite DEF MarketInv, On, Standing
    <3> QED
      BY <3>1, <3>2, FS_Subset, UnitsFinite
  <2>3. StayersKeepTheirRung'
    <3> SUFFICES ASSUME NEW o \in Orders, NEW r PROVE HoursOn(awards', o, r) >= HoursOn(first', o, r)
      BY DEF StayersKeepTheirRung
    <3> QED
      BY <2>1, <2>2
  <2> QED
    BY <1>0, <2>1, <2>3 DEF StayersInv
<1>5. CASE ReturnUpgrade
  <2>1. stage' = "returned" /\ UNCHANGED clearingVars
    BY <1>5 DEF ReturnUpgrade
  <2> QED
    BY <1>0, <1>5, <2>1, UpgradeReturns DEF StayersInv
<1>6. CASE UNCHANGED vars
  <2>1. UNCHANGED clearingVars /\ UNCHANGED marketVars
    BY <1>6 DEF vars
  <2>2. stage = "upgrade" => StayersKept'
    <3>1. ASSUME NEW p \in Pools, HoldTheirPlace(p) PROVE HoldTheirPlace(p)'
      BY <2>1, <3>1, PlacesStay DEF marketVars, clearingVars
    <3> QED
      BY <2>1, <3>1 DEF StayersInv, StayersKept, marketVars, clearingVars
  <2> QED
    BY <1>0, <2>1, <2>2 DEF StayersInv, StayersKeepTheirRung, marketVars
<1> QED
  BY <1>1, <1>2, <1>3, <1>4, <1>5, <1>6 DEF MarketNext

\* Those who do not move up keep every hour of their best rung, although all bid
\* again, wherever no clearing of the block was cut short by its limit.
THEOREM StayersKeep == MarketSpec /\ []InTime => []StayersKeepTheirRung
<1>1. MarketInit => StayersInv
  <2> SUFFICES ASSUME MarketInit PROVE StayersInv
    OBVIOUS
  <2>1. MarketInv /\ Begins(book, view) /\ stage = "market"
    BY InitMarket DEF MarketInit
  <2>2. ClearingFair
    BY <2>1, BeginsFair DEF Begun, MarketInv, IInv, TypeOK
  <2> QED
    BY <2>1, <2>2 DEF StayersInv, StayersKeepTheirRung
<1>2. StayersInv => StayersKeepTheirRung
  BY DEF StayersInv
<1> QED
  BY <1>1, <1>2, MarketInvariant, NextStays, PTL DEF MarketSpec

\* What a request clears, before the upgrade pass, is the book it was sent, with
\* the limit it has.
ClearsTheBook == stage = "market" => book \in Books /\ limit \in Limits

\* They do wherever the limit is no smaller than the hours of a book times their rungs.
THEOREM StayersKeepInAnyBook ==
  ASSUME \A b \in Books, l \in Limits : Cardinality(LadderSteps(b)) <= l
  PROVE  MarketSpec => []StayersKeepTheirRung
<1>1. MarketInit => ClearingFair /\ ClearsTheBook
  <2> SUFFICES ASSUME MarketInit PROVE ClearingFair /\ ClearsTheBook
    OBVIOUS
  <2>1. MarketInv /\ Begins(book, view)
    BY InitMarket DEF MarketInit
  <2>2. ClearingFair
    BY <2>1, BeginsFair DEF Begun, MarketInv, IInv, TypeOK
  <2> QED
    BY <2>2 DEF ClearsTheBook, MarketInit
<1>2. ClearsTheBook /\ [MarketNext]_vars => ClearsTheBook'
  BY DEF ClearsTheBook, MarketNext, Clearing, ClearPass, Settle, Reprice, Restart, StartUpgrade,
         ReturnMarket, ReturnUpgrade, vars, clearingVars, marketVars
<1>3. MarketInv /\ ClearingFair /\ ClearsTheBook => InTime
  BY PassesEnough DEF MarketInv, ClearingFair, ClearsTheBook, InTime
<1> QED
  BY <1>1, <1>2, <1>3, MarketInvariant, NextFairClearings, StayersKeep, PTL DEF MarketSpec
=============================================================================
