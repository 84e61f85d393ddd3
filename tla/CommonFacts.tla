---------------------------- MODULE CommonFacts ----------------------------
(***************************************************************************)
(* Facts that the proofs of several components need: what the roundings of *)
(* Money return, what ranking and numbering a finite set give, what a pool *)
(* chooses from it in two bands, and what the loops of the code take of it.*)
(***************************************************************************)
EXTENDS Money, Loops, FiniteSets, FunctionTheorems, FiniteSetTheorems,
        WellFoundedInduction, TLAPS

LEMMA DivNat ==
  ASSUME NEW a \in Nat, NEW b \in Nat \ {0}
  PROVE  a \div b \in Nat
  OBVIOUS

LEMMA Division ==
  ASSUME NEW n \in Int, NEW d \in Nat \ {0}
  PROVE  /\ n \div d \in Int
         /\ n % d \in 0..(d - 1)
         /\ n = d * (n \div d) + (n % d)
  OBVIOUS

LEMMA FewerTimes ==
  ASSUME NEW a \in Int, NEW b \in Int, NEW d \in Nat \ {0}, a * d < b * d
  PROVE  a < b
  OBVIOUS

LEMMA ParityBit ==
  ASSUME NEW q \in Int
  PROVE  q % 2 \in {0, 1}
  OBVIOUS

LEMMA LeastOf ==
  ASSUME NEW S \in SUBSET Nat, S # {}
  PROVE  \E r \in S : \A x \in S : r <= x
<1>1. IsWellFoundedOn(OpToRel(<, Nat), Nat)
  BY NatLessThanWellFounded
<1>2. PICK r \in S : \A x \in S : ~(<<x, r>> \in OpToRel(<, Nat))
  BY <1>1, WFMin
<1>3. \A x \in S : ~(x < r)
  BY <1>2 DEF OpToRel
<1> QED
  BY <1>3

-----------------------------------------------------------------------------
(* Rounding to the nearest cent misses by half a cent at most, and leaves  *)
(* the whole cents around a fraction where they are.                       *)

LEMMA HalfEvenInt ==
  ASSUME NEW n \in Int, NEW d \in Nat \ {0}
  PROVE  /\ HalfEven(n, d) \in Int
         /\ HalfEven(n, d) \in {n \div d, n \div d + 1}
         /\ 2 * (n % d) < d => HalfEven(n, d) = n \div d
         /\ 2 * (n % d) > d => HalfEven(n, d) = n \div d + 1
<1> DEFINE q == n \div d
           r == n % d
<1>1. q \in Int /\ r \in Int
  BY Division
<1>2. q % 2 \in {0, 1}
  BY <1>1, ParityBit
<1>3. HalfEven(n, d) = IF 2 * r < d THEN q ELSE IF 2 * r > d THEN q + 1 ELSE q + (q % 2)
  BY DEF HalfEven
<1> HIDE DEF q, r
<1>4. /\ HalfEven(n, d) \in {q, q + 1}
      /\ 2 * r < d => HalfEven(n, d) = q
      /\ 2 * r > d => HalfEven(n, d) = q + 1
  BY <1>1, <1>2, <1>3
<1>5. HalfEven(n, d) \in Int
  BY <1>1, <1>4
<1> QED
  BY <1>4, <1>5 DEF q, r

LEMMA HalfEvenBetween ==
  ASSUME NEW n \in Int, NEW d \in Nat \ {0}, NEW a \in Int, NEW b \in Int,
         a * d <= n, n <= b * d
  PROVE  a <= HalfEven(n, d) /\ HalfEven(n, d) <= b
<1> DEFINE q == n \div d
           r == n % d
           h == HalfEven(n, d)
<1>1. q \in Int /\ r \in 0..(d - 1) /\ n = d * q + r
  BY Division
<1>2. /\ h \in Int /\ h \in {q, q + 1}
      /\ 2 * r < d => h = q
  BY HalfEvenInt
<1> HIDE DEF q, r, h
<1>3. a <= q
  <2>1. a * d < (q + 1) * d
    BY <1>1
  <2>2. a < q + 1
    BY <2>1, <1>1, FewerTimes
  <2> QED
    BY <2>2, <1>1
<1>4. q <= b
  <2>1. q * d <= b * d
    BY <1>1
  <2>2. q * d < (b + 1) * d
    BY <2>1, <1>1
  <2>3. q < b + 1
    BY <2>2, <1>1, FewerTimes
  <2> QED
    BY <2>3, <1>1
<1>5. CASE q = b
  <2>1. d * q = b * d
    BY <1>5, <1>1
  <2>2. r = 0
    BY <2>1, <1>1
  <2>3. h = q
    BY <2>2, <1>2
  <2> QED
    BY <2>3, <1>3, <1>4 DEF h
<1>6. CASE q # b
  <2>1. q < b
    BY <1>1, <1>4, <1>6
  <2>2. h <= b
    BY <1>1, <1>2, <2>1
  <2>3. a <= h
    BY <1>1, <1>2, <1>3
  <2> QED
    BY <2>2, <2>3 DEF h
<1> QED
  BY <1>5, <1>6

LEMMA HalfEvenNat ==
  ASSUME NEW n \in Nat, NEW d \in Nat \ {0}
  PROVE  HalfEven(n, d) \in Nat
<1>1. HalfEven(n, d) \in Int
  BY HalfEvenInt
<1>2. n \div d \in Nat
  OBVIOUS
<1>3. HalfEven(n, d) \in {n \div d, n \div d + 1}
  BY HalfEvenInt
<1> QED
  BY <1>1, <1>2, <1>3

\* A step of more than half a cent is never rounded away.
LEMMA HalfEvenMoves ==
  ASSUME NEW n \in Int, NEW d \in Nat \ {0}, NEW b \in Int
  PROVE  /\ 2 * n > 2 * b * d + d => HalfEven(n, d) > b
         /\ 2 * n < 2 * b * d - d => HalfEven(n, d) < b
<1> DEFINE q == n \div d
           r == n % d
           h == HalfEven(n, d)
<1>1. q \in Int /\ r \in 0..(d - 1) /\ n = d * q + r
  BY Division
<1>2. /\ h \in Int /\ h \in {q, q + 1}
      /\ 2 * r < d => h = q
      /\ 2 * r > d => h = q + 1
  BY HalfEvenInt
<1> HIDE DEF q, r, h
<1>3. ASSUME 2 * n > 2 * b * d + d PROVE h > b
  <2>1. b * d < (q + 1) * d
    BY <1>1, <1>3
  <2>2. b < q + 1
    BY <2>1, <1>1, FewerTimes
  <2>3. CASE q = b
    <3>1. d * q = b * d
      BY <2>3, <1>1
    <3>2. 2 * r > d
      BY <3>1, <1>1, <1>3
    <3> QED
      BY <3>2, <1>1, <1>2, <2>3
  <2>4. CASE q # b
    BY <1>1, <1>2, <2>2, <2>4
  <2> QED
    BY <2>3, <2>4
<1>4. ASSUME 2 * n < 2 * b * d - d PROVE h < b
  <2>1. q * d < b * d
    BY <1>1, <1>4
  <2>2. q < b
    BY <2>1, <1>1, FewerTimes
  <2>3. CASE q = b - 1
    <3>1. d * q = b * d - d
      BY <2>3, <1>1
    <3>2. 2 * r < d
      BY <3>1, <1>1, <1>4
    <3> QED
      BY <3>2, <1>1, <1>2, <2>3
  <2>4. CASE q # b - 1
    BY <1>1, <1>2, <2>2, <2>4
  <2> QED
    BY <2>3, <2>4
<1> QED
  BY <1>3, <1>4 DEF h

-----------------------------------------------------------------------------
(* A ceiling reaches the fraction: a host never nets less than its floor.  *)

LEMMA CeilReaches ==
  ASSUME NEW n \in Nat, NEW d \in Nat \ {0}
  PROVE  /\ Ceil(n, d) \in Nat
         /\ Ceil(n, d) * d >= n
         /\ Ceil(n, d) * d < n + d
<1> DEFINE m == n + d - 1
           q == m \div d
           r == m % d
<1>1. m \in Nat
  OBVIOUS
<1>2. q \in Int /\ r \in 0..(d - 1) /\ m = d * q + r
  BY <1>1, Division
<1>3. q \in Nat
  BY <1>1
<1>4. Ceil(n, d) = q
  BY DEF Ceil
<1>5. n + d - 1 = d * q + r
  BY <1>2
<1> HIDE DEF m, q, r
<1>6. q * d >= n /\ q * d < n + d
  BY <1>2, <1>5
<1> QED
  BY <1>3, <1>4, <1>6

-----------------------------------------------------------------------------
(* Ranking a finite set, for the greedy allocations and the numbering of   *)
(* chunks.  An order on S is given by the function that maps each element  *)
(* to the elements ranked before it (or up to it).                         *)

StrictOrderBy(S, before) ==
  /\ before \in [S -> SUBSET S]
  /\ \A x \in S : x \notin before[x]
  /\ \A x, y \in S : x = y \/ x \in before[y] \/ y \in before[x]
  /\ \A x, y \in S : x \in before[y] => before[x] \subseteq before[y]

\* Two elements of a ranked finite set have different numbers of elements
\* before them, and fewer than the set has.
LEMMA RankInjective ==
  ASSUME NEW S, IsFiniteSet(S), NEW before, StrictOrderBy(S, before)
  PROVE  /\ \A x \in S : Cardinality(before[x]) \in 0..(Cardinality(S) - 1)
         /\ \A x, y \in S : Cardinality(before[x]) = Cardinality(before[y]) => x = y
<1>1. \A x \in S : IsFiniteSet(before[x]) /\ Cardinality(before[x]) \in Nat
  BY FS_Subset, FS_CardinalityType DEF StrictOrderBy
<1>2. Cardinality(S) \in Nat
  BY FS_CardinalityType
<1>3. ASSUME NEW x \in S
      PROVE  Cardinality(before[x]) \in 0..(Cardinality(S) - 1)
  <2>1. before[x] \subseteq S /\ before[x] # S
    BY DEF StrictOrderBy
  <2>2. Cardinality(before[x]) <= Cardinality(S) /\ Cardinality(before[x]) # Cardinality(S)
    BY <2>1, FS_Subset
  <2> QED
    BY <1>1, <1>2, <2>2
<1>4. ASSUME NEW x \in S, NEW y \in S, x \in before[y]
      PROVE  Cardinality(before[x]) # Cardinality(before[y])
  <2>1. before[x] \subseteq before[y] /\ before[x] # before[y]
    BY <1>4 DEF StrictOrderBy
  <2> QED
    BY <1>1, <2>1, FS_Subset
<1> QED
  BY <1>3, <1>4 DEF StrictOrderBy

\* Serving every element with fewer than n elements before it serves n of
\* them, or all when there are not so many.
LEMMA ServedCount ==
  ASSUME NEW S, IsFiniteSet(S), NEW before, StrictOrderBy(S, before), NEW n \in Nat
  PROVE  LET served == {x \in S : Cardinality(before[x]) < n}
         IN Cardinality(served) = IF Cardinality(S) <= n THEN Cardinality(S) ELSE n
<1> DEFINE served == {x \in S : Cardinality(before[x]) < n}
           rank == [x \in S |-> Cardinality(before[x])]
           m == Cardinality(S)
           low == [x \in served |-> Cardinality(before[x])]
<1>1. m \in Nat
  BY FS_CardinalityType
<1>2. rank \in Injection(S, 0..(m - 1))
  BY RankInjective DEF Injection, IsInjective
<1>3. IsFiniteSet(0..(m - 1)) /\ Cardinality(0..(m - 1)) = m
  BY <1>1, FS_Interval
<1>4. rank \in Surjection(S, 0..(m - 1))
  BY <1>2, <1>3, FS_Injection
<1>5. CASE m <= n
  <2>1. served = S
    BY <1>1, <1>5, RankInjective
  <2> QED
    BY <1>5, <2>1
<1>6. CASE ~(m <= n)
  <2>1. low \in Injection(served, 0..(n - 1))
    <3>1. \A x \in served : Cardinality(before[x]) \in 0..(n - 1)
      BY <1>1, RankInjective
    <3> QED
      BY <3>1, RankInjective DEF Injection, IsInjective
  <2>2. low \in Surjection(served, 0..(n - 1))
    <3>1. ASSUME NEW k \in 0..(n - 1) PROVE \E x \in served : low[x] = k
      <4>1. k \in 0..(m - 1)
        BY <1>1, <1>6
      <4>2. PICK x \in S : rank[x] = k
        BY <1>4, <4>1 DEF Surjection
      <4> QED
        BY <4>2
    <3> QED
      BY <2>1, <3>1 DEF Surjection, Injection
  <2>3. IsFiniteSet(0..(n - 1)) /\ Cardinality(0..(n - 1)) = n
    BY FS_Interval
  <2>4. Cardinality(served) = n
    BY <2>1, <2>2, <2>3, FS_Injection
  <2> QED
    BY <1>6, <2>4
<1> QED
  BY <1>5, <1>6

\* Some element of a ranked finite set has nothing before it.
LEMMA FirstOf ==
  ASSUME NEW S, IsFiniteSet(S), S # {}, NEW before, StrictOrderBy(S, before)
  PROVE  \E x \in S : before[x] = {}
<1> DEFINE served == {x \in S : Cardinality(before[x]) < 1}
<1>1. Cardinality(S) \in Nat /\ Cardinality(S) # 0
  BY FS_CardinalityType, FS_EmptySet
<1>2. Cardinality(served) = 1
  BY <1>1, ServedCount
<1>3. served # {}
  <2> HIDE DEF served
  <2> QED
    BY <1>2, FS_EmptySet
<1>4. PICK x \in S : Cardinality(before[x]) < 1
  BY <1>3
<1>5. IsFiniteSet(before[x])
  BY FS_Subset DEF StrictOrderBy
<1>6. Cardinality(before[x]) = 0
  BY <1>4, <1>5, FS_CardinalityType
<1> QED
  BY <1>5, <1>6, FS_EmptySet

\* A finite set of numbers has a greatest one.
LEMMA GreatestOf ==
  ASSUME NEW S, IsFiniteSet(S), S # {}, S \subseteq Nat
  PROVE  \E x \in S : \A y \in S : x >= y
<1> DEFINE before == [x \in S |-> {y \in S : y > x}]
<1>1. \A x \in S : x \in Nat
  OBVIOUS
<1>2. before \in [S -> SUBSET S] /\ \A x, y \in S : y \in before[x] <=> y > x
  OBVIOUS
<1> HIDE DEF before
<1>3. \A x, y \in S : x \in before[y] => before[x] \subseteq before[y]
  <2> SUFFICES ASSUME NEW x \in S, NEW y \in S, x \in before[y], NEW z \in before[x]
               PROVE  z \in before[y]
    OBVIOUS
  <2>1. z \in S
    BY <1>2
  <2>2. x > y /\ z > x /\ x \in Nat /\ y \in Nat /\ z \in Nat
    BY <1>1, <1>2, <2>1
  <2>3. z > y
    BY <2>2
  <2> QED
    BY <1>2, <2>1, <2>3
<1>4. \A x \in S : x \notin before[x]
  BY <1>1, <1>2
<1>5. \A x, y \in S : x = y \/ x \in before[y] \/ y \in before[x]
  BY <1>1, <1>2
<1>6. PICK x \in S : before[x] = {}
  BY <1>2, <1>3, <1>4, <1>5, FirstOf DEF StrictOrderBy
<1>7. \A y \in S : x >= y
  BY <1>1, <1>2, <1>6
<1> QED
  BY <1>7

\* Numbering: the elements up to x, x included, number each element of a
\* finite set differently, from 1 to its size.
LEMMA NumberInjective ==
  ASSUME NEW S, IsFiniteSet(S), NEW upto \in [S -> SUBSET S],
         \A x, y \in S : x \in upto[y] \/ y \in upto[x],
         \A x, y \in S : x \in upto[y] /\ y \in upto[x] => x = y,
         \A x, y \in S : x \in upto[y] => upto[x] \subseteq upto[y]
  PROVE  /\ \A x \in S : Cardinality(upto[x]) \in 1..Cardinality(S)
         /\ \A x, y \in S : Cardinality(upto[x]) = Cardinality(upto[y]) => x = y
<1>1. \A x \in S : /\ IsFiniteSet(upto[x]) /\ Cardinality(upto[x]) \in Nat
                   /\ Cardinality(upto[x]) <= Cardinality(S)
  BY FS_Subset, FS_CardinalityType
<1>2. \A x \in S : Cardinality(upto[x]) # 0
  BY <1>1, FS_EmptySet
<1>3. ASSUME NEW x \in S, NEW y \in S, x \in upto[y],
             Cardinality(upto[x]) = Cardinality(upto[y])
      PROVE  x = y
  <2>1. upto[x] = upto[y]
    BY <1>1, <1>3, FS_Subset
  <2> QED
    BY <1>3, <2>1
<1>4. Cardinality(S) \in Nat
  BY FS_CardinalityType
<1> QED
  BY <1>1, <1>2, <1>3, <1>4

-----------------------------------------------------------------------------
(* Counting the hours of chunks: h[d] hours of each d, as pairs <<d, i>>.  *)

CountBy(D, h, m) == {u \in D \X (1..m) : u[2] <= h[u[1]]}

LEMMA CountFinite ==
  ASSUME NEW D, IsFiniteSet(D), NEW m \in Nat, NEW h
  PROVE  IsFiniteSet(CountBy(D, h, m)) /\ Cardinality(CountBy(D, h, m)) \in Nat
<1>1. IsFiniteSet(1..m)
  BY FS_Interval
<1>2. IsFiniteSet(D \X (1..m))
  BY <1>1, FS_Product
<1> QED
  BY <1>2, FS_Subset, FS_CardinalityType DEF CountBy

LEMMA SameSize ==
  ASSUME NEW S, NEW T, IsFiniteSet(S), NEW f \in [S -> T],
         \A x, y \in S : f[x] = f[y] => x = y,
         \A z \in T : \E x \in S : f[x] = z
  PROVE  IsFiniteSet(T) /\ Cardinality(T) = Cardinality(S)
<1>1. f \in Bijection(S, T)
  BY Fun_IsBij
<1> QED
  BY <1>1, FS_Bijection DEF ExistsBijection

\* The members of a finite set, counted by their owners.
LEMMA CountOwned ==
  ASSUME NEW S, IsFiniteSet(S), NEW D, NEW owner \in [S -> D], NEW own \in [D -> SUBSET S],
         \A s \in S, d \in D : s \in own[d] <=> owner[s] = d,
         NEW m \in Nat, NEW h \in [D -> 0..m], \A d \in D : h[d] = Cardinality(own[d])
  PROVE  Cardinality(CountBy(D, h, m)) = Cardinality(S) /\ IsFiniteSet(CountBy(D, h, m))
<1> DEFINE Pick(d) == CHOOSE f : f \in Bijection(1..h[d], own[d])
           U == CountBy(D, h, m)
           g == [u \in U |-> Pick(u[1])[u[2]]]
<1>1. ASSUME NEW d \in D
      PROVE  /\ Pick(d) \in [1..h[d] -> own[d]]
             /\ \A i, j \in 1..h[d] : Pick(d)[i] = Pick(d)[j] => i = j
             /\ \A s \in own[d] : \E i \in 1..h[d] : Pick(d)[i] = s
  <2>1. IsFiniteSet(own[d]) /\ Cardinality(own[d]) = h[d]
    BY FS_Subset
  <2>2. ExistsBijection(1..h[d], own[d])
    BY <2>1, FS_CardinalityType
  <2>3. Pick(d) \in Bijection(1..h[d], own[d])
    BY <2>2 DEF ExistsBijection
  <2> HIDE DEF Pick
  <2> QED
    BY <2>3 DEF Bijection, Injection, Surjection, IsInjective
<1>2. \A d \in D : \A s \in own[d] : s \in S /\ owner[s] = d
  OBVIOUS
<1>3. \A s \in S : owner[s] \in D /\ s \in own[owner[s]]
  OBVIOUS
<1>4. \A d \in D : h[d] \in 0..m
  OBVIOUS
<1>5. \A u \in U : /\ u = <<u[1], u[2]>> /\ u[1] \in D
                   /\ u[2] \in 1..h[u[1]]
  BY <1>4 DEF CountBy
<1>6. \A d \in D : \A i \in 1..h[d] : <<d, i>> \in U
  BY <1>4 DEF CountBy
<1> HIDE DEF Pick, U
<1>7. \A u \in U : g[u] \in own[u[1]]
  BY <1>1, <1>5
<1>8. g \in [U -> S]
  BY <1>7, <1>2, <1>5
<1>9. ASSUME NEW u \in U, NEW v \in U, g[u] = g[v]
      PROVE  u = v
  <2>1. owner[g[u]] = u[1] /\ owner[g[v]] = v[1]
    BY <1>7, <1>2, <1>5
  <2>2. u[1] = v[1]
    BY <2>1, <1>9
  <2>3. g[u] = Pick(u[1])[u[2]] /\ g[v] = Pick(u[1])[v[2]]
    BY <2>2
  <2>4. u[2] = v[2]
    <3>1. u[1] \in D /\ u[2] \in 1..h[u[1]] /\ v[2] \in 1..h[u[1]]
      BY <1>5, <2>2
    <3>2. Pick(u[1])[u[2]] = Pick(u[1])[v[2]]
      BY <1>9, <2>3
    <3> QED
      BY <3>1, <3>2, <1>1
  <2> QED
    BY <2>2, <2>4, <1>5
<1>10. ASSUME NEW s \in S
       PROVE  \E u \in U : g[u] = s
  <2>1. PICK i \in 1..h[owner[s]] : Pick(owner[s])[i] = s
    BY <1>1, <1>3
  <2>2. <<owner[s], i>> \in U
    BY <1>3, <1>6
  <2> QED
    BY <2>1, <2>2
<1> HIDE DEF g
<1>11. g \in Bijection(U, S)
  BY <1>8, <1>9, <1>10, Fun_IsBij
<1>12. IsFiniteSet(U)
  BY <1>11, FS_Injection, Fun_BijectionProperties
<1>13. Cardinality(S) = Cardinality(U)
  BY <1>11, <1>12, FS_Bijection DEF ExistsBijection
<1> QED
  BY <1>12, <1>13 DEF U

\* As many hours under other names.
LEMMA CountRenamed ==
  ASSUME NEW D, IsFiniteSet(D), NEW E, NEW name \in [D -> E], NEW m \in Nat, NEW h, NEW k,
         \A c, d \in D : name[c] = name[d] => c = d,
         \A e \in E : \E d \in D : name[d] = e,
         \A d \in D : k[name[d]] = h[d]
  PROVE  Cardinality(CountBy(E, k, m)) = Cardinality(CountBy(D, h, m))
<1> DEFINE U == CountBy(D, h, m)
           V == CountBy(E, k, m)
           f == [u \in U |-> <<name[u[1]], u[2]>>]
<1>1. \A u \in U : u = <<u[1], u[2]>> /\ u[1] \in D /\ u[2] \in 1..m /\ u[2] <= h[u[1]]
  BY DEF CountBy
<1>2. \A v \in V : v = <<v[1], v[2]>> /\ v[1] \in E /\ v[2] \in 1..m /\ v[2] <= k[v[1]]
  BY DEF CountBy
<1>3. \A d \in D, i \in 1..m : i <= h[d] => <<d, i>> \in U
  BY DEF CountBy
<1>4. \A e \in E, i \in 1..m : i <= k[e] => <<e, i>> \in V
  BY DEF CountBy
<1>5. IsFiniteSet(U)
  BY CountFinite
<1> HIDE DEF U, V
<1>6. f \in [U -> V]
  BY <1>1, <1>4
<1>7. \A u, v \in U : f[u] = f[v] => u = v
  BY <1>1
<1>8. ASSUME NEW v \in V PROVE \E u \in U : f[u] = v
  <2>1. PICK d \in D : name[d] = v[1]
    BY <1>2
  <2>2. <<d, v[2]>> \in U
    BY <2>1, <1>2, <1>3
  <2> QED
    BY <2>1, <2>2, <1>2
<1> HIDE DEF f
<1>9. Cardinality(V) = Cardinality(U)
  BY <1>5, <1>6, <1>7, <1>8, SameSize
<1> QED
  BY <1>9 DEF U, V

\* Hours split in two.
LEMMA CountSplit ==
  ASSUME NEW D, IsFiniteSet(D), NEW m \in Nat,
         NEW h \in [D -> 0..m], NEW a \in [D -> 0..m], NEW b \in [D -> 0..m],
         \A d \in D : h[d] = a[d] + b[d]
  PROVE  Cardinality(CountBy(D, h, m)) =
           Cardinality(CountBy(D, a, m)) + Cardinality(CountBy(D, b, m))
<1> DEFINE H == CountBy(D, h, m)
           A == CountBy(D, a, m)
           B == CountBy(D, b, m)
           T == {u \in H : u[2] > a[u[1]]}
           f == [u \in B |-> <<u[1], u[2] + a[u[1]]>>]
<1>1. IsFiniteSet(H) /\ IsFiniteSet(A) /\ IsFiniteSet(B)
  BY CountFinite
<1>2. \A d \in D : h[d] \in 0..m /\ a[d] \in 0..m /\ b[d] \in 0..m
  OBVIOUS
<1>3. /\ \A u \in H : u = <<u[1], u[2]>> /\ u[1] \in D /\ u[2] \in 1..m /\ u[2] <= h[u[1]]
      /\ \A u \in A : u = <<u[1], u[2]>> /\ u[1] \in D /\ u[2] \in 1..m /\ u[2] <= a[u[1]]
      /\ \A u \in B : u = <<u[1], u[2]>> /\ u[1] \in D /\ u[2] \in 1..m /\ u[2] <= b[u[1]]
  BY DEF CountBy
<1>4. /\ \A d \in D, i \in 1..m : i <= h[d] => <<d, i>> \in H
      /\ \A d \in D, i \in 1..m : i <= a[d] => <<d, i>> \in A
      /\ \A d \in D, i \in 1..m : i <= b[d] => <<d, i>> \in B
  BY DEF CountBy
<1> HIDE DEF H, A, B
<1>5. H = A \cup T /\ A \cap T = {}
  <2>1. ASSUME NEW u \in A PROVE u \in H /\ u \notin T
    <3>1. u[2] <= h[u[1]]
      BY <1>2, <1>3
    <3>2. ~(u[2] > a[u[1]])
      BY <1>2, <1>3
    <3> QED
      BY <3>1, <3>2, <1>3, <1>4
  <2>2. ASSUME NEW u \in H, u \notin T PROVE u \in A
    <3>1. u[2] <= a[u[1]]
      BY <2>2, <1>2, <1>3
    <3> QED
      BY <3>1, <1>3, <1>4
  <2> QED
    BY <2>1, <2>2
<1>6. f \in [B -> T]
  <2> SUFFICES ASSUME NEW u \in B
               PROVE  <<u[1], u[2] + a[u[1]]>> \in T
    OBVIOUS
  <2> DEFINE d == u[1]
             i == u[2] + a[u[1]]
  <2>1. d \in D /\ i \in 1..m /\ i <= h[d] /\ i > a[d]
    BY <1>2, <1>3
  <2> HIDE DEF d, i
  <2>2. <<d, i>> \in H
    BY <2>1, <1>4
  <2>3. <<d, i>> \in T
    BY <2>1, <2>2
  <2> QED
    BY <2>3 DEF d, i
<1>7. \A u, v \in B : f[u] = f[v] => u = v
  <2> SUFFICES ASSUME NEW u \in B, NEW v \in B, f[u] = f[v] PROVE u = v
    OBVIOUS
  <2>1. u[1] = v[1] /\ u[2] + a[u[1]] = v[2] + a[v[1]]
    OBVIOUS
  <2>2. u[2] = v[2]
    BY <2>1, <1>2, <1>3
  <2> QED
    BY <2>1, <2>2, <1>3
<1>8. ASSUME NEW v \in T PROVE \E u \in B : f[u] = v
  <2> DEFINE d == v[1]
             i == v[2] - a[v[1]]
  <2>1. d \in D /\ i \in 1..m /\ i <= b[d]
    BY <1>2, <1>3
  <2>2. v = <<d, v[2]>> /\ v[2] = i + a[d]
    BY <1>2, <1>3
  <2> HIDE DEF d, i
  <2>3. <<d, i>> \in B
    BY <2>1, <1>4
  <2>4. f[<<d, i>>] = <<d, i + a[d]>>
    BY <2>3
  <2> QED
    BY <2>2, <2>3, <2>4
<1> HIDE DEF f, T
<1>9. IsFiniteSet(T) /\ Cardinality(T) = Cardinality(B)
  BY <1>1, <1>6, <1>7, <1>8, SameSize
<1>10. Cardinality(H) = Cardinality(A) + Cardinality(T) - Cardinality(A \cap T)
  BY <1>1, <1>5, <1>9, FS_Union
<1>11. Cardinality(A \cap T) = 0 /\ Cardinality(A) \in Nat /\ Cardinality(T) \in Nat
  BY <1>1, <1>5, <1>9, FS_EmptySet, FS_CardinalityType
<1> QED
  BY <1>9, <1>10, <1>11 DEF H, A, B

-----------------------------------------------------------------------------
(* Choosing from a ranked finite set T whose members belong to owners: the *)
(* first share members of each owner form a first band, every member of    *)
(* which comes ahead of all the others, and those with fewer than room     *)
(* members ahead of them are chosen.                                       *)

Own(X, owner, g) == {x \in X : owner[x] = g}

FirstBand(T, owner, rank, share) ==
  {t \in T : Cardinality(Own(rank[t], owner, owner[t])) < share}

InFront(T, first, rank, t) ==
  {v \in T : \/ v \in first /\ t \notin first
             \/ (v \in first <=> t \in first) /\ v \in rank[t]}

ChosenOf(T, first, rank, room) ==
  {t \in T : Cardinality(InFront(T, first, rank, t)) < room}

\* One finite set has no more members than another when no owner has more of
\* its members.
LEMMA MoreByOwner ==
  ASSUME NEW T, IsFiniteSet(T), NEW owner, NEW X \in SUBSET T, NEW Y \in SUBSET T,
         \A x \in X : Cardinality(Own(X, owner, owner[x])) <= Cardinality(Own(Y, owner, owner[x]))
  PROVE  Cardinality(X) <= Cardinality(Y)
<1> DEFINE D == {owner[t] : t \in T}
           m == Cardinality(T)
           Mine(Z) == [d \in D |-> Own(Z, owner, d)]
           Size(Z) == [d \in D |-> Cardinality(Own(Z, owner, d))]
           By(Z) == [z \in Z |-> owner[z]]
<1>1. m \in Nat
  BY FS_CardinalityType
<1>2. ASSUME NEW Z \in SUBSET T
      PROVE  /\ IsFiniteSet(Z) /\ Cardinality(Z) \in Nat
             /\ Size(Z) \in [D -> 0..m]
             /\ Cardinality(CountBy(D, Size(Z), m)) = Cardinality(Z)
             /\ IsFiniteSet(CountBy(D, Size(Z), m))
  <2>1. IsFiniteSet(Z) /\ Cardinality(Z) \in Nat
    BY FS_Subset, FS_CardinalityType
  <2>2. \A d \in D : Cardinality(Own(Z, owner, d)) \in 0..m
    <3> SUFFICES ASSUME NEW d \in D PROVE Cardinality(Own(Z, owner, d)) \in 0..m
      OBVIOUS
    <3>1. Own(Z, owner, d) \in SUBSET T
      BY DEF Own
    <3>2. IsFiniteSet(Own(Z, owner, d)) /\ Cardinality(Own(Z, owner, d)) <= m
      BY <3>1, FS_Subset
    <3> QED
      BY <1>1, <3>2, FS_CardinalityType
  <2>3. Size(Z) \in [D -> 0..m]
    BY <2>2
  <2>4. Mine(Z) \in [D -> SUBSET Z] /\ By(Z) \in [Z -> D]
    BY DEF Own
  <2>5. \A z \in Z, d \in D : z \in Mine(Z)[d] <=> By(Z)[z] = d
    BY DEF Own
  <2>6. \A d \in D : Size(Z)[d] = Cardinality(Mine(Z)[d])
    OBVIOUS
  <2>7. PICK own : own = Mine(Z)
    OBVIOUS
  <2>8. PICK by : by = By(Z)
    OBVIOUS
  <2>9. PICK h : h = Size(Z)
    OBVIOUS
  <2> HIDE DEF Mine, By, Size, D, m
  <2>10. /\ own \in [D -> SUBSET Z] /\ by \in [Z -> D] /\ h \in [D -> 0..m]
         /\ \A z \in Z, d \in D : z \in own[d] <=> by[z] = d
         /\ \A d \in D : h[d] = Cardinality(own[d])
    BY <2>3, <2>4, <2>5, <2>6, <2>7, <2>8, <2>9
  <2>11. Cardinality(CountBy(D, h, m)) = Cardinality(Z) /\ IsFiniteSet(CountBy(D, h, m))
    BY <1>1, <2>1, <2>10, CountOwned
  <2> QED
    BY <2>1, <2>3, <2>9, <2>11
<1>3. \A d \in D : Size(X)[d] <= Size(Y)[d]
  <2> SUFFICES ASSUME NEW d \in D PROVE Cardinality(Own(X, owner, d)) <= Cardinality(Own(Y, owner, d))
    OBVIOUS
  <2>1. CASE \E x \in X : owner[x] = d
    BY <2>1
  <2>2. CASE ~ \E x \in X : owner[x] = d
    <3>1. Own(X, owner, d) = {}
      BY <2>2 DEF Own
    <3>2. Cardinality(Own(X, owner, d)) = 0
      BY <3>1, FS_EmptySet
    <3>3. Own(Y, owner, d) \in SUBSET T
      BY DEF Own
    <3> QED
      BY <3>2, <3>3, FS_Subset, FS_CardinalityType
  <2> QED
    BY <2>1, <2>2
<1>4. CountBy(D, Size(X), m) \in SUBSET CountBy(D, Size(Y), m)
  <2>1. Size(X) \in [D -> 0..m] /\ Size(Y) \in [D -> 0..m]
    BY <1>2
  <2> HIDE DEF Size, D, m
  <2>2. \A d \in D : Size(X)[d] \in Int /\ Size(Y)[d] \in Int
    BY <2>1
  <2>3. \A u \in D \X (1..m) : u[2] \in Int /\ u[1] \in D
    BY <1>1
  <2> QED
    BY <1>3, <2>2, <2>3 DEF CountBy
<1> HIDE DEF Size, D, m
<1> QED
  BY <1>2, <1>4, FS_Subset

\* A set closed upwards in the rank has as many members of an owner in the first
\* band as it has of that owner, up to the share.
LEMMA FirstOfOwner ==
  ASSUME NEW T, IsFiniteSet(T), NEW owner, NEW rank, StrictOrderBy(T, rank),
         NEW share \in Nat, NEW O \in SUBSET T,
         \A t \in O : rank[t] \subseteq O,
         NEW g
  PROVE  Cardinality(Own(O \cap FirstBand(T, owner, rank, share), owner, g)) =
           IF Cardinality(Own(O, owner, g)) <= share
           THEN Cardinality(Own(O, owner, g)) ELSE share
<1> DEFINE Z == Own(O, owner, g)
           before == [z \in Z |-> Own(rank[z], owner, g)]
<1>1. IsFiniteSet(Z) /\ Z \in SUBSET T
  BY FS_Subset DEF Own
<1>2. StrictOrderBy(Z, before)
  BY DEF StrictOrderBy, Own
<1>3. Cardinality({z \in Z : Cardinality(before[z]) < share}) =
        IF Cardinality(Z) <= share THEN Cardinality(Z) ELSE share
  <2> HIDE DEF Z, before
  <2> QED
    BY <1>1, <1>2, ServedCount
<1>4. \A z \in Z : before[z] = Own(rank[z], owner, owner[z])
  BY DEF Own
<1>5. {z \in Z : Cardinality(before[z]) < share} =
        Own(O \cap FirstBand(T, owner, rank, share), owner, g)
  <2>1. {z \in Z : Cardinality(before[z]) < share} =
          {z \in Z : Cardinality(Own(rank[z], owner, owner[z])) < share}
    BY <1>4
  <2> QED
    BY <2>1, <1>1 DEF FirstBand, Own
<1> QED
  BY <1>3, <1>5

\* What comes after a member outside the first band, of the same owner, is outside too.
LEMMA LateStaysLate ==
  ASSUME NEW T, IsFiniteSet(T), NEW owner, NEW rank, StrictOrderBy(T, rank),
         NEW share \in Nat, NEW s \in T, NEW t \in T, owner[s] = owner[t],
         t \notin FirstBand(T, owner, rank, share), t \in rank[s]
  PROVE  s \notin FirstBand(T, owner, rank, share)
<1> DEFINE a == Own(rank[t], owner, owner[t])
           b == Own(rank[s], owner, owner[s])
<1>1. a \subseteq b /\ b \subseteq T
  BY DEF StrictOrderBy, Own
<1>2. IsFiniteSet(b) /\ Cardinality(a) <= Cardinality(b)
  BY <1>1, FS_Subset
<1>3. IsFiniteSet(a)
  BY <1>1, FS_Subset
<1>4. Cardinality(a) \in Nat /\ Cardinality(b) \in Nat
  BY <1>2, <1>3, FS_CardinalityType
<1>5. ~(Cardinality(a) < share)
  BY DEF FirstBand
<1> QED
  BY <1>2, <1>4, <1>5 DEF FirstBand

\* What is chosen comes in front of what is not.
LEMMA ChosenInFront ==
  ASSUME NEW T, IsFiniteSet(T), NEW first, NEW rank, StrictOrderBy(T, rank), NEW room \in Nat,
         NEW s \in ChosenOf(T, first, rank, room), NEW y \in T, y \notin ChosenOf(T, first, rank, room)
  PROVE  s \in InFront(T, first, rank, y)
<1>1. SUFFICES ASSUME s \notin InFront(T, first, rank, y) PROVE FALSE
  OBVIOUS
<1>2. s \in T /\ s # y
  BY DEF ChosenOf
<1>3. s \in rank[y] \/ y \in rank[s]
  BY <1>2 DEF StrictOrderBy
<1>4. InFront(T, first, rank, y) \subseteq InFront(T, first, rank, s)
  BY <1>1, <1>2, <1>3 DEF InFront, StrictOrderBy
<1>5. InFront(T, first, rank, s) \subseteq T
  BY DEF InFront
<1>6. /\ IsFiniteSet(InFront(T, first, rank, s))
      /\ Cardinality(InFront(T, first, rank, y)) <= Cardinality(InFront(T, first, rank, s))
  BY <1>4, <1>5, FS_Subset
<1>7. IsFiniteSet(InFront(T, first, rank, y))
  BY <1>4, <1>6, FS_Subset
<1>8. /\ Cardinality(InFront(T, first, rank, s)) \in Nat
      /\ Cardinality(InFront(T, first, rank, y)) \in Nat
  BY <1>6, <1>7, FS_CardinalityType
<1> QED
  BY <1>6, <1>8 DEF ChosenOf

\* No owner has more than its share in the first band.
LEMMA FirstWithinShare ==
  ASSUME NEW T, IsFiniteSet(T), NEW owner, NEW rank, StrictOrderBy(T, rank),
         NEW share \in Nat, NEW X \in SUBSET T, NEW g,
         X \subseteq FirstBand(T, owner, rank, share)
  PROVE  Cardinality(Own(X, owner, g)) <= share
<1> DEFINE F == Own(T \cap FirstBand(T, owner, rank, share), owner, g)
<1>1. \A t \in T : rank[t] \subseteq T
  BY DEF StrictOrderBy
<1>2. Cardinality(F) = IF Cardinality(Own(T, owner, g)) <= share
                       THEN Cardinality(Own(T, owner, g)) ELSE share
  BY <1>1, FirstOfOwner
<1>3. Own(X, owner, g) \subseteq F /\ F \subseteq T /\ Own(T, owner, g) \subseteq T
  BY DEF Own
<1> HIDE DEF F
<1>4. IsFiniteSet(F) /\ IsFiniteSet(Own(T, owner, g))
  BY <1>3, FS_Subset
<1>5. Cardinality(Own(X, owner, g)) <= Cardinality(F) /\ IsFiniteSet(Own(X, owner, g))
  BY <1>3, <1>4, FS_Subset
<1>6. /\ Cardinality(F) \in Nat /\ Cardinality(Own(T, owner, g)) \in Nat
      /\ Cardinality(Own(X, owner, g)) \in Nat
  BY <1>4, <1>5, FS_CardinalityType
<1> QED
  BY <1>2, <1>5, <1>6

(***************************************************************************)
(* O is a set closed upwards in the rank.  The chosen X is guarded by O    *)
(* against owner h when its members of h are in O, and so are those of an  *)
(* owner above its share and, when h has less than its share, all members. *)
(***************************************************************************)
Guarded(X, owner, share, O, h) ==
  \A s \in X : \/ owner[s] = h
               \/ Cardinality(Own(X, owner, owner[s])) > share
               \/ Cardinality(Own(X, owner, h)) < share
               => s \in O

Yielding(X, owner, share, h) ==
  Cardinality(Own(X, owner, h)) < share =>
    \A x \in X : Cardinality(Own(X, owner, owner[x])) <= share

\* A member of O left out of the first band makes everything chosen a member of
\* O in the first band.
LEMMA LeftOutOfFirst ==
  ASSUME NEW T, IsFiniteSet(T), NEW owner, NEW rank, StrictOrderBy(T, rank),
         NEW share \in Nat, NEW room \in Nat,
         NEW O \in SUBSET T, \A t \in O : rank[t] \subseteq O,
         NEW S, S = ChosenOf(T, FirstBand(T, owner, rank, share), rank, room),
         NEW y \in O, y \in FirstBand(T, owner, rank, share), y \notin S
  PROVE  /\ S \subseteq O
         /\ S \subseteq FirstBand(T, owner, rank, share)
<1> DEFINE first == FirstBand(T, owner, rank, share)
<1>1. \A s \in S : s \in InFront(T, first, rank, y)
  BY ChosenInFront
<1> QED
  BY <1>1 DEF InFront

\* An owner with enough members in O, of which too few are chosen, has one left
\* out of the first band.
LEMMA OneLeftOut ==
  ASSUME NEW T, IsFiniteSet(T), NEW owner, NEW rank, StrictOrderBy(T, rank),
         NEW share \in Nat,
         NEW O \in SUBSET T, \A t \in O : rank[t] \subseteq O,
         NEW S \in SUBSET T, NEW h,
         Cardinality(Own(O, owner, h)) >= share, Cardinality(Own(S, owner, h)) < share
  PROVE  \E y \in O : y \in FirstBand(T, owner, rank, share) /\ y \notin S
<1> DEFINE F == Own(O \cap FirstBand(T, owner, rank, share), owner, h)
<1>1. SUFFICES ASSUME F \subseteq Own(S, owner, h) PROVE FALSE
  BY DEF Own
<1>2. Own(O, owner, h) \subseteq T /\ Own(S, owner, h) \subseteq T
  BY DEF Own
<1>3. IsFiniteSet(Own(O, owner, h)) /\ IsFiniteSet(Own(S, owner, h))
  BY <1>2, FS_Subset
<1>4. Cardinality(Own(O, owner, h)) \in Nat /\ Cardinality(Own(S, owner, h)) \in Nat
  BY <1>3, FS_CardinalityType
<1>5. Cardinality(F) = share
  <2>1. Cardinality(F) = IF Cardinality(Own(O, owner, h)) <= share
                         THEN Cardinality(Own(O, owner, h)) ELSE share
    BY FirstOfOwner
  <2> HIDE DEF F
  <2> QED
    BY <2>1, <1>4
<1>6. Cardinality(F) <= Cardinality(Own(S, owner, h))
  BY <1>1, <1>3, FS_Subset
<1> QED
  BY <1>4, <1>5, <1>6

\* Choosing anew, among more, what had been guarded and filled the room keeps it
\* guarded and yielding.
LEMMA ChoosingAgain ==
  ASSUME NEW T, IsFiniteSet(T), NEW owner, NEW rank, StrictOrderBy(T, rank),
         NEW share \in Nat, NEW room \in Nat,
         NEW O \in SUBSET T, \A t \in O : rank[t] \subseteq O,
         NEW H \in SUBSET T, Cardinality(H) = room, NEW h,
         Guarded(H, owner, share, O, h), Yielding(H, owner, share, h),
         NEW S, S = ChosenOf(T, FirstBand(T, owner, rank, share), rank, room)
  PROVE  Guarded(S, owner, share, O, h) /\ Yielding(S, owner, share, h)
<1> DEFINE first == FirstBand(T, owner, rank, share)
           size(X, g) == Cardinality(Own(X, owner, g))
<1>1. \A X \in SUBSET T : \A g : IsFiniteSet(Own(X, owner, g)) /\ size(X, g) \in Nat
  <2> SUFFICES ASSUME NEW X \in SUBSET T, NEW g
               PROVE  IsFiniteSet(Own(X, owner, g)) /\ size(X, g) \in Nat
    OBVIOUS
  <2>1. Own(X, owner, g) \subseteq T
    BY DEF Own
  <2> QED
    BY <2>1, FS_Subset, FS_CardinalityType
<1>2. \A X, Y \in SUBSET T : \A g :
        Own(X, owner, g) \subseteq Y => size(X, g) <= size(Y, g)
  <2> SUFFICES ASSUME NEW X \in SUBSET T, NEW Y \in SUBSET T, NEW g,
                      Own(X, owner, g) \subseteq Y
               PROVE  size(X, g) <= size(Y, g)
    OBVIOUS
  <2>1. Own(X, owner, g) \subseteq Own(Y, owner, g)
    BY DEF Own
  <2> QED
    BY <2>1, <1>1, FS_Subset
<1>3. \A t \in T : rank[t] \subseteq T
  BY DEF StrictOrderBy
<1>4. S \in SUBSET T /\ first \in SUBSET T
  BY DEF ChosenOf, FirstBand
<1>5. \A g : size(O \cap first, g) = IF size(O, g) <= share THEN size(O, g) ELSE share
  BY FirstOfOwner
<1>6. \A g : size(T \cap first, g) = IF size(T, g) <= share THEN size(T, g) ELSE share
  BY <1>3, FirstOfOwner
\* Nothing chosen comes after a set that has room members.
<1>7. ASSUME NEW W \in SUBSET T, \A x \in H : size(H, owner[x]) <= size(W, owner[x]),
             NEW s \in S, \A w \in W : w \in InFront(T, first, rank, s)
      PROVE  FALSE
  <2>1. Cardinality(H) <= Cardinality(W)
    BY <1>7, MoreByOwner
  <2>2. InFront(T, first, rank, s) \subseteq T
    BY DEF InFront
  <2>3. /\ IsFiniteSet(InFront(T, first, rank, s))
        /\ Cardinality(W) <= Cardinality(InFront(T, first, rank, s))
    BY <1>7, <2>2, FS_Subset
  <2>4. Cardinality(W) \in Nat /\ Cardinality(InFront(T, first, rank, s)) \in Nat
    BY <2>3, FS_Subset, FS_CardinalityType
  <2> QED
    BY <2>1, <2>3, <2>4 DEF ChosenOf
<1>8. CASE size(H, h) < share
  <2>1. \A x \in H : size(H, owner[x]) <= share /\ x \in O
    BY <1>8 DEF Guarded, Yielding
  <2> DEFINE G == O \cap first
  <2>2. G \in SUBSET T
    BY <1>4
  <2>3. ASSUME NEW x \in H PROVE size(H, owner[x]) <= size(G, owner[x])
    <3>1. size(H, owner[x]) <= size(O, owner[x])
      BY <1>2, <2>1 DEF Own
    <3>2. size(H, owner[x]) <= share
      BY <2>1
    <3> HIDE DEF size
    <3> QED
      BY <1>1, <1>5, <3>1, <3>2
  <2>4. S \subseteq G
    <3> SUFFICES ASSUME NEW s \in S, s \notin G PROVE FALSE
      OBVIOUS
    <3>1. \A w \in G : w \in InFront(T, first, rank, s)
      BY <1>4 DEF InFront, StrictOrderBy
    <3> HIDE DEF G, size
    <3> QED
      BY <1>7, <2>2, <2>3, <3>1
  <2>5. \A g : size(S, g) <= share
    BY <1>4, <2>4, FirstWithinShare
  <2> QED
    BY <2>4, <2>5 DEF Guarded, Yielding
<1>9. CASE ~(size(H, h) < share)
  <2> DEFINE W == O \cup first
  <2>1. W \in SUBSET T
    BY <1>4
  <2>2. ASSUME NEW x \in H PROVE size(H, owner[x]) <= size(W, owner[x])
    <3>1. CASE owner[x] = h \/ size(H, owner[x]) > share
      <4>1. Own(H, owner, owner[x]) \subseteq O
        BY <3>1 DEF Guarded, Own
      <4> QED
        BY <1>2, <2>1, <4>1
    <3>2. CASE ~(size(H, owner[x]) > share)
      <4>1. size(T \cap first, owner[x]) <= size(W, owner[x])
        BY <1>2, <1>4, <2>1 DEF Own
      <4>2. size(H, owner[x]) <= size(T, owner[x])
        BY <1>2 DEF Own
      <4>3. T \cap first \in SUBSET T /\ T \in SUBSET T
        OBVIOUS
      <4>4. /\ size(T \cap first, owner[x]) \in Nat /\ size(T, owner[x]) \in Nat
            /\ size(W, owner[x]) \in Nat /\ size(H, owner[x]) \in Nat
        BY <1>1, <2>1, <4>3
      <4>5. size(T \cap first, owner[x]) =
              IF size(T, owner[x]) <= share THEN size(T, owner[x]) ELSE share
        BY <1>6
      <4> HIDE DEF size, W, first
      <4> QED
        BY <3>2, <4>1, <4>2, <4>4, <4>5
    <3> QED
      BY <3>1, <3>2
  <2>3. S \subseteq W
    <3> SUFFICES ASSUME NEW s \in S, s \notin W PROVE FALSE
      OBVIOUS
    <3>1. \A w \in W : w \in InFront(T, first, rank, s)
      BY <1>4 DEF InFront, StrictOrderBy
    <3> HIDE DEF W, size
    <3> QED
      BY <1>7, <2>1, <2>2, <3>1
  <2>4. size(O, h) >= share
    <3>1. Own(H, owner, h) \subseteq O
      BY DEF Guarded, Own
    <3>2. size(H, h) <= size(O, h)
      BY <1>2, <3>1
    <3> HIDE DEF size
    <3> QED
      BY <1>1, <1>9, <3>2
  <2>5. ASSUME size(S, h) < share
        PROVE  S \subseteq O /\ S \subseteq first
    <3>1. PICK y \in O : y \in first /\ y \notin S
      BY <1>4, <2>4, <2>5, OneLeftOut
    <3> QED
      BY <3>1, LeftOutOfFirst
  <2>6. Yielding(S, owner, share, h)
    BY <1>4, <2>5, FirstWithinShare DEF Yielding
  <2>7. ASSUME NEW s \in S, s \notin O, owner[s] = h
        PROVE  FALSE
    <3>1. s \in first
      BY <2>3, <2>7
    <3>2. Own(O, owner, h) \subseteq Own(rank[s], owner, h)
      BY <1>4, <2>7 DEF StrictOrderBy, Own
    <3>3. size(O, h) <= size(rank[s], h)
      <4>1. rank[s] \in SUBSET T
        BY <1>3, <1>4
      <4>2. Own(O, owner, h) \subseteq rank[s]
        BY <3>2 DEF Own
      <4> HIDE DEF size
      <4> QED
        BY <1>2, <4>1, <4>2
    <3>4. size(rank[s], h) < share
      BY <2>7, <3>1 DEF FirstBand
    <3> HIDE DEF size
    <3> QED
      BY <1>1, <1>3, <1>4, <2>4, <3>3, <3>4
  <2>8. ASSUME NEW s \in S, s \notin O, size(S, owner[s]) > share
        PROVE  FALSE
    <3>1. PICK t \in Own(S, owner, owner[s]) : t \notin first
      <4>1. CASE Own(S, owner, owner[s]) \subseteq first
        <5> DEFINE X == Own(S, owner, owner[s])
        <5>1. X \in SUBSET T /\ X \subseteq FirstBand(T, owner, rank, share)
          BY <1>4, <4>1 DEF Own
        <5>2. size(X, owner[s]) <= share
          BY <5>1, FirstWithinShare
        <5>3. Own(X, owner, owner[s]) = Own(S, owner, owner[s])
          BY DEF Own
        <5> HIDE DEF X
        <5>4. size(S, owner[s]) <= share
          BY <5>2, <5>3
        <5> HIDE DEF size
        <5> QED
          BY <1>1, <1>4, <2>8, <5>4
      <4> QED
        BY <4>1
    <3>2. t \in O /\ s \in first /\ owner[t] = owner[s] /\ t \in T /\ s \in T
      BY <1>4, <2>3, <2>8, <3>1 DEF Own
    <3>3. t \in rank[s]
      BY <2>8, <3>2 DEF StrictOrderBy
    <3> QED
      BY <3>1, <3>2, <3>3, LateStaysLate
  <2>9. Guarded(S, owner, share, O, h)
    BY <2>5, <2>7, <2>8 DEF Guarded
  <2> QED
    BY <2>6, <2>9
<1> QED
  BY <1>8, <1>9

\* The first time a member x of owner h is left out, what is chosen is guarded by
\* what ranks as high as x, and yielding.
LEMMA LeavingOut ==
  ASSUME NEW T, IsFiniteSet(T), NEW owner, NEW rank, StrictOrderBy(T, rank),
         NEW share \in Nat, NEW room \in Nat,
         NEW O \in SUBSET T, \A t \in O : rank[t] \subseteq O,
         NEW S, S = ChosenOf(T, FirstBand(T, owner, rank, share), rank, room),
         NEW x \in O, x \notin S
  PROVE  Guarded(S, owner, share, O, owner[x]) /\ Yielding(S, owner, share, owner[x])
<1> DEFINE first == FirstBand(T, owner, rank, share)
           size(X, g) == Cardinality(Own(X, owner, g))
           h == owner[x]
<1>1. S \in SUBSET T /\ first \in SUBSET T
  BY DEF ChosenOf, FirstBand
<1>2. CASE x \in first
  BY <1>1, <1>2, LeftOutOfFirst, FirstWithinShare DEF Guarded, Yielding
<1>3. CASE x \notin first
  <2>1. \A s \in S : s \in InFront(T, first, rank, x)
    BY ChosenInFront
  <2>2. \A s \in S : s \notin O => s \in first /\ x \in rank[s]
    BY <1>1, <1>3, <2>1 DEF InFront, StrictOrderBy
  <2>3. ASSUME size(S, h) < share
        PROVE  S \subseteq O /\ S \subseteq first
    <3>1. Own(rank[x], owner, h) \subseteq Own(O, owner, h) /\ Own(O, owner, h) \subseteq T
      BY DEF Own
    <3>2. IsFiniteSet(Own(O, owner, h)) /\ size(rank[x], h) <= size(O, h)
      BY <3>1, FS_Subset
    <3>3. IsFiniteSet(Own(rank[x], owner, h))
      BY <3>1, <3>2, FS_Subset
    <3>4. size(O, h) \in Nat /\ size(rank[x], h) \in Nat
      BY <3>2, <3>3, FS_CardinalityType
    <3>5. ~(size(rank[x], h) < share)
      BY <1>3 DEF FirstBand
    <3>6. size(O, h) >= share
      <4> HIDE DEF size
      <4> QED
        BY <3>2, <3>4, <3>5
    <3>7. PICK y \in O : y \in first /\ y \notin S
      BY <1>1, <2>3, <3>6, OneLeftOut
    <3> QED
      BY <3>7, LeftOutOfFirst
  <2>4. Yielding(S, owner, share, h)
    BY <1>1, <2>3, FirstWithinShare DEF Yielding
  <2>5. ASSUME NEW s \in S, s \notin O, owner[s] = h
        PROVE  FALSE
    BY <1>1, <1>3, <2>2, <2>5, LateStaysLate
  <2>6. ASSUME NEW s \in S, s \notin O, size(S, owner[s]) > share
        PROVE  FALSE
    <3> DEFINE X == Own(S, owner, owner[s])
    <3>1. X \in SUBSET T /\ Own(X, owner, owner[s]) = X
      BY <1>1 DEF Own
    <3>2. IsFiniteSet(X) /\ Cardinality(X) \in Nat
      BY <3>1, FS_Subset, FS_CardinalityType
    <3>3. CASE X \subseteq first
      <4>1. Cardinality(Own(X, owner, owner[s])) <= share
        BY <3>1, <3>3, FirstWithinShare
      <4>2. Cardinality(X) <= share /\ Cardinality(X) > share
        BY <2>6, <3>1, <4>1
      <4> HIDE DEF X
      <4> QED
        BY <3>2, <4>2
    <3>4. CASE ~(X \subseteq first)
      <4>1. PICK t \in X : t \notin first
        BY <3>4
      <4>2. t \in S /\ t \in T /\ owner[t] = owner[s] /\ s \in T
        BY <1>1, <4>1 DEF Own
      <4>3. t \in rank[x]
        BY <1>3, <2>1, <4>1, <4>2 DEF InFront
      <4>4. t \in O
        BY <4>3
      <4>5. t \in rank[s]
        BY <2>6, <4>2, <4>4 DEF StrictOrderBy
      <4> QED
        BY <2>2, <2>6, <4>1, <4>2, <4>5, LateStaysLate
    <3> QED
      BY <3>3, <3>4
  <2>7. Guarded(S, owner, share, O, h)
    BY <2>3, <2>5, <2>6 DEF Guarded
  <2> QED
    BY <2>4, <2>7
<1> QED
  BY <1>2, <1>3

\* Against a guarded and yielding X that fills the room, one more member of owner
\* h, outranked by O alone, has no chance.
LEMMA NoRoomForMore ==
  ASSUME NEW T, IsFiniteSet(T), NEW owner, NEW rank, StrictOrderBy(T, rank),
         NEW share \in Nat, NEW room \in Nat,
         NEW a \in T, NEW X, X = T \ {a}, Cardinality(X) = room,
         Guarded(X, owner, share, rank[a], owner[a]), Yielding(X, owner, share, owner[a])
  PROVE  a \notin ChosenOf(T, FirstBand(T, owner, rank, share), rank, room)
<1> DEFINE first == FirstBand(T, owner, rank, share)
           size(Z, g) == Cardinality(Own(Z, owner, g))
           h == owner[a]
<1>1. \A Z \in SUBSET T : \A g : IsFiniteSet(Own(Z, owner, g)) /\ size(Z, g) \in Nat
  <2> SUFFICES ASSUME NEW Z \in SUBSET T, NEW g
               PROVE  IsFiniteSet(Own(Z, owner, g)) /\ size(Z, g) \in Nat
    OBVIOUS
  <2>1. Own(Z, owner, g) \subseteq T
    BY DEF Own
  <2> QED
    BY <2>1, FS_Subset, FS_CardinalityType
<1>2. \A t \in T : rank[t] \in SUBSET T /\ t \notin rank[t]
  BY DEF StrictOrderBy
<1>3. Own(rank[a], owner, h) = Own(X, owner, h)
  BY <1>2 DEF Guarded, Own
<1>4. ASSUME NEW u \in X PROVE u \in InFront(T, first, rank, a)
  <2>1. CASE u \in rank[a]
    <3>1. ASSUME u \notin first, a \in first PROVE FALSE
      <4>1. size(X, h) < share
        BY <3>1, <1>3 DEF FirstBand
      <4>2. size(X, owner[u]) <= share
        BY <4>1 DEF Yielding
      <4>3. size(rank[u], owner[u]) >= share
        BY <3>1, <1>1, <1>2 DEF FirstBand
      <4>4. rank[u] \subseteq X
        BY <2>1, <1>2 DEF StrictOrderBy
      <4>5. Own(rank[u], owner, owner[u]) \subseteq Own(X, owner, owner[u])
        BY <4>4 DEF Own
      <4>6. u \in Own(X, owner, owner[u]) /\ u \notin Own(rank[u], owner, owner[u])
        BY <1>2 DEF Own
      <4>7. X \in SUBSET T /\ rank[u] \in SUBSET T
        BY <1>2
      <4>8. /\ size(rank[u], owner[u]) <= size(X, owner[u])
            /\ size(rank[u], owner[u]) # size(X, owner[u])
        BY <1>1, <4>5, <4>6, <4>7, FS_Subset
      <4>9. size(X, owner[u]) \in Nat /\ size(rank[u], owner[u]) \in Nat
        BY <1>1, <4>7
      <4> HIDE DEF size
      <4> QED
        BY <4>2, <4>3, <4>8, <4>9
    <3> QED
      BY <2>1, <3>1 DEF InFront
  <2>2. CASE u \notin rank[a]
    <3>1. /\ owner[u] # h
          /\ ~(size(X, owner[u]) > share)
          /\ ~(size(X, h) < share)
      BY <2>2 DEF Guarded
    <3>2. a \notin first
      BY <1>3, <3>1 DEF FirstBand
    <3>3. Own(rank[u], owner, owner[u]) \subseteq Own(X, owner, owner[u])
      BY <1>2, <3>1 DEF Own
    <3>4. u \in Own(X, owner, owner[u]) /\ u \notin Own(rank[u], owner, owner[u])
      BY <1>2 DEF Own
    <3>5. X \in SUBSET T /\ rank[u] \in SUBSET T
      BY <1>2
    <3>6. /\ size(rank[u], owner[u]) <= size(X, owner[u])
          /\ size(rank[u], owner[u]) # size(X, owner[u])
      BY <1>1, <3>3, <3>4, <3>5, FS_Subset
    <3>7. size(X, owner[u]) \in Nat /\ size(rank[u], owner[u]) \in Nat
      BY <1>1, <3>5
    <3>8. size(rank[u], owner[u]) < share
      <4> HIDE DEF size
      <4> QED
        BY <3>1, <3>6, <3>7
    <3>9. u \in first
      BY <3>8 DEF FirstBand
    <3> QED
      BY <3>2, <3>9 DEF InFront
  <2> QED
    BY <2>1, <2>2
<1>5. InFront(T, first, rank, a) \subseteq T
  BY DEF InFront
<1>6. /\ IsFiniteSet(InFront(T, first, rank, a))
      /\ room <= Cardinality(InFront(T, first, rank, a))
  BY <1>4, <1>5, FS_Subset
<1>7. Cardinality(InFront(T, first, rank, a)) \in Nat
  BY <1>6, FS_CardinalityType
<1> QED
  BY <1>6, <1>7 DEF ChosenOf

\* The same of two sets that know their owners in their own ways.
LEMMA MoreByOwners ==
  ASSUME NEW X, IsFiniteSet(X), NEW f, NEW Y, IsFiniteSet(Y), NEW g,
         \A x \in X : Cardinality(Own(X, f, f[x])) <= Cardinality(Own(Y, g, f[x]))
  PROVE  Cardinality(X) <= Cardinality(Y)
<1> DEFINE A == X \X {0}
           B == Y \X {1}
           owner == [t \in A \cup B |-> IF t[2] = 0 THEN f[t[1]] ELSE g[t[1]]]
<1>1. IsFiniteSet({0}) /\ IsFiniteSet({1}) /\ Cardinality({0}) = 1 /\ Cardinality({1}) = 1
  BY FS_Singleton
<1>2. ASSUME NEW Z, IsFiniteSet(Z), NEW i \in {0, 1}
      PROVE  IsFiniteSet(Z \X {i}) /\ Cardinality(Z \X {i}) = Cardinality(Z)
  <2>1. IsFiniteSet(Z \X {i}) /\ Cardinality(Z \X {i}) = Cardinality(Z) * Cardinality({i})
    BY <1>1, <1>2, FS_Product
  <2>2. Cardinality({i}) = 1 /\ Cardinality(Z) \in Nat
    BY <1>1, <1>2, FS_CardinalityType
  <2> QED
    BY <2>1, <2>2
<1>3. /\ IsFiniteSet(A) /\ Cardinality(A) = Cardinality(X)
      /\ IsFiniteSet(B) /\ Cardinality(B) = Cardinality(Y)
  BY <1>2
<1>4. \A d : Own(A, owner, d) = Own(X, f, d) \X {0} /\ Own(B, owner, d) = Own(Y, g, d) \X {1}
  BY DEF Own
<1>5. \A d : /\ Cardinality(Own(A, owner, d)) = Cardinality(Own(X, f, d))
             /\ Cardinality(Own(B, owner, d)) = Cardinality(Own(Y, g, d))
  <2> SUFFICES ASSUME NEW d
               PROVE  /\ Cardinality(Own(A, owner, d)) = Cardinality(Own(X, f, d))
                      /\ Cardinality(Own(B, owner, d)) = Cardinality(Own(Y, g, d))
    OBVIOUS
  <2>1. IsFiniteSet(Own(X, f, d)) /\ IsFiniteSet(Own(Y, g, d))
    BY FS_Subset DEF Own
  <2> HIDE DEF A, B, owner
  <2> QED
    BY <1>2, <1>4, <2>1
<1>6. \A a \in A : a[1] \in X /\ owner[a] = f[a[1]]
  OBVIOUS
<1>7. A \in SUBSET (A \cup B) /\ B \in SUBSET (A \cup B)
  OBVIOUS
<1> HIDE DEF A, B, owner
<1>8. IsFiniteSet(A \cup B)
  BY <1>3, FS_Union
<1>9. \A a \in A : Cardinality(Own(A, owner, owner[a])) <= Cardinality(Own(B, owner, owner[a]))
  BY <1>5, <1>6
<1>10. Cardinality(A) <= Cardinality(B)
  BY <1>7, <1>8, <1>9, MoreByOwner
<1> QED
  BY <1>3, <1>10

(***************************************************************************)
(* Some of those who hold X ask again: K, each for one of X (as e says)    *)
(* whose owner it has, among others who ask.  The others rank below them,  *)
(* save where an owner within its share meets one that has its share.      *)
(***************************************************************************)
AskAgain(T, owner, rank, share, K, X, held, e) ==
  /\ IsFiniteSet(T) /\ StrictOrderBy(T, rank) /\ share \in Nat
  /\ K \subseteq T /\ IsFiniteSet(X)
  /\ e \in Injection(K, X) /\ \A u \in K : held[e[u]] = owner[u]
  /\ \A a \in T \ K : \A u \in K :
       \/ owner[u] = owner[a]
       \/ Cardinality(Own(X, held, owner[u])) > share
       \/ Cardinality(Own(X, held, owner[a])) < share
       => u \in rank[a]
  /\ \A a \in T \ K : \A u \in K :
       Cardinality(Own(X, held, owner[a])) < share =>
         Cardinality(Own(X, held, owner[u])) <= share

\* Then fewer come in front of one of them than were held.
LEMMA KeptInFront ==
  ASSUME NEW T, NEW owner, NEW rank, NEW share, NEW K, NEW X, NEW held, NEW e,
         AskAgain(T, owner, rank, share, K, X, held, e), NEW v \in K
  PROVE  Cardinality(InFront(T, FirstBand(T, owner, rank, share), rank, v)) < Cardinality(X)
<1> DEFINE first == FirstBand(T, owner, rank, share)
           A == InFront(T, first, rank, v)
           Y == X \ {e[v]}
           h == owner[v]
<1>0. /\ IsFiniteSet(T) /\ StrictOrderBy(T, rank) /\ share \in Nat
      /\ K \in SUBSET T /\ IsFiniteSet(X)
      /\ e \in Injection(K, X) /\ \A u \in K : held[e[u]] = owner[u]
      /\ \A a \in T \ K : \A u \in K :
           \/ owner[u] = owner[a]
           \/ Cardinality(Own(X, held, owner[u])) > share
           \/ Cardinality(Own(X, held, owner[a])) < share
           => u \in rank[a]
      /\ \A a \in T \ K : \A u \in K :
           Cardinality(Own(X, held, owner[a])) < share =>
             Cardinality(Own(X, held, owner[u])) <= share
  BY DEF AskAgain
<1> USE <1>0
<1>1. /\ \A t \in T : t \notin rank[t] /\ rank[t] \subseteq T
      /\ \A s, t \in T : s = t \/ s \in rank[t] \/ t \in rank[s]
      /\ \A s, t \in T : ~(s \in rank[t] /\ t \in rank[s])
      /\ \A s, t, u \in T : s \in rank[t] /\ t \in rank[u] => s \in rank[u]
  BY DEF StrictOrderBy
<1>2. /\ e \in [K -> X] /\ \A x, y \in K : e[x] = e[y] => x = y
      /\ v \in T /\ A \subseteq T /\ v \notin A
  BY <1>1 DEF Injection, IsInjective, InFront
<1>3. /\ IsFiniteSet(Y) /\ Cardinality(Y) < Cardinality(X) /\ Cardinality(X) \in Nat
      /\ IsFiniteSet(A) /\ Cardinality(A) \in Nat /\ Cardinality(Y) \in Nat
  <2>1. e[v] \in X
    BY <1>2
  <2>2. IsFiniteSet(Y) /\ Cardinality(Y) = Cardinality(X) - 1
    BY <2>1, FS_RemoveElement
  <2>3. Cardinality(X) \in Nat /\ Cardinality(Y) \in Nat
    BY <2>2, FS_CardinalityType
  <2>4. IsFiniteSet(A) /\ Cardinality(A) \in Nat
    <3> HIDE DEF A
    <3> QED
      BY <1>2, FS_Subset, FS_CardinalityType
  <2> HIDE DEF Y
  <2> QED
    BY <2>2, <2>3, <2>4
<1>4. \A d : /\ IsFiniteSet(Own(X, held, d)) /\ Cardinality(Own(X, held, d)) \in Nat
             /\ IsFiniteSet(Own(Y, held, d)) /\ Cardinality(Own(Y, held, d)) \in Nat
  <2> SUFFICES ASSUME NEW d
               PROVE  /\ IsFiniteSet(Own(X, held, d)) /\ Cardinality(Own(X, held, d)) \in Nat
                      /\ IsFiniteSet(Own(Y, held, d)) /\ Cardinality(Own(Y, held, d)) \in Nat
    OBVIOUS
  <2>1. Own(X, held, d) \subseteq X /\ Own(Y, held, d) \subseteq Y
    BY DEF Own
  <2> HIDE DEF Y
  <2> QED
    BY <1>3, <2>1, FS_Subset, FS_CardinalityType
\* Kept members of an owner are members of X of that owner.
<1>5. ASSUME NEW d, NEW Z \in SUBSET K, \A z \in Z : owner[z] = d, NEW W,
             IsFiniteSet(W), \A z \in Z : e[z] \in W
      PROVE  IsFiniteSet(Z) /\ Cardinality(Z) <= Cardinality(W)
  <2> DEFINE i == [z \in Z |-> e[z]]
  <2>1. i \in [Z -> W] /\ \A x, y \in Z : i[x] = i[y] => x = y
    BY <1>2, <1>5
  <2> HIDE DEF i
  <2>2. i \in Injection(Z, W)
    BY <2>1, Fun_IsInj
  <2> QED
    BY <1>5, <2>2, FS_Injection
\* Of v's owner only kept members rank before v.
<1>6. \A u \in T : owner[u] = h /\ u \in rank[v] => u \in K
  BY <1>1, <1>2
<1>7. ASSUME v \notin first PROVE Cardinality(Own(X, held, h)) > share
  <2> DEFINE R == Own(rank[v], owner, h)
             Z == R \cup {v}
  <2>1. R \subseteq K /\ v \notin R /\ Z \in SUBSET K /\ \A z \in Z : owner[z] = h
    BY <1>1, <1>2, <1>6 DEF Own
  <2>2. IsFiniteSet(Own(X, held, h)) /\ \A z \in Z : e[z] \in Own(X, held, h)
    <3> SUFFICES ASSUME NEW z \in Z PROVE e[z] \in Own(X, held, h)
      BY <1>4
    <3>1. z \in K /\ owner[z] = h
      BY <2>1
    <3> HIDE DEF Z
    <3> QED
      BY <1>2, <3>1 DEF Own
  <2> HIDE DEF Z
  <2>3. IsFiniteSet(Z) /\ Cardinality(Z) <= Cardinality(Own(X, held, h))
    BY <1>5, <2>1, <2>2
  <2>4. IsFiniteSet(R)
    <3>1. R \subseteq T
      BY <2>1
    <3> HIDE DEF R
    <3> QED
      BY <3>1, FS_Subset
  <2>5. Cardinality(Z) = Cardinality(R) + 1 /\ Cardinality(R) \in Nat
    <3> HIDE DEF R
    <3> QED
      BY <2>1, <2>4, FS_AddElement, FS_CardinalityType DEF Z
  <2>6. ~(Cardinality(R) < share)
    BY <1>2, <1>7 DEF FirstBand
  <2>7. Cardinality(Own(X, held, h)) \in Nat
    BY <1>4
  <2> HIDE DEF R
  <2> QED
    BY <2>3, <2>5, <2>6, <2>7
<1>8. ASSUME NEW d, Own(A, owner, d) \subseteq K
      PROVE  Cardinality(Own(A, owner, d)) <= Cardinality(Own(Y, held, d))
  <2>1. \A z \in Own(A, owner, d) : owner[z] = d /\ z # v /\ z \in K
    BY <1>2, <1>8 DEF Own
  <2>2. \A z \in Own(A, owner, d) : e[z] \in Own(Y, held, d)
    BY <1>2, <2>1 DEF Own
  <2> HIDE DEF A, Y
  <2> QED
    BY <1>4, <1>5, <1>8, <2>1, <2>2
<1>9. Own(A, owner, h) \subseteq K
  <2> SUFFICES ASSUME NEW u \in A, owner[u] = h PROVE u \in K
    BY DEF Own
  <2>1. u \in T /\ u # v
    BY <1>2
  <2>2. u \in rank[v]
    <3> SUFFICES ASSUME u \notin rank[v] PROVE FALSE
      OBVIOUS
    <3>1. u \in first /\ v \notin first
      BY DEF InFront
    <3>2. v \in rank[u]
      BY <1>1, <1>2, <2>1
    <3> QED
      BY <1>2, <2>1, <3>1, <3>2, LateStaysLate
  <2> QED
    BY <1>6, <2>1, <2>2
<1>10. ASSUME NEW b \in A, b \notin K, owner[b] # h
       PROVE  Cardinality(Own(A, owner, owner[b])) <= Cardinality(Own(Y, held, owner[b]))
  <2> DEFINE d == owner[b]
  <2>1. b \in T /\ (v \in rank[b] => b \in first /\ v \notin first)
    BY <1>1, <1>2 DEF InFront
  <2>2. ~(Cardinality(Own(X, held, d)) < share)
    <3> SUFFICES ASSUME Cardinality(Own(X, held, d)) < share PROVE FALSE
      OBVIOUS
    <3>1. v \in rank[b] /\ Cardinality(Own(X, held, h)) <= share
      BY <1>10, <2>1
    <3>2. Cardinality(Own(X, held, h)) > share /\ Cardinality(Own(X, held, h)) \in Nat
      BY <1>4, <1>7, <2>1, <3>1
    <3> QED
      BY <3>1, <3>2
  <2>3. Own(A, owner, d) \subseteq first
    <3> SUFFICES ASSUME NEW y \in A, owner[y] = d, y \notin first PROVE FALSE
      BY DEF Own
    <3>1. v \notin first /\ y \in rank[v] /\ y \in T
      BY <1>2 DEF InFront
    <3>2. v \in rank[b]
      BY <1>7, <1>10, <2>1, <3>1
    <3>3. b \in first /\ y \in rank[b]
      BY <1>1, <1>2, <2>1, <3>1, <3>2
    <3> QED
      BY <2>1, <3>1, <3>3, LateStaysLate
  <2>4. Own(A, owner, d) \in SUBSET T /\ Own(Own(A, owner, d), owner, d) = Own(A, owner, d)
    BY <1>2 DEF Own
  <2>5. Cardinality(Own(A, owner, d)) <= share
    <3> HIDE DEF A, first
    <3>1. PICK Z : Z = Own(A, owner, d)
      OBVIOUS
    <3>2. Z \in SUBSET T /\ Z \subseteq FirstBand(T, owner, rank, share) /\ Own(Z, owner, d) = Z
      BY <2>3, <2>4, <3>1 DEF first
    <3>3. Cardinality(Own(Z, owner, d)) <= share
      BY <3>2, FirstWithinShare
    <3> QED
      BY <3>1, <3>2, <3>3
  <2>6. Own(Y, held, d) = Own(X, held, d)
    BY <1>2, <1>10 DEF Own
  <2>7. Cardinality(Own(X, held, d)) \in Nat /\ Cardinality(Own(A, owner, d)) \in Nat
    <3>1. Own(A, owner, d) \subseteq A
      BY DEF Own
    <3> HIDE DEF A
    <3> QED
      BY <1>3, <1>4, <3>1, FS_Subset, FS_CardinalityType
  <2> HIDE DEF A, Y, d, first
  <2>8. Cardinality(Own(A, owner, d)) <= Cardinality(Own(Y, held, d))
    BY <2>2, <2>5, <2>6, <2>7
  <2> QED
    BY <2>8 DEF d
<1>11. \A a \in A : Cardinality(Own(A, owner, owner[a])) <= Cardinality(Own(Y, held, owner[a]))
  <2> SUFFICES ASSUME NEW a \in A
               PROVE  Cardinality(Own(A, owner, owner[a])) <= Cardinality(Own(Y, held, owner[a]))
    OBVIOUS
  <2>1. CASE Own(A, owner, owner[a]) \subseteq K
    BY <1>8, <2>1
  <2>2. CASE ~(Own(A, owner, owner[a]) \subseteq K)
    <3>1. PICK b \in A : b \notin K /\ owner[b] = owner[a]
      BY <2>2 DEF Own
    <3>2. owner[b] # h
      BY <1>9, <3>1 DEF Own
    <3> HIDE DEF A, Y, h
    <3>3. Cardinality(Own(A, owner, owner[b])) <= Cardinality(Own(Y, held, owner[b]))
      BY <1>10, <3>1, <3>2
    <3> QED
      BY <3>1, <3>3
  <2> QED
    BY <2>1, <2>2
<1> HIDE DEF A, Y
<1>12. Cardinality(A) <= Cardinality(Y)
  BY <1>3, <1>11, MoreByOwners
<1>13. Cardinality(A) < Cardinality(X)
  BY <1>3, <1>12
<1> QED
  BY <1>13 DEF A

-----------------------------------------------------------------------------
(* Loops.  What a loop does at its n-th turn is shown by the least number  *)
(* of turns that fails; what it takes in all is counted by the hours it    *)
(* goes through.                                                           *)

\* f runs through n turns of a loop.
RunsTo(room, wants, f, n) ==
  /\ f \in [0..n -> Nat]
  /\ f[0] = room
  /\ \A k \in 1..n : f[k] = f[k - 1] - TakeOf(wants[k], f[k - 1])

LEMMA LoopRuns ==
  ASSUME NEW room \in Nat, NEW wants \in Seq(Nat)
  PROVE  \A n \in 0..Len(wants) : \E f : RunsTo(room, wants, f, n)
<1> DEFINE Bad == {n \in 0..Len(wants) : ~\E f : RunsTo(room, wants, f, n)}
<1>1. SUFFICES Bad = {}
  OBVIOUS
<1>2. Len(wants) \in Nat /\ \A k \in 1..Len(wants) : wants[k] \in Nat
  OBVIOUS
<1>3. 0 \notin Bad
  <2>1. RunsTo(room, wants, [k \in {0} |-> room], 0)
    BY DEF RunsTo
  <2> QED
    BY <2>1
<1>4. ASSUME NEW n \in 1..Len(wants), n \in Bad
      PROVE  n - 1 \in Bad
  <2> SUFFICES ASSUME NEW f, RunsTo(room, wants, f, n - 1)
               PROVE  \E g : RunsTo(room, wants, g, n)
    BY <1>2, <1>4
  <2> DEFINE next == f[n - 1] - TakeOf(wants[n], f[n - 1])
             g == [k \in 0..n |-> IF k = n THEN next ELSE f[k]]
  <2>1. n \in Nat /\ n # 0 /\ wants[n] \in Nat
    BY <1>2
  <2>2. f[n - 1] \in Nat
    BY <2>1 DEF RunsTo
  <2>3. next \in Nat
    BY <2>1, <2>2 DEF TakeOf
  <2> HIDE DEF next
  <2>4. /\ g \in [0..n -> Nat] /\ g[0] = room
        /\ \A k \in 0..(n - 1) : g[k] = f[k]
        /\ g[n] = next
    BY <2>1, <2>3 DEF RunsTo
  <2>5. \A k \in 1..n : g[k] = g[k - 1] - TakeOf(wants[k], g[k - 1])
    <3> SUFFICES ASSUME NEW k \in 1..n PROVE g[k] = g[k - 1] - TakeOf(wants[k], g[k - 1])
      OBVIOUS
    <3> HIDE DEF g
    <3>1. CASE k = n
      <4>1. g[n - 1] = f[n - 1]
        BY <2>1, <2>4
      <4> QED
        BY <2>4, <3>1, <4>1 DEF next
    <3>2. CASE k # n
      <4>1. k \in 1..(n - 1) /\ k - 1 \in 0..(n - 1)
        BY <2>1, <3>2
      <4>2. f[k] = f[k - 1] - TakeOf(wants[k], f[k - 1])
        BY <4>1 DEF RunsTo
      <4> QED
        BY <2>1, <2>4, <4>1, <4>2
    <3> QED
      BY <3>1, <3>2
  <2> HIDE DEF g
  <2>6. RunsTo(room, wants, g, n)
    BY <2>4, <2>5 DEF RunsTo
  <2> QED
    BY <2>6
<1> HIDE DEF Bad
<1>5. ASSUME Bad # {} PROVE FALSE
  <2>1. Bad \in SUBSET Nat
    BY <1>2 DEF Bad
  <2>2. PICK r \in Bad : \A x \in Bad : r <= x
    BY <1>5, <2>1, LeastOf
  <2>3. r \in 1..Len(wants)
    BY <1>2, <1>3 DEF Bad
  <2>4. r - 1 \in Bad
    BY <1>4, <2>3
  <2> QED
    BY <2>2, <2>3, <2>4
<1> QED
  BY <1>5

LEMMA RemainingIs ==
  ASSUME NEW room \in Nat, NEW wants \in Seq(Nat)
  PROVE  LET left == Remaining(room, wants)
         IN /\ left \in [0..Len(wants) -> Nat]
            /\ left[0] = room
            /\ \A n \in 1..Len(wants) : left[n] = left[n - 1] - TakeOf(wants[n], left[n - 1])
<1> DEFINE N == Len(wants)
           Body(f) == [n \in 0..N |->
                         IF n = 0 THEN room
                         ELSE LET before == f[n - 1] IN before - TakeOf(wants[n], before)]
           left == Remaining(room, wants)
<1>1. N \in Nat
  OBVIOUS
<1>2. left = CHOOSE f : f = Body(f)
  BY DEF Remaining
<1>3. PICK f : RunsTo(room, wants, f, N)
  BY <1>1, LoopRuns
<1>4. f = Body(f)
  BY <1>1, <1>3 DEF RunsTo
<1> HIDE DEF Body
<1>5. left = Body(left)
  BY <1>2, <1>4
<1> HIDE DEF left
<1>6. left = [n \in 0..N |->
                         IF n = 0 THEN room
                         ELSE LET before == left[n - 1] IN before - TakeOf(wants[n], before)]
  BY <1>5, Zenon DEF Body
<1>7. left[0] = room /\ \A n \in 1..N : left[n] = left[n - 1] - TakeOf(wants[n], left[n - 1])
  <2>1. 0 \in 0..N /\ \A n \in 1..N : n \in 0..N /\ n # 0
    BY <1>1
  <2> HIDE DEF N
  <2>2. \A n \in 0..N : left[n] = IF n = 0 THEN room
                                   ELSE left[n - 1] - TakeOf(wants[n], left[n - 1])
    BY <1>6, Zenon
  <2> QED
    BY <2>1, <2>2, Zenon
<1> DEFINE Bad == {n \in 0..N : left[n] \notin Nat}
<1>8. \A n \in 1..N : wants[n] \in Nat
  OBVIOUS
<1> HIDE DEF N
<1>9. Bad = {}
  <2> SUFFICES ASSUME Bad # {} PROVE FALSE
    OBVIOUS
  <2>0. Bad \in SUBSET Nat
    BY <1>1
  <2>1. PICK r \in Bad : \A x \in Bad : r <= x
    <3> HIDE DEF Bad
    <3> QED
      BY <2>0, LeastOf
  <2>2. r \in 1..N
    BY <1>1, <1>7
  <2>3. left[r - 1] \in Nat
    BY <1>1, <2>1, <2>2
  <2>4. left[r] = left[r - 1] - TakeOf(wants[r], left[r - 1]) /\ wants[r] \in Nat
    BY <1>7, <1>8, <2>2
  <2>5. left[r] \in Nat
    BY <2>3, <2>4 DEF TakeOf
  <2> QED
    BY <2>5
<1>10. left \in [0..N -> Nat]
  BY <1>6, <1>9
<1> QED
  BY <1>7, <1>10 DEF N, left

\* The sequence r has the elements of S, each once, by rank.
OrderedBy(r, S, rank) ==
  /\ r \in [1..Cardinality(S) -> S] /\ Len(r) = Cardinality(S)
  /\ \A n \in 1..Cardinality(S) : Cardinality(rank[r[n]]) = n - 1
  /\ \A c \in S : /\ PlaceOf(c, r) \in 1..Cardinality(S) /\ r[PlaceOf(c, r)] = c
                 /\ PlaceOf(c, r) = Cardinality(rank[c]) + 1

LEMMA InOrderIs ==
  ASSUME NEW S, IsFiniteSet(S), NEW rank, StrictOrderBy(S, rank)
  PROVE  OrderedBy(InOrder(rank), S, rank)
<1> DEFINE N == Cardinality(S)
           r == InOrder(rank)
           place == [c \in S |-> Cardinality(rank[c])]
<1>1. N \in Nat /\ DOMAIN rank = S
  BY FS_CardinalityType DEF StrictOrderBy
<1>2. place \in Injection(S, 0..(N - 1))
  BY RankInjective DEF Injection, IsInjective
<1>3. IsFiniteSet(0..(N - 1)) /\ Cardinality(0..(N - 1)) = N
  <2> HIDE DEF N
  <2>1. 0 \in Int /\ N - 1 \in Int
    BY <1>1
  <2>2. /\ IsFiniteSet(0..(N - 1))
        /\ Cardinality(0..(N - 1)) = IF 0 > N - 1 THEN 0 ELSE (N - 1) - 0 + 1
    BY <2>1, FS_Interval, Zenon
  <2> QED
    BY <1>1, <2>2
<1>4. place \in Surjection(S, 0..(N - 1))
  BY <1>2, <1>3, FS_Injection
<1>5. \A n \in 1..N : \E c \in S : Cardinality(rank[c]) = n - 1
  <2> SUFFICES ASSUME NEW n \in 1..N PROVE \E c \in S : Cardinality(rank[c]) = n - 1
    OBVIOUS
  <2>1. n - 1 \in 0..(N - 1)
    BY <1>1
  <2> QED
    BY <1>4, <2>1 DEF Surjection
<1>6. r = [n \in 1..N |-> CHOOSE c \in S : Cardinality(rank[c]) = n - 1]
  BY <1>1 DEF InOrder
<1> HIDE DEF N, r
<1>7. \A n \in 1..N : r[n] \in S /\ Cardinality(rank[r[n]]) = n - 1
  BY <1>5, <1>6
<1>8. r \in [1..N -> S] /\ Len(r) = N
  BY <1>1, <1>6, <1>7
<1>9. ASSUME NEW c \in S
      PROVE  /\ PlaceOf(c, r) \in 1..N /\ r[PlaceOf(c, r)] = c
             /\ PlaceOf(c, r) = Cardinality(rank[c]) + 1
  <2>1. Cardinality(rank[c]) \in 0..(N - 1)
    BY RankInjective DEF N
  <2>2. Cardinality(rank[c]) + 1 \in 1..N
    BY <1>1, <2>1
  <2>3. r[Cardinality(rank[c]) + 1] = c
    BY <1>1, <1>7, <2>1, <2>2, RankInjective
  <2>4. DOMAIN r = 1..N
    BY <1>8
  <2>5. PlaceOf(c, r) \in 1..N /\ r[PlaceOf(c, r)] = c
    BY <2>2, <2>3, <2>4 DEF PlaceOf
  <2>6. Cardinality(rank[c]) = PlaceOf(c, r) - 1
    BY <1>7, <2>5
  <2> QED
    BY <1>1, <2>1, <2>5, <2>6
<1> QED
  BY <1>7, <1>8, <1>9 DEF N, r, OrderedBy

LEMMA PlacesAre ==
  ASSUME NEW S, IsFiniteSet(S), NEW rank, StrictOrderBy(S, rank),
         NEW r, OrderedBy(r, S, rank)
  PROVE  /\ \A n \in 1..Cardinality(S) : \A d \in S : PlaceOf(d, r) = n <=> d = r[n]
         /\ \A d, e \in S : PlaceOf(d, r) < PlaceOf(e, r) => d \in rank[e]
<1> DEFINE N == Cardinality(S)
<1>1. /\ r \in [1..N -> S]
      /\ \A n \in 1..N : Cardinality(rank[r[n]]) = n - 1
      /\ \A d \in S : /\ PlaceOf(d, r) \in 1..N /\ r[PlaceOf(d, r)] = d
                      /\ PlaceOf(d, r) = Cardinality(rank[d]) + 1
  BY DEF OrderedBy
<1>2. N \in Nat /\ \A d \in S : IsFiniteSet(rank[d]) /\ Cardinality(rank[d]) \in Nat
  BY FS_Subset, FS_CardinalityType DEF StrictOrderBy
<1> HIDE DEF N
<1>3. \A n \in 1..N : PlaceOf(r[n], r) = n
  BY <1>1, <1>2
<1>4. \A n \in 1..N : \A d \in S : PlaceOf(d, r) = n <=> d = r[n]
  BY <1>1, <1>3
<1>5. ASSUME NEW d \in S, NEW e \in S, PlaceOf(d, r) < PlaceOf(e, r)
      PROVE  d \in rank[e]
  <2>1. d = e \/ d \in rank[e] \/ e \in rank[d]
    BY DEF StrictOrderBy
  <2>2. ASSUME e \in rank[d] PROVE FALSE
    <3>1. rank[e] \subseteq rank[d]
      BY <2>2 DEF StrictOrderBy
    <3>2. Cardinality(rank[e]) <= Cardinality(rank[d])
      BY <1>2, <3>1, FS_Subset
    <3> QED
      BY <1>1, <1>2, <1>5, <3>2
  <2>3. d # e
    BY <1>1, <1>2, <1>5
  <2> QED
    BY <2>1, <2>2, <2>3
<1> QED
  BY <1>4, <1>5 DEF N

LEMMA CountApart ==
  ASSUME NEW A, NEW B, IsFiniteSet(A), IsFiniteSet(B), A \cap B = {}
  PROVE  /\ Cardinality(A \cup B) = Cardinality(A) + Cardinality(B)
         /\ Cardinality(A) \in Nat /\ Cardinality(B) \in Nat
<1>1. Cardinality(A) \in Nat /\ Cardinality(B) \in Nat
  BY FS_CardinalityType
<1>2. Cardinality(A \cup B) = Cardinality(A) + Cardinality(B) - Cardinality({})
  BY FS_Union
<1>3. Cardinality({}) = 0
  BY FS_EmptySet
<1> QED
  BY <1>1, <1>2, <1>3

\* A ranked set in blocks, one for each want and as large as the want.
InBlocks(S, before, wants, block) ==
  /\ IsFiniteSet(S) /\ StrictOrderBy(S, before)
  /\ wants \in Seq(Nat) /\ block \in [S -> 1..Len(wants)]
  /\ \A x, y \in S : block[x] < block[y] => x \in before[y]
  /\ \A n \in 1..Len(wants) : Cardinality({x \in S : block[x] = n}) = wants[n]

\* What a want takes is the number of its elements that have fewer before them
\* than there is room.
LEMMA TakesCount ==
  ASSUME NEW S, NEW before, NEW wants, NEW block, InBlocks(S, before, wants, block),
         NEW room \in Nat
  PROVE  \A n \in 1..Len(wants) :
           Takes(room, wants)[n] =
             Cardinality({x \in S : block[x] = n /\ Cardinality(before[x]) < room})
<1> DEFINE N == Len(wants)
           left == Remaining(room, wants)
           UpTo(n) == {x \in S : block[x] <= n}
           Got(n) == {x \in UpTo(n) : Cardinality(before[x]) < room}
           Block(n) == {x \in S : block[x] = n}
           GotOf(n) == {x \in S : block[x] = n /\ Cardinality(before[x]) < room}
<1>0. /\ IsFiniteSet(S) /\ StrictOrderBy(S, before)
      /\ wants \in Seq(Nat) /\ block \in [S -> 1..N]
      /\ \A x, y \in S : block[x] < block[y] => x \in before[y]
      /\ \A n \in 1..N : Cardinality(Block(n)) = wants[n]
  BY DEF InBlocks
<1> USE <1>0
<1>1. N \in Nat /\ \A n \in 1..N : wants[n] \in Nat
  OBVIOUS
<1>2. /\ left[0] = room
      /\ \A n \in 1..N : left[n] = left[n - 1] - TakeOf(wants[n], left[n - 1])
  BY RemainingIs
<1>3. ASSUME NEW n \in 0..N
      PROVE  /\ IsFiniteSet(UpTo(n)) /\ Cardinality(UpTo(n)) \in Nat
             /\ IsFiniteSet(Got(n)) /\ Cardinality(Got(n)) \in Nat
             /\ Cardinality(Got(n)) = IF Cardinality(UpTo(n)) <= room
                                      THEN Cardinality(UpTo(n)) ELSE room
  <2> DEFINE U == UpTo(n)
             within == [x \in U |-> before[x]]
  <2>1. U \subseteq S
    OBVIOUS
  <2>2. IsFiniteSet(U) /\ Cardinality(U) \in Nat
    BY <2>1, FS_Subset, FS_CardinalityType
  <2>3. \A x \in U : \A y \in before[x] : y \in U
    <3> SUFFICES ASSUME NEW x \in U, NEW y \in before[x] PROVE y \in U
      OBVIOUS
    <3>1. x \in S /\ y \in S
      BY DEF StrictOrderBy
    <3>2. x \notin before[y]
      BY <3>1 DEF StrictOrderBy
    <3>3. ~(block[x] < block[y])
      BY <3>1, <3>2
    <3> QED
      BY <1>1, <3>1, <3>3
  <2>4. StrictOrderBy(U, within)
    <3>1. within \in [U -> SUBSET U]
      BY <2>3
    <3>2. \A x, y \in U : x \in S /\ y \in S /\ within[x] = before[x]
      OBVIOUS
    <3> HIDE DEF U, within
    <3> QED
      BY <3>1, <3>2 DEF StrictOrderBy
  <2>5. Got(n) = {x \in U : Cardinality(within[x]) < room}
    OBVIOUS
  <2>6. Got(n) \subseteq S
    OBVIOUS
  <2>7. IsFiniteSet(Got(n)) /\ Cardinality(Got(n)) \in Nat
    BY <2>6, FS_Subset, FS_CardinalityType
  <2> HIDE DEF U, within
  <2>8. Cardinality({x \in U : Cardinality(within[x]) < room}) =
          IF Cardinality(U) <= room THEN Cardinality(U) ELSE room
    BY <2>2, <2>4, ServedCount
  <2> QED
    BY <2>2, <2>5, <2>7, <2>8 DEF U
<1>4. ASSUME NEW n \in 1..N
      PROVE  /\ Cardinality(UpTo(n)) = Cardinality(UpTo(n - 1)) + wants[n]
             /\ Cardinality(Got(n)) = Cardinality(Got(n - 1)) + Cardinality(GotOf(n))
             /\ Cardinality(GotOf(n)) \in Nat
  <2>1. n - 1 \in 0..N /\ n \in 0..N
    BY <1>1
  <2>2. \A x \in S : block[x] \in Nat
    OBVIOUS
  <2>3. /\ UpTo(n) = UpTo(n - 1) \cup Block(n) /\ UpTo(n - 1) \cap Block(n) = {}
        /\ Got(n) = Got(n - 1) \cup GotOf(n) /\ Got(n - 1) \cap GotOf(n) = {}
    BY <2>2
  <2>4. /\ IsFiniteSet(Block(n)) /\ IsFiniteSet(GotOf(n))
        /\ IsFiniteSet(UpTo(n - 1)) /\ IsFiniteSet(Got(n - 1))
    BY <1>3, <2>1, FS_Subset
  <2>5. Cardinality(Block(n)) = wants[n]
    OBVIOUS
  <2> HIDE DEF UpTo, Got, Block, GotOf
  <2>6. /\ Cardinality(UpTo(n)) = Cardinality(UpTo(n - 1)) + Cardinality(Block(n))
        /\ Cardinality(Got(n)) = Cardinality(Got(n - 1)) + Cardinality(GotOf(n))
    BY <2>3, <2>4, CountApart
  <2> QED
    BY <2>4, <2>5, <2>6, FS_CardinalityType
<1>5. Cardinality(UpTo(0)) = 0
  <2>1. UpTo(0) = {}
    OBVIOUS
  <2> QED
    BY <2>1, FS_EmptySet
<1>6. ASSUME NEW n \in 1..N, left[n - 1] = room - Cardinality(Got(n - 1))
      PROVE  /\ left[n] = room - Cardinality(Got(n))
             /\ TakeOf(wants[n], left[n - 1]) = Cardinality(GotOf(n))
  <2>1. n - 1 \in 0..N /\ n \in 0..N /\ wants[n] \in Nat
    BY <1>1
  <2> DEFINE u0 == Cardinality(UpTo(n - 1))
             u1 == Cardinality(UpTo(n))
             g0 == Cardinality(Got(n - 1))
             g1 == Cardinality(Got(n))
             g == Cardinality(GotOf(n))
  <2>2. /\ u0 \in Nat /\ u1 \in Nat /\ g0 \in Nat /\ g1 \in Nat /\ g \in Nat
        /\ u1 = u0 + wants[n] /\ g1 = g0 + g
        /\ g0 = IF u0 <= room THEN u0 ELSE room
        /\ g1 = IF u1 <= room THEN u1 ELSE room
    BY <1>3, <1>4, <2>1
  <2>3. left[n] = left[n - 1] - TakeOf(wants[n], left[n - 1]) /\ left[n - 1] = room - g0
    BY <1>2, <1>6
  <2> HIDE DEF u0, u1, g0, g1, g, left
  <2>4. TakeOf(wants[n], room - g0) = g
    BY <2>1, <2>2, SMTT(40) DEF TakeOf
  <2>5. left[n] = room - g1 /\ TakeOf(wants[n], left[n - 1]) = g
    BY <2>2, <2>3, <2>4, SMTT(40)
  <2> QED
    BY <2>5 DEF g1, g
<1> DEFINE Bad == {n \in 0..N : left[n] # room - Cardinality(Got(n))}
<1>7. Bad = {}
  <2> SUFFICES ASSUME Bad # {} PROVE FALSE
    OBVIOUS
  <2>1. Bad \in SUBSET Nat
    BY <1>1
  <2>2. PICK r \in Bad : \A x \in Bad : r <= x
    <3> HIDE DEF Bad
    <3> QED
      BY <2>1, LeastOf
  <2>3. left[0] = room - Cardinality(Got(0))
    <3>1. 0 \in 0..N
      BY <1>1
    <3>2. Cardinality(Got(0)) = IF Cardinality(UpTo(0)) <= room THEN Cardinality(UpTo(0)) ELSE room
      BY <1>3, <3>1
    <3> HIDE DEF Got, UpTo, left
    <3>3. Cardinality(Got(0)) = 0
      BY <1>5, <3>2
    <3>4. left[0] = room
      BY <1>2
    <3> QED
      BY <3>3, <3>4
  <2>4. r \in 1..N /\ r - 1 \in 0..N
    <3>1. r \in 0..N /\ left[r] # room - Cardinality(Got(r))
      OBVIOUS
    <3>2. r # 0
      BY <2>3, <3>1
    <3> QED
      BY <1>1, <3>1, <3>2
  <2>5. r - 1 \notin Bad
    <3>1. r - 1 \in Int /\ r \in Int /\ ~(r <= r - 1)
      BY <1>1, <2>4
    <3> HIDE DEF Bad
    <3> QED
      BY <2>2, <3>1
  <2>6. left[r - 1] = room - Cardinality(Got(r - 1))
    BY <2>4, <2>5
  <2>7. left[r] = room - Cardinality(Got(r))
    BY <1>6, <2>4, <2>6
  <2> QED
    BY <2>7
<1>8. ASSUME NEW n \in 1..N
      PROVE  Takes(room, wants)[n] = Cardinality(GotOf(n))
  <2>1. n - 1 \in 0..N
    BY <1>1
  <2>2. left[n - 1] = room - Cardinality(Got(n - 1))
    BY <1>7, <2>1
  <2>3. TakeOf(wants[n], left[n - 1]) = Cardinality(GotOf(n))
    BY <1>6, <2>2
  <2> QED
    BY <2>3 DEF Takes
<1> QED
  BY <1>8

LEMMA PartOfOrder ==
  ASSUME NEW S, NEW before, StrictOrderBy(S, before), NEW T \in SUBSET S
  PROVE  StrictOrderBy(T, [x \in T |-> before[x] \cap T])
<1> DEFINE within == [x \in T |-> before[x] \cap T]
<1>1. within \in [T -> SUBSET T]
  OBVIOUS
<1>2. \A x, y \in T : x \in within[y] <=> x \in before[y]
  OBVIOUS
<1>3. \A x, y \in T : x \in within[y] => within[x] \subseteq within[y]
  <2> SUFFICES ASSUME NEW x \in T, NEW y \in T, x \in within[y], NEW z \in within[x]
               PROVE  z \in within[y]
    OBVIOUS
  <2>1. before[x] \subseteq before[y]
    BY DEF StrictOrderBy
  <2> QED
    BY <2>1
<1>4. \A x, y \in T : /\ x \notin within[x]
                      /\ x = y \/ x \in within[y] \/ y \in within[x]
  BY <1>2 DEF StrictOrderBy
<1> HIDE DEF within
<1>5. StrictOrderBy(T, within)
  BY <1>1, <1>3, <1>4 DEF StrictOrderBy
<1> QED
  BY <1>5 DEF within

\* A set divided in two bands is ranked too, the first band ahead of the other.
LEMMA BandedOrder ==
  ASSUME NEW U, NEW before, StrictOrderBy(U, before), NEW first
  PROVE  StrictOrderBy(U, [x \in U |-> InFront(U, first, before, x)])
<1> DEFINE ahead == [x \in U |-> InFront(U, first, before, x)]
<1>1. ahead \in [U -> SUBSET U]
  BY DEF InFront
<1>2. \A x, y \in U : y \in ahead[x] <=>
        \/ y \in first /\ x \notin first
        \/ (y \in first <=> x \in first) /\ y \in before[x]
  BY DEF InFront
<1>3. /\ before \in [U -> SUBSET U]
      /\ \A x \in U : x \notin before[x]
      /\ \A x, y \in U : x = y \/ x \in before[y] \/ y \in before[x]
      /\ \A x, y \in U : x \in before[y] => before[x] \subseteq before[y]
  BY DEF StrictOrderBy
<1> HIDE DEF ahead
<1>4. \A x \in U : x \notin ahead[x]
  BY <1>2, <1>3
<1>5. \A x, y \in U : x = y \/ x \in ahead[y] \/ y \in ahead[x]
  BY <1>2, <1>3
<1>6. \A x, y \in U : x \in ahead[y] => ahead[x] \subseteq ahead[y]
  <2> SUFFICES ASSUME NEW x \in U, NEW y \in U, x \in ahead[y], NEW z \in ahead[x]
               PROVE  z \in ahead[y]
    OBVIOUS
  <2>1. z \in U
    BY <1>1
  <2> QED
    BY <1>2, <1>3, <2>1
<1>7. StrictOrderBy(U, ahead)
  BY <1>1, <1>4, <1>5, <1>6 DEF StrictOrderBy
<1> QED
  BY <1>7 DEF ahead

\* The hours U of the chunks C, ranked as their chunks are.
RankedAlike(C, rank, U, before, chunk) ==
  /\ IsFiniteSet(C) /\ StrictOrderBy(C, rank)
  /\ IsFiniteSet(U) /\ StrictOrderBy(U, before)
  /\ chunk \in [U -> C]
  /\ \A x, y \in U : chunk[x] \in rank[chunk[y]] => x \in before[y]

\* How many hours each chunk has in T.
CountOfEach(C, U, chunk, T, quantity) ==
  \A c \in C : quantity[c] = Cardinality({x \in U : chunk[x] = c /\ x \in T})

\* One loop over the chunks: a chunk gets its hours that have fewer than room
\* hours before them.
LEMMA RankedTakes ==
  ASSUME NEW C, NEW rank, NEW U, NEW before, NEW chunk,
         RankedAlike(C, rank, U, before, chunk),
         NEW quantity, CountOfEach(C, U, chunk, U, quantity), NEW room \in Nat, NEW c \in C
  PROVE  LET ranked == InOrder(rank)
         IN Takes(room, InTurn(ranked, quantity))[PlaceOf(c, ranked)] =
              Cardinality({x \in U : chunk[x] = c /\ Cardinality(before[x]) < room})
<1> DEFINE ranked == InOrder(rank)
           N == Cardinality(C)
           wants == InTurn(ranked, quantity)
           block == [x \in U |-> PlaceOf(chunk[x], ranked)]
           k == PlaceOf(c, ranked)
<1>1. /\ IsFiniteSet(C) /\ StrictOrderBy(C, rank)
      /\ IsFiniteSet(U) /\ StrictOrderBy(U, before)
      /\ chunk \in [U -> C]
      /\ \A x, y \in U : chunk[x] \in rank[chunk[y]] => x \in before[y]
  BY DEF RankedAlike
<1>2. OrderedBy(ranked, C, rank) /\ N \in Nat
  BY <1>1, InOrderIs, FS_CardinalityType
<1>3. /\ ranked \in [1..N -> C] /\ Len(ranked) = N
      /\ \A d \in C : PlaceOf(d, ranked) \in 1..N /\ ranked[PlaceOf(d, ranked)] = d
  BY <1>2 DEF OrderedBy
<1>4. /\ \A n \in 1..N : \A d \in C : PlaceOf(d, ranked) = n <=> d = ranked[n]
      /\ \A d, e \in C : PlaceOf(d, ranked) < PlaceOf(e, ranked) => d \in rank[e]
  <2> HIDE DEF ranked
  <2> QED
    BY <1>1, <1>2, PlacesAre
<1> HIDE DEF ranked
<1>5. \A d \in C : quantity[d] = Cardinality({x \in U : chunk[x] = d})
  <2> SUFFICES ASSUME NEW d \in C PROVE quantity[d] = Cardinality({x \in U : chunk[x] = d})
    OBVIOUS
  <2>1. {x \in U : chunk[x] = d /\ x \in U} = {x \in U : chunk[x] = d}
    OBVIOUS
  <2> QED
    BY <2>1 DEF CountOfEach
<1>6. \A d \in C : quantity[d] \in Nat
  <2> SUFFICES ASSUME NEW d \in C PROVE Cardinality({x \in U : chunk[x] = d}) \in Nat
    BY <1>5
  <2> QED
    BY <1>1, FS_Subset, FS_CardinalityType
<1>7. wants \in Seq(Nat) /\ Len(wants) = N /\ \A n \in 1..N : wants[n] = quantity[ranked[n]]
  <2>1. wants \in [1..N -> Nat] /\ \A n \in 1..N : wants[n] = quantity[ranked[n]]
    BY <1>3, <1>6 DEF InTurn
  <2> HIDE DEF wants, N
  <2> QED
    BY <1>2, <2>1
<1>8. block \in [U -> 1..Len(wants)]
  BY <1>1, <1>3, <1>7
<1>9. \A x, y \in U : block[x] < block[y] => x \in before[y]
  BY <1>1, <1>4
<1>10. \A n \in 1..Len(wants) : Cardinality({x \in U : block[x] = n}) = wants[n]
  <2> SUFFICES ASSUME NEW n \in 1..N
               PROVE  Cardinality({x \in U : block[x] = n}) = quantity[ranked[n]]
    BY <1>7
  <2>1. {x \in U : block[x] = n} = {x \in U : chunk[x] = ranked[n]} /\ ranked[n] \in C
    BY <1>1, <1>3, <1>4
  <2> QED
    BY <1>5, <2>1
<1> HIDE DEF wants, N
<1>11. InBlocks(U, before, wants, block)
  <2> HIDE DEF block
  <2> QED
    BY <1>1, <1>7, <1>8, <1>9, <1>10 DEF InBlocks
<1>12. k \in 1..Len(wants)
  BY <1>3, <1>7
<1>13. Takes(room, wants)[k] = Cardinality({x \in U : block[x] = k /\ Cardinality(before[x]) < room})
  <2> HIDE DEF block, k
  <2> QED
    BY <1>11, <1>12, TakesCount
<1>14. \A x \in U : block[x] = k <=> chunk[x] = c
  BY <1>1, <1>3, <1>4, <1>12
<1>15. {x \in U : block[x] = k /\ Cardinality(before[x]) < room} =
         {x \in U : chunk[x] = c /\ Cardinality(before[x]) < room}
  BY <1>14
<1> QED
  BY <1>13, <1>15 DEF wants, ranked

\* What the loops over the organisations take of a chunk in the cap: its hours
\* that have fewer than room hours of their organisation before them.
LEMMA InCapIs ==
  ASSUME NEW C, NEW rank, NEW U, NEW before, NEW chunk,
         RankedAlike(C, rank, U, before, chunk),
         NEW hours, hours = [c \in C |-> c.hours], CountOfEach(C, U, chunk, U, hours),
         NEW org, NEW room \in Nat, NEW c \in C
  PROVE  InCap(rank, org, room)[c] =
           Cardinality({x \in U :
             /\ chunk[x] = c
             /\ Cardinality({y \in before[x] : org[chunk[y]] = org[c]}) < room})
<1>1. /\ IsFiniteSet(C) /\ StrictOrderBy(C, rank) /\ DOMAIN rank = C
      /\ IsFiniteSet(U) /\ StrictOrderBy(U, before)
      /\ chunk \in [U -> C]
      /\ \A x, y \in U : chunk[x] \in rank[chunk[y]] => x \in before[y]
  BY DEF RankedAlike, StrictOrderBy
<1> DEFINE own == {d \in C : org[d] = org[c]}
           ownRank == [d \in own |-> rank[d] \cap own]
           S == {x \in U : chunk[x] \in own}
           within == [x \in S |-> before[x] \cap S]
           ownChunk == [x \in S |-> chunk[x]]
           ownHours == [d \in own |-> d.hours]
           ranked == InOrder(ownRank)
<1>2. InCap(rank, org, room)[c] = Takes(room, InTurn(ranked, ownHours))[PlaceOf(c, ranked)]
  BY <1>1 DEF InCap
<1>3. StrictOrderBy(own, ownRank) /\ StrictOrderBy(S, within)
  <2>1. own \in SUBSET C /\ S \in SUBSET U
    OBVIOUS
  <2> HIDE DEF own, S
  <2> QED
    BY <1>1, <2>1, PartOfOrder
<1>4. RankedAlike(own, ownRank, S, within, ownChunk)
  <2>1. IsFiniteSet(own) /\ IsFiniteSet(S)
    BY <1>1, FS_Subset
  <2>2. \A x, y \in S : ownChunk[x] \in ownRank[ownChunk[y]] => x \in within[y]
    BY <1>1
  <2>3. ownChunk \in [S -> own]
    OBVIOUS
  <2> HIDE DEF own, ownRank, S, within, ownChunk
  <2> QED
    BY <1>3, <2>1, <2>2, <2>3 DEF RankedAlike
<1>5. CountOfEach(own, S, ownChunk, S, ownHours)
  <2> SUFFICES ASSUME NEW d \in own
               PROVE  d.hours = Cardinality({x \in S : ownChunk[x] = d /\ x \in S})
    BY DEF CountOfEach
  <2>1. {x \in S : ownChunk[x] = d /\ x \in S} = {x \in U : chunk[x] = d /\ x \in U}
    OBVIOUS
  <2>2. d.hours = Cardinality({x \in U : chunk[x] = d /\ x \in U})
    BY DEF CountOfEach
  <2> QED
    BY <2>1, <2>2
<1>6. Takes(room, InTurn(ranked, ownHours))[PlaceOf(c, ranked)] =
        Cardinality({x \in S : ownChunk[x] = c /\ Cardinality(within[x]) < room})
  <2>1. c \in own
    OBVIOUS
  <2> HIDE DEF own, ownRank, S, within, ownChunk, ownHours
  <2> QED
    BY <1>4, <1>5, <2>1, RankedTakes
<1>7. \A x \in U : chunk[x] = c => x \in S /\ within[x] = {y \in before[x] : org[chunk[y]] = org[c]}
  <2> SUFFICES ASSUME NEW x \in U, chunk[x] = c
               PROVE  x \in S /\ before[x] \cap S = {y \in before[x] : org[chunk[y]] = org[c]}
    OBVIOUS
  <2>1. before[x] \subseteq U
    BY <1>1 DEF StrictOrderBy
  <2> QED
    BY <1>1, <2>1
<1>8. S \subseteq U /\ \A x \in S : ownChunk[x] = chunk[x]
  OBVIOUS
<1> HIDE DEF S, within, ownChunk
<1>9. {x \in S : ownChunk[x] = c /\ Cardinality(within[x]) < room} =
        {x \in U : /\ chunk[x] = c
                   /\ Cardinality({y \in before[x] : org[chunk[y]] = org[c]}) < room}
  BY <1>7, <1>8, ZenonT(60)
<1> QED
  BY <1>2, <1>6, <1>9

\* The same for some of the hours.
LEMMA PartOfRanked ==
  ASSUME NEW C, NEW rank, NEW U, NEW before, NEW chunk,
         RankedAlike(C, rank, U, before, chunk), NEW D \in SUBSET U
  PROVE  RankedAlike(C, rank, D, [x \in D |-> before[x] \cap D], [x \in D |-> chunk[x]])
<1> DEFINE within == [x \in D |-> before[x] \cap D]
           ownChunk == [x \in D |-> chunk[x]]
<1>1. /\ IsFiniteSet(C) /\ StrictOrderBy(C, rank)
      /\ IsFiniteSet(U) /\ StrictOrderBy(U, before)
      /\ chunk \in [U -> C]
      /\ \A x, y \in U : chunk[x] \in rank[chunk[y]] => x \in before[y]
  BY DEF RankedAlike
<1>2. IsFiniteSet(D) /\ StrictOrderBy(D, within)
  BY <1>1, FS_Subset, PartOfOrder
<1>3. ownChunk \in [D -> C]
  BY <1>1
<1>4. \A x, y \in D : ownChunk[x] \in rank[ownChunk[y]] => x \in within[y]
  BY <1>1
<1> HIDE DEF within, ownChunk
<1>5. RankedAlike(C, rank, D, within, ownChunk)
  BY <1>1, <1>2, <1>3, <1>4 DEF RankedAlike
<1> QED
  BY <1>5 DEF within, ownChunk

LeftOver(C, hours, quantity, rest) == \A c \in C : rest[c] = hours[c] - quantity[c]

SomeOfEach(C, T, chunk, rest) == \A c \in C : rest[c] > 0 <=> \E x \in T : chunk[x] = c

\* What a chunk has outside T is what is left of its hours.
LEMMA RestOfEach ==
  ASSUME NEW C, NEW U, IsFiniteSet(U), NEW chunk, NEW hours,
         CountOfEach(C, U, chunk, U, hours),
         NEW T, NEW quantity, CountOfEach(C, U, chunk, T, quantity),
         NEW rest, LeftOver(C, hours, quantity, rest)
  PROVE  /\ CountOfEach(C, U, chunk, U \ T, rest)
         /\ SomeOfEach(C, U \ T, chunk, rest)
<1> DEFINE In(c) == {x \in U : chunk[x] = c /\ x \in T}
           Out(c) == {x \in U : chunk[x] = c /\ x \in U \ T}
<1>1. ASSUME NEW c \in C
      PROVE  /\ rest[c] = Cardinality(Out(c))
             /\ Cardinality(Out(c)) > 0 <=> Out(c) # {}
  <2>1. IsFiniteSet(In(c)) /\ IsFiniteSet(Out(c))
    BY FS_Subset
  <2>2. In(c) \cap Out(c) = {} /\ In(c) \cup Out(c) = {x \in U : chunk[x] = c /\ x \in U}
    OBVIOUS
  <2>3. hours[c] = Cardinality(In(c) \cup Out(c)) /\ quantity[c] = Cardinality(In(c))
    BY <2>2 DEF CountOfEach
  <2> HIDE DEF In, Out
  <2>4. /\ Cardinality(In(c) \cup Out(c)) = Cardinality(In(c)) + Cardinality(Out(c))
        /\ Cardinality(In(c)) \in Nat /\ Cardinality(Out(c)) \in Nat
    BY <2>1, <2>2, CountApart
  <2>5. Cardinality(Out(c)) = 0 <=> Out(c) = {}
    BY <2>1, FS_EmptySet
  <2> QED
    BY <2>3, <2>4, <2>5 DEF LeftOver
<1>2. \A c \in C : Out(c) # {} <=> \E x \in U \ T : chunk[x] = c
  OBVIOUS
<1>3. CountOfEach(C, U, chunk, U \ T, rest)
  BY <1>1 DEF CountOfEach
<1> HIDE DEF Out
<1> QED
  BY <1>1, <1>2, <1>3 DEF SomeOfEach

\* The blocks of two loops: the hours of the first band, chunk by chunk, then the
\* others.
InTwoBlocks(C, rank, U, before, chunk, first, in, over) ==
  LET ranked == InOrder(rank)
      wants == InTurn(ranked, in) \o InTurn(ranked, over)
      N == Cardinality(C)
  IN /\ N \in Nat /\ Len(ranked) = N /\ Len(wants) = N + N
     /\ \A c \in C : PlaceOf(c, ranked) \in 1..N
     /\ \A c, d \in C : PlaceOf(c, ranked) = PlaceOf(d, ranked) => c = d
     /\ InBlocks(U, [x \in U |-> InFront(U, first, before, x)], wants,
                 [x \in U |-> PlaceOf(chunk[x], ranked) + IF x \in first THEN 0 ELSE N])

LEMMA BandedBlocks ==
  ASSUME NEW C, NEW rank, NEW U, NEW before, NEW chunk,
         RankedAlike(C, rank, U, before, chunk), NEW first,
         NEW in, CountOfEach(C, U, chunk, first, in),
         NEW over, CountOfEach(C, U, chunk, U \ first, over)
  PROVE  InTwoBlocks(C, rank, U, before, chunk, first, in, over)
<1> DEFINE ranked == InOrder(rank)
           N == Cardinality(C)
           wants == InTurn(ranked, in) \o InTurn(ranked, over)
           ahead == [x \in U |-> InFront(U, first, before, x)]
           place(x) == PlaceOf(chunk[x], ranked)
           block == [x \in U |-> place(x) + IF x \in first THEN 0 ELSE N]
           High(c) == {x \in U : chunk[x] = c /\ x \in first}
           Low(c) == {x \in U : chunk[x] = c /\ x \in U \ first}
<1>1. /\ IsFiniteSet(C) /\ StrictOrderBy(C, rank)
      /\ IsFiniteSet(U) /\ StrictOrderBy(U, before)
      /\ chunk \in [U -> C]
      /\ \A x, y \in U : chunk[x] \in rank[chunk[y]] => x \in before[y]
  BY DEF RankedAlike
<1>2. OrderedBy(ranked, C, rank) /\ N \in Nat
  BY <1>1, InOrderIs, FS_CardinalityType
<1>3. /\ ranked \in [1..N -> C] /\ Len(ranked) = N
      /\ \A c \in C : PlaceOf(c, ranked) \in 1..N /\ ranked[PlaceOf(c, ranked)] = c
  BY <1>2 DEF OrderedBy
<1>4. /\ \A n \in 1..N : \A d \in C : PlaceOf(d, ranked) = n <=> d = ranked[n]
      /\ \A d, e \in C : PlaceOf(d, ranked) < PlaceOf(e, ranked) => d \in rank[e]
  <2> HIDE DEF ranked
  <2> QED
    BY <1>1, <1>2, PlacesAre
<1> HIDE DEF ranked
<1>5. \A c \in C : in[c] = Cardinality(High(c)) /\ over[c] = Cardinality(Low(c))
  BY DEF CountOfEach
<1>6. \A c \in C : Cardinality(High(c)) \in Nat /\ Cardinality(Low(c)) \in Nat
  <2> SUFFICES ASSUME NEW c \in C
               PROVE  Cardinality(High(c)) \in Nat /\ Cardinality(Low(c)) \in Nat
    OBVIOUS
  <2>1. IsFiniteSet(High(c)) /\ IsFiniteSet(Low(c))
    BY <1>1, FS_Subset
  <2> QED
    BY <2>1, FS_CardinalityType
<1>7. /\ wants \in Seq(Nat) /\ Len(wants) = N + N
      /\ \A n \in 1..N : wants[n] = in[ranked[n]] /\ wants[N + n] = over[ranked[n]]
  <2> DEFINE a == InTurn(ranked, in)
             b == InTurn(ranked, over)
  <2>0. \A c \in C : in[c] \in Nat /\ over[c] \in Nat
    <3> HIDE DEF High, Low
    <3> QED
      BY <1>5, <1>6
  <2>1. a \in [1..N -> Nat] /\ b \in [1..N -> Nat]
    <3> HIDE DEF N
    <3> QED
      BY <1>3, <2>0 DEF InTurn
  <2>2. \A n \in 1..N : a[n] = in[ranked[n]] /\ b[n] = over[ranked[n]]
    BY <1>3 DEF InTurn
  <2>3. wants = a \o b
    OBVIOUS
  <2> HIDE DEF a, b, N, wants
  <2>4. a \in Seq(Nat) /\ b \in Seq(Nat) /\ Len(a) = N /\ Len(b) = N
    BY <1>2, <2>1
  <2>5. wants \in Seq(Nat) /\ Len(wants) = N + N
    <3>1. a \o b \in Seq(Nat)
      BY <2>4
    <3>2. Len(a \o b) = Len(a) + Len(b)
      BY <2>4
    <3> QED
      BY <2>3, <2>4, <3>1, <3>2
  <2>6. \A n \in 1..N : wants[n] = a[n] /\ wants[N + n] = b[n]
    BY <1>2, <2>3, <2>4, SMTT(30)
  <2> QED
    BY <2>2, <2>5, <2>6
<1>8. \A x \in U : place(x) \in 1..N
  BY <1>1, <1>3
<1> HIDE DEF wants, N
<1>9. block \in [U -> 1..Len(wants)]
  <2> SUFFICES ASSUME NEW x \in U
               PROVE  place(x) + (IF x \in first THEN 0 ELSE N) \in 1..(N + N)
    BY <1>7
  <2> HIDE DEF place
  <2> QED
    BY <1>2, <1>8
<1>10. ASSUME NEW x \in U, NEW y \in U, block[x] < block[y]
       PROVE  x \in ahead[y]
  <2>1. /\ block[x] = place(x) + IF x \in first THEN 0 ELSE N
        /\ block[y] = place(y) + IF y \in first THEN 0 ELSE N
    OBVIOUS
  <2>2. ~(x \notin first /\ y \in first) /\ ((x \in first <=> y \in first) => place(x) < place(y))
    <3> HIDE DEF place, block
    <3> QED
      BY <1>2, <1>8, <1>10, <2>1
  <2>3. place(x) < place(y) => x \in before[y]
    BY <1>1, <1>4
  <2> QED
    BY <2>2, <2>3 DEF InFront
<1>11. \A n \in 1..N : /\ {x \in U : block[x] = n} = High(ranked[n])
                       /\ {x \in U : block[x] = N + n} = Low(ranked[n])
  <2> SUFFICES ASSUME NEW n \in 1..N, NEW x \in U
               PROVE  /\ block[x] = n <=> (chunk[x] = ranked[n] /\ x \in first)
                      /\ block[x] = N + n <=> (chunk[x] = ranked[n] /\ x \in U \ first)
    OBVIOUS
  <2>1. place(x) = n <=> chunk[x] = ranked[n]
    BY <1>1, <1>4 DEF N
  <2>2. block[x] = place(x) + IF x \in first THEN 0 ELSE N
    OBVIOUS
  <2>3. place(x) \in 1..N
    BY <1>8
  <2> HIDE DEF place, block
  <2> QED
    BY <1>2, <2>1, <2>2, <2>3 DEF N
<1>12. \A n \in 1..Len(wants) : Cardinality({x \in U : block[x] = n}) = wants[n]
  <2> SUFFICES ASSUME NEW n \in 1..(N + N)
               PROVE  Cardinality({x \in U : block[x] = n}) = wants[n]
    BY <1>7
  <2>1. CASE n \in 1..N
    <3>1. ranked[n] \in C
      BY <1>3, <2>1 DEF N
    <3> QED
      BY <1>5, <1>7, <1>11, <2>1, <3>1
  <2>2. CASE n \notin 1..N
    <3>1. n - N \in 1..N /\ n = N + (n - N)
      BY <1>2, <2>2 DEF N
    <3>2. ranked[n - N] \in C
      BY <1>3, <3>1 DEF N
    <3>3. wants[N + (n - N)] = over[ranked[n - N]]
      BY <1>7, <3>1
    <3>4. {x \in U : block[x] = N + (n - N)} = Low(ranked[n - N])
      BY <1>11, <3>1
    <3>5. wants[n] = over[ranked[n - N]]
      BY <3>1, <3>3
    <3>6. {x \in U : block[x] = n} = Low(ranked[n - N])
      BY <3>1, <3>4
    <3> HIDE DEF block, Low
    <3>7. over[ranked[n - N]] = Cardinality(Low(ranked[n - N]))
      BY <1>5, <3>2
    <3> QED
      BY <3>5, <3>6, <3>7
  <2> QED
    BY <2>1, <2>2
<1>13. StrictOrderBy(U, ahead)
  BY <1>1, BandedOrder
<1>14. InBlocks(U, ahead, wants, block)
  <2> HIDE DEF ahead, block
  <2> QED
    BY <1>1, <1>7, <1>9, <1>10, <1>12, <1>13 DEF InBlocks
<1> QED
  BY <1>2, <1>3, <1>4, <1>7, <1>14 DEF N, wants, ranked, InTwoBlocks

\* What a chunk gets from two loops.
FromBoth(rank, in, over, room, c) ==
  LET ranked == InOrder(rank)
      takes == Takes(room, InTurn(ranked, in) \o InTurn(ranked, over))
  IN takes[PlaceOf(c, ranked)] + takes[Len(ranked) + PlaceOf(c, ranked)]

\* The two loops together: a chunk gets those of its hours that are chosen.
LEMMA BandedTakes ==
  ASSUME NEW C, NEW rank, NEW U, NEW before, NEW chunk,
         RankedAlike(C, rank, U, before, chunk), NEW first,
         NEW in, CountOfEach(C, U, chunk, first, in),
         NEW over, CountOfEach(C, U, chunk, U \ first, over),
         NEW room \in Nat, NEW c \in C
  PROVE  FromBoth(rank, in, over, room, c) =
           Cardinality({x \in ChosenOf(U, first, before, room) : chunk[x] = c})
<1> DEFINE ranked == InOrder(rank)
           N == Cardinality(C)
           wants == InTurn(ranked, in) \o InTurn(ranked, over)
           takes == Takes(room, wants)
           ahead == [x \in U |-> InFront(U, first, before, x)]
           place(d) == PlaceOf(d, ranked)
           block == [x \in U |-> place(chunk[x]) + IF x \in first THEN 0 ELSE N]
           k == PlaceOf(c, ranked)
           Got(n) == {x \in U : block[x] = n /\ Cardinality(ahead[x]) < room}
<1>1. /\ N \in Nat /\ Len(ranked) = N /\ Len(wants) = N + N
      /\ \A d \in C : place(d) \in 1..N
      /\ \A d, e \in C : place(d) = place(e) => d = e
      /\ InBlocks(U, ahead, wants, block)
  <2>1. InTwoBlocks(C, rank, U, before, chunk, first, in, over)
    BY BandedBlocks
  <2> QED
    BY <2>1 DEF InTwoBlocks
<1>2. chunk \in [U -> C] /\ IsFiniteSet(U)
  BY DEF RankedAlike
<1>3. \A x \in U : block[x] = place(chunk[x]) + IF x \in first THEN 0 ELSE N
  OBVIOUS
<1> HIDE DEF ranked, wants, N, block, place
<1>4. \A n \in 1..Len(wants) : takes[n] = Cardinality(Got(n))
  <2> HIDE DEF ahead
  <2> QED
    BY <1>1, TakesCount
<1>5. k \in 1..N /\ k = place(c)
  BY <1>1 DEF place
<1>6. k \in 1..Len(wants) /\ N + k \in 1..Len(wants) /\ N + k # k
  BY <1>1, <1>5
<1>7. \A x \in U : block[x] \in {k, N + k} <=> chunk[x] = c
  <2> SUFFICES ASSUME NEW x \in U PROVE block[x] \in {k, N + k} <=> chunk[x] = c
    OBVIOUS
  <2>1. place(chunk[x]) \in 1..N /\ (place(chunk[x]) = k <=> chunk[x] = c)
    BY <1>1, <1>2, <1>5
  <2>2. block[x] = place(chunk[x]) + IF x \in first THEN 0 ELSE N
    BY <1>3
  <2> HIDE DEF k
  <2> QED
    BY <1>1, <1>5, <2>1, <2>2
<1>8. Got(k) \cup Got(N + k) = {x \in ChosenOf(U, first, before, room) : chunk[x] = c}
  BY <1>7 DEF ChosenOf
<1>9. IsFiniteSet(Got(k)) /\ IsFiniteSet(Got(N + k)) /\ Got(k) \cap Got(N + k) = {}
  BY <1>2, <1>6, FS_Subset
<1> HIDE DEF Got, takes
<1>10. Cardinality(Got(k) \cup Got(N + k)) = takes[k] + takes[N + k]
  BY <1>4, <1>6, <1>9, CountApart
<1> QED
  BY <1>1, <1>8, <1>10 DEF takes, wants, ranked, FromBoth
=============================================================================
