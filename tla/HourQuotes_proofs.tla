-------------------------- MODULE HourQuotes_proofs --------------------------
(***************************************************************************)
(* Proofs about the quotes of an hour, for every machine, boost, base and  *)
(* load.  That the host nets its machine needs to know what a quote is:    *)
(* the answer to its own machine and boost.                                *)
(***************************************************************************)
EXTENDS HourQuotes, CommonFacts

Fraction == [num : Nat, den : Nat \ {0}]

LEMMA TimesNat ==
  ASSUME NEW a \in Nat, NEW b \in Nat
  PROVE  a * b \in Nat
  OBVIOUS

LEMMA TimesPositive ==
  ASSUME NEW a \in Nat \ {0}, NEW b \in Nat \ {0}
  PROVE  a * b \in Nat \ {0}
  OBVIOUS

LEMMA TimesOrder ==
  ASSUME NEW a \in Nat, NEW b \in Int, NEW c \in Int, b <= c
  PROVE  a * b <= a * c
  OBVIOUS

LEMMA CancelOrder ==
  ASSUME NEW a \in Nat \ {0}, NEW b \in Int, NEW c \in Int, a * b <= a * c
  PROVE  b <= c
  OBVIOUS

\* The nearest integer is half a unit away at most.
LEMMA HalfEvenMisses ==
  ASSUME NEW n \in Int, NEW d \in Nat \ {0}
  PROVE  2 * d * HalfEven(n, d) >= 2 * n - d
<1> DEFINE q == n \div d
           r == n % d
           h == HalfEven(n, d)
<1>1. q \in Int /\ r \in 0..(d - 1) /\ n = d * q + r
  BY Division
<1>2. /\ h \in Int /\ h \in {q, q + 1}
      /\ 2 * r > d => h = q + 1
  BY HalfEvenInt
<1> HIDE DEF q, r, h
<1>3. CASE h = q
  <2>1. 2 * r <= d
    BY <1>1, <1>2, <1>3
  <2>2. d * h = d * q
    BY <1>3
  <2> QED
    BY <1>1, <1>2, <2>1, <2>2 DEF h
<1>4. CASE h = q + 1
  <2>1. d * h = d * q + d
    BY <1>1, <1>4
  <2> QED
    BY <1>1, <1>2, <2>1 DEF h
<1> QED
  BY <1>2, <1>3, <1>4

-----------------------------------------------------------------------------
(* Floors.                                                                 *)

LEMMA FloorFraction ==
  ASSUME NEW m \in Machine
  PROVE  FloorOf(m) \in Fraction
<1> DEFINE used == Clamp(m.u, UMin, UMax)
<1>1. used \in Nat \ {0}
  BY HourAssumption DEF Clamp, Machine
<1>2. Life * used \in Nat \ {0}
  BY <1>1, HourAssumption, TimesPositive
<1>3. m.running \in Nat /\ m.capital \in Nat
  BY DEF Machine
<1>4. m.running * Life * used \in Nat
  BY <1>1, <1>3, HourAssumption, TimesNat
<1>5. m.capital * Places * Parts \in Nat
  BY <1>3, HourAssumption, TimesNat
<1> HIDE DEF used
<1> QED
  BY <1>2, <1>4, <1>5 DEF FloorOf, Fraction, used

\* The least cent price that nets what it was made from.
LEMMA GrossUpNets ==
  ASSUME NEW f \in Fraction, NEW boost \in Nat, NEW m \in Machine
  PROVE  GrossUp(f, boost, m) \in Nat /\ Nets(GrossUp(f, boost, m), f, boost, m)
<1> DEFINE n == 100 * (f.num * boost * m.hours + m.fixed * Places * Scale * f.den)
           d == Places * Scale * f.den * m.hours * (100 - m.fee)
<1>1. /\ f.num \in Nat /\ f.den \in Nat \ {0}
      /\ m.hours \in Nat \ {0} /\ m.fixed \in Nat /\ 100 - m.fee \in Nat \ {0}
      /\ Places \in Nat \ {0} /\ Scale \in Nat \ {0}
  BY HourAssumption DEF Fraction, Machine
<1>2. f.num * boost * m.hours \in Nat
  BY <1>1, TimesNat
<1>3. m.fixed * Places * Scale * f.den \in Nat
  BY <1>1, TimesNat
<1>4. n \in Nat
  BY <1>2, <1>3
<1>5. d \in Nat \ {0}
  <2>1. Places * Scale * f.den \in Nat \ {0}
    BY <1>1, TimesPositive
  <2>2. Places * Scale * f.den * m.hours \in Nat \ {0}
    BY <1>1, <2>1, TimesPositive
  <2> QED
    BY <1>1, <2>2, TimesPositive
<1>6. GrossUp(f, boost, m) = Ceil(n, d)
  BY DEF GrossUp
<1>7. Nets(GrossUp(f, boost, m), f, boost, m) <=> GrossUp(f, boost, m) * d >= n
  BY DEF Nets
<1> HIDE DEF n, d
<1> QED
  BY <1>4, <1>5, <1>6, <1>7, CeilReaches

\* What nets a floor nets every lower one.
LEMMA NetsLower ==
  ASSUME NEW p \in Nat, NEW boost \in Nat, NEW m \in Machine,
         NEW n1 \in Int, NEW d1 \in Nat \ {0}, NEW n2 \in Int, NEW d2 \in Nat \ {0},
         n1 * d2 <= n2 * d1, Nets(p, [num |-> n2, den |-> d2], boost, m)
  PROVE  Nets(p, [num |-> n1, den |-> d1], boost, m)
<1> DEFINE K == Places * Scale * m.hours * (100 - m.fee)
           B == boost * m.hours
           F == m.fixed * Places * Scale
<1>1. /\ m.hours \in Nat \ {0} /\ m.fixed \in Nat /\ 100 - m.fee \in Nat \ {0}
      /\ Places \in Nat \ {0} /\ Scale \in Nat \ {0}
  BY HourAssumption DEF Machine
<1>2. K \in Nat /\ B \in Nat /\ F \in Nat
  BY <1>1, TimesNat
<1>3. \A n \in Int, d \in Nat \ {0} :
        Nets(p, [num |-> n, den |-> d], boost, m) <=> 100 * (n * B + F * d) <= p * K * d
  <2> TAKE n \in Int, d \in Nat \ {0}
  <2>1. Places * Scale * d * m.hours * (100 - m.fee) = K * d
    BY <1>1
  <2>2. n * boost * m.hours = n * B /\ m.fixed * Places * Scale * d = F * d
    BY <1>1
  <2>3. p * (K * d) = p * K * d
    BY <1>2
  <2> HIDE DEF K, B, F
  <2>4. n * B \in Int /\ F * d \in Int /\ p * K * d \in Int
    BY <1>2
  <2> QED
    BY <2>1, <2>2, <2>3, <2>4 DEF Nets
<1> HIDE DEF K, B, F
<1>4. 100 * (n2 * B + F * d2) <= p * K * d2
  BY <1>3
<1>5. B * (n1 * d2) <= B * (n2 * d1)
  BY <1>2, TimesOrder
<1>6. d1 * (100 * (n2 * B + F * d2)) <= d1 * (p * K * d2)
  BY <1>2, <1>4, TimesOrder
<1>7. d2 * (100 * (n1 * B + F * d1)) <= d2 * (p * K * d1)
  <2> DEFINE x == B * (n1 * d2)
             y == B * (n2 * d1)
             z == F * d1 * d2
             w == p * K * d1 * d2
  <2>1. x \in Int /\ y \in Int /\ z \in Int /\ w \in Int
    BY <1>2
  <2>2. d1 * (100 * (n2 * B + F * d2)) = 100 * y + 100 * z
    BY <1>2
  <2>3. d1 * (p * K * d2) = w
    BY <1>2
  <2>4. d2 * (100 * (n1 * B + F * d1)) = 100 * x + 100 * z
    BY <1>2
  <2>5. d2 * (p * K * d1) = w
    BY <1>2
  <2>6. x <= y
    BY <1>5
  <2>7. 100 * y + 100 * z <= w
    BY <1>6, <2>2, <2>3
  <2> HIDE DEF x, y, z, w
  <2>8. 100 * x + 100 * z <= w
    BY <2>1, <2>6, <2>7
  <2> QED
    BY <2>4, <2>5, <2>8
<1>8. 100 * (n1 * B + F * d1) <= p * K * d1
  BY <1>2, <1>7, CancelOrder
<1> QED
  BY <1>3, <1>8

\* floor_cents is not below the floor, and floor_usd by half a place at most.
LEMMA QuotedFloors ==
  ASSUME NEW m \in Machine, NEW boost \in Nat, NEW used \in Nat
  PROVE  LET q == PriceFloor(m, used)
         IN /\ q.usd \in Nat /\ q.cents \in Nat
            /\ q.reserve \in Nat /\ Nets(q.reserve, FloorOf(m), used, m)
            /\ LET r == GrossUp([num |-> q.cents * Places, den |-> 1], boost, m)
               IN r \in Nat /\ Nets(r, FloorOf(m), boost, m)
            /\ LET r == GrossUp([num |-> q.usd, den |-> 1], boost, m)
               IN r \in Nat /\ Nets(r, Travelled(FloorOf(m)), boost, m)
<1> DEFINE n == FloorOf(m).num
           d == FloorOf(m).den
           usd == HalfEven(n, d)
           cents == Ceil(n, d * Places)
<1>1. /\ FloorOf(m) \in Fraction
      /\ FloorOf(m) = [num |-> n, den |-> d]
      /\ n \in Nat /\ d \in Nat \ {0} /\ Places \in Nat \ {0}
  BY FloorFraction, HourAssumption DEF Fraction
<1>2. d * Places \in Nat \ {0}
  BY <1>1, TimesPositive
<1>3. /\ PriceFloor(m, used).usd = usd
      /\ PriceFloor(m, used).cents = cents
      /\ PriceFloor(m, used).reserve = GrossUp(FloorOf(m), used, m)
  BY DEF PriceFloor, DecStr
<1>4. Travelled(FloorOf(m)) = [num |-> 2 * n - d, den |-> 2 * d]
  BY DEF Travelled
<1> HIDE DEF n, d
<1>5. usd \in Nat /\ 2 * d * usd >= 2 * n - d
  BY <1>1, HalfEvenNat, HalfEvenMisses
<1>6. cents \in Nat /\ cents * (d * Places) >= n
  BY <1>1, <1>2, CeilReaches
<1>7. PriceFloor(m, used).reserve \in Nat
      /\ Nets(PriceFloor(m, used).reserve, FloorOf(m), used, m)
  BY <1>1, <1>3, GrossUpNets
<1> HIDE DEF usd, cents
<1>8. LET r == GrossUp([num |-> cents * Places, den |-> 1], boost, m)
      IN r \in Nat /\ Nets(r, FloorOf(m), boost, m)
  <2> DEFINE f == [num |-> cents * Places, den |-> 1]
             r == GrossUp(f, boost, m)
  <2>1. cents * Places \in Nat
    BY <1>1, <1>6, TimesNat
  <2>2. f \in Fraction
    BY <2>1 DEF Fraction
  <2>3. r \in Nat /\ Nets(r, f, boost, m)
    BY <2>2, GrossUpNets
  <2>4. n * 1 <= (cents * Places) * d
    BY <1>1, <1>6
  <2> HIDE DEF r
  <2>5. Nets(r, [num |-> n, den |-> d], boost, m)
    BY <1>1, <2>1, <2>3, <2>4, NetsLower
  <2> QED
    BY <1>1, <2>3, <2>5 DEF r
<1>9. LET r == GrossUp([num |-> usd, den |-> 1], boost, m)
      IN r \in Nat /\ Nets(r, Travelled(FloorOf(m)), boost, m)
  <2> DEFINE f == [num |-> usd, den |-> 1]
             r == GrossUp(f, boost, m)
  <2>1. f \in Fraction
    BY <1>5 DEF Fraction
  <2>2. r \in Nat /\ Nets(r, f, boost, m)
    BY <2>1, GrossUpNets
  <2>3. (2 * n - d) * 1 <= usd * (2 * d)
    BY <1>1, <1>5
  <2>4. 2 * n - d \in Int /\ 2 * d \in Nat \ {0}
    BY <1>1
  <2> HIDE DEF r
  <2>5. Nets(r, [num |-> 2 * n - d, den |-> 2 * d], boost, m)
    BY <1>5, <2>2, <2>3, <2>4, NetsLower
  <2> QED
    BY <1>4, <2>2, <2>5 DEF r
<1> QED
  BY <1>3, <1>5, <1>6, <1>7, <1>8, <1>9

-----------------------------------------------------------------------------
(* Tokens.                                                                 *)

LEMMA TokensReach ==
  ASSUME NEW reference \in Nat, NEW load \in Load
  PROVE  LET billed == Billed(reference, load.take)
             price == PerThousand(billed, load)
         IN /\ billed \in Nat /\ price \in Nat
            /\ Earned(price, load) >= 100000 * Parts * reference
            /\ Earned(price - 1, load)
                 < 100000 * Parts * reference + 1000 * Parts * (100 - load.take)
<1> DEFINE rest == 100 - load.take
           T == HourOfTokens(load)
           b == Billed(reference, load.take)
           p == PerThousand(b, load)
<1>1. /\ rest \in Nat \ {0} /\ Parts \in Nat \ {0}
      /\ load.pace \in Nat \ {0} /\ load.batch \in Nat \ {0}
  BY HourAssumption DEF Load
<1>2. T \in Nat \ {0}
  <2>1. 3600 * load.pace \in Nat \ {0}
    BY <1>1
  <2> QED
    BY <1>1, <2>1, TimesPositive DEF HourOfTokens
<1>3. b \in Nat /\ b * rest >= 100 * reference /\ b * rest < 100 * reference + rest
  <2>1. 100 * reference \in Nat
    OBVIOUS
  <2>2. b = Ceil(100 * reference, rest)
    BY DEF Billed
  <2> HIDE DEF b, rest
  <2> QED
    BY <1>1, <2>1, <2>2, CeilReaches
<1> HIDE DEF T, b, rest
<1>4. p \in Nat /\ p * T >= 1000 * Parts * b /\ p * T < 1000 * Parts * b + T
  <2>1. 1000 * Parts * b \in Nat
    BY <1>1, <1>3, TimesNat
  <2>2. p = Ceil(1000 * Parts * b, T)
    BY DEF PerThousand, T
  <2> HIDE DEF p
  <2> QED
    BY <1>2, <2>1, <2>2, CeilReaches
<1> HIDE DEF p
<1> DEFINE K == 1000 * Parts
<1>5. K \in Nat \ {0}
  BY <1>1
<1>6. Earned(p, load) >= 100 * (K * reference)
  <2>1. rest * (K * b) <= rest * (p * T)
    BY <1>1, <1>2, <1>3, <1>4, <1>5, TimesOrder
  <2>2. K * (100 * reference) <= K * (b * rest)
    BY <1>1, <1>3, <1>5, TimesOrder
  <2>3. Earned(p, load) = rest * (p * T)
    BY <1>1, <1>2, <1>4 DEF Earned, T, rest
  <2> HIDE DEF K
  <2>4. rest * (K * b) = K * (b * rest)
    BY <1>1, <1>3, <1>5
  <2>5. K * (100 * reference) = 100 * (K * reference)
    BY <1>5
  <2> QED
    BY <1>1, <1>2, <1>3, <1>4, <1>5, <2>1, <2>2, <2>3, <2>4, <2>5
<1>7. Earned(p - 1, load) < 100 * (K * reference) + K * rest
  <2>1. (p - 1) * T < K * b
    BY <1>2, <1>3, <1>4, <1>5
  <2>2. rest * ((p - 1) * T) <= rest * (K * b)
    BY <1>1, <1>2, <1>3, <1>4, <1>5, <2>1, TimesOrder
  <2>3. K * (b * rest) < K * (100 * reference + rest)
    BY <1>1, <1>3, <1>5
  <2>4. Earned(p - 1, load) = rest * ((p - 1) * T)
    BY <1>1, <1>2, <1>4 DEF Earned, T, rest
  <2> HIDE DEF K
  <2>5. rest * (K * b) = K * (b * rest)
    BY <1>1, <1>3, <1>5
  <2>6. K * (100 * reference + rest) = 100 * (K * reference) + K * rest
    BY <1>1, <1>5
  <2> QED
    BY <1>1, <1>2, <1>3, <1>4, <1>5, <2>2, <2>3, <2>4, <2>5, <2>6
<1>8. /\ 100000 * Parts * reference = 100 * (K * reference)
      /\ 1000 * Parts * (100 - load.take) = K * rest
  BY <1>1 DEF rest
<1> HIDE DEF K
<1> QED
  BY <1>3, <1>4, <1>6, <1>7, <1>8 DEF b, p

-----------------------------------------------------------------------------
(* The caller's papers.                                                    *)

\* A quote is the answer for its machine and its boost, and an hour nets its host.
IInv ==
  /\ TypeOK
  /\ quote # None => quote = PriceFloor(quote.of, quote.boost)
  /\ HostNetsItsMachine
  /\ TokensCoverTheHour

LEMMA InitIInv == Init => IInv
  BY DEF Init, IInv, TypeOK, HostNetsItsMachine, TokensCoverTheHour

LEMMA FloorKeepsIInv ==
  ASSUME NEW m \in Machines, NEW boost \in Boosts, CallFloor(m, boost)
  PROVE  IInv'
<1> DEFINE q == PriceFloor(m, boost)
<1>1. m \in Machine /\ boost \in Nat
  BY HourAssumption
<1>2. q.usd \in Nat /\ q.cents \in Nat /\ q.reserve \in Nat
  BY <1>1, QuotedFloors
<1>3. /\ q \in [is : {"floor"}, of : Machines, boost : Boosts, usd : Nat, cents : Nat, reserve : Nat]
      /\ q.of = m /\ q.boost = boost
  BY <1>2 DEF PriceFloor
<1>4. quote' = q /\ hour' = None /\ tokens' = None
  BY DEF CallFloor
<1> HIDE DEF q
<1>5. TypeOK'
  BY <1>3, <1>4 DEF TypeOK
<1>6. quote' = PriceFloor(quote'.of, quote'.boost)
  BY <1>3, <1>4 DEF q
<1> QED
  BY <1>4, <1>5, <1>6 DEF IInv, HostNetsItsMachine, TokensCoverTheHour

LEMMA RoundKeepsIInv ==
  ASSUME IInv, NEW way \in Ways, NEW boost \in Boosts, NEW base \in Bases,
         CallRound(way, boost, base)
  PROVE  IInv'
<1> DEFINE m == quote.of
           r == ReserveFrom(way, boost)
           f == IF way = "usd" THEN Travelled(FloorOf(m)) ELSE FloorOf(m)
<1>1. /\ quote # None
      /\ quote = PriceFloor(m, quote.boost)
      /\ m \in Machines /\ quote.boost \in Boosts
  BY DEF CallRound, IInv, TypeOK
<1>2. m \in Machine /\ quote.boost \in Nat /\ boost \in Nat /\ base \in Nat
  BY <1>1, HourAssumption
<1>3. r \in Nat /\ Nets(r, f, BoostIn(way, boost), m)
  <2>1. CASE way = "usd"
    BY <1>1, <1>2, <2>1, QuotedFloors DEF ReserveFrom, BoostIn
  <2>2. CASE way = "cents"
    BY <1>1, <1>2, <2>2, QuotedFloors DEF ReserveFrom, BoostIn
  <2>3. CASE way = "reserve"
    BY <1>1, <1>2, <2>3, QuotedFloors DEF ReserveFrom, BoostIn
  <2> QED
    BY <2>1, <2>2, <2>3 DEF Ways
<1>4. BoostIn(way, boost) \in Boosts /\ AtLeast(base, r) \in Nat
  BY <1>1, <1>2, <1>3 DEF BoostIn, AtLeast
<1>5. /\ hour' = [is |-> "hour", of |-> m, way |-> way, boost |-> BoostIn(way, boost),
                  reserve |-> r, base |-> AtLeast(base, r)]
      /\ tokens' = None /\ quote' = quote
  BY DEF CallRound
<1> HIDE DEF r
<1>6. TypeOK'
  BY <1>1, <1>3, <1>4, <1>5 DEF IInv, TypeOK
<1>7. HostNetsItsMachine'
  <2>1. /\ hour'.of = m /\ hour'.way = way
        /\ hour'.reserve = r /\ hour'.boost = BoostIn(way, boost)
    BY <1>5
  <2> QED
    BY <1>3, <2>1 DEF HostNetsItsMachine
<1> QED
  BY <1>1, <1>5, <1>6, <1>7 DEF IInv, TokensCoverTheHour

LEMMA TokensKeepIInv ==
  ASSUME IInv, NEW load \in Loads, CallTokens(load)
  PROVE  IInv'
<1> DEFINE reference == Reference(hour.reserve, hour.base)
           billed == Billed(reference, load.take)
           price == PerThousand(billed, load)
<1>1. hour.reserve \in Nat /\ hour.base \in Nat
  BY DEF CallTokens, IInv, TypeOK
<1>2. reference \in Nat /\ load \in Load
  BY <1>1, HourAssumption DEF Reference, AtLeast
<1>3. /\ billed \in Nat /\ price \in Nat
      /\ Earned(price, load) >= 100000 * Parts * reference
      /\ Earned(price - 1, load)
           < 100000 * Parts * reference + 1000 * Parts * (100 - load.take)
  BY <1>2, TokensReach
<1>4. /\ tokens' = [is |-> "tokens", load |-> load, reserve |-> hour.reserve,
                    base |-> hour.base, billed |-> billed, perThousand |-> price]
      /\ quote' = quote /\ hour' = hour
  BY DEF CallTokens, PriceTokens
<1> HIDE DEF billed, price
<1>5. TypeOK'
  BY <1>1, <1>3, <1>4 DEF IInv, TypeOK
<1>6. TokensCoverTheHour'
  <2>1. /\ tokens'.load = load /\ tokens'.perThousand = price
        /\ Reference(tokens'.reserve, tokens'.base) = reference
    BY <1>4
  <2> QED
    BY <1>3, <2>1 DEF TokensCoverTheHour
<1>7. HostNetsItsMachine'
  BY <1>4 DEF IInv, HostNetsItsMachine
<1> QED
  BY <1>4, <1>5, <1>6, <1>7 DEF IInv

LEMMA NextIInv == IInv /\ [Next]_vars => IInv'
<1> SUFFICES ASSUME IInv, [Next]_vars PROVE IInv'
  OBVIOUS
<1>1. CASE \E m \in Machines, boost \in Boosts : CallFloor(m, boost)
  BY <1>1, FloorKeepsIInv
<1>2. CASE \E way \in Ways, boost \in Boosts, base \in Bases : CallRound(way, boost, base)
  BY <1>2, RoundKeepsIInv
<1>3. CASE \E load \in Loads : CallTokens(load)
  BY <1>3, TokensKeepIInv
<1>4. CASE UNCHANGED vars
  BY <1>4 DEF vars, IInv, TypeOK, HostNetsItsMachine, TokensCoverTheHour
<1> QED
  BY <1>1, <1>2, <1>3, <1>4 DEF Next

\* The papers agree with one another after every call.
THEOREM IInvHolds == Spec => []IInv
  BY InitIInv, NextIInv, PTL DEF Spec

\* Every paper of the caller has its type: no price is negative.
THEOREM TypeCorrect == Spec => []TypeOK
<1>1. IInv => TypeOK
  BY DEF IInv
<1> QED
  BY <1>1, IInvHolds, PTL

\* The host of a round nets the exact floor of its machine, through every quotient,
\* rounding and move of the boost; less by half a place where it travelled.
THEOREM HostsNetTheirMachines == Spec => []HostNetsItsMachine
<1>1. IInv => HostNetsItsMachine
  BY DEF IInv
<1> QED
  BY <1>1, IInvHolds, PTL

\* A loaded hour of tokens pays for the hour after the fee, and for little more.
THEOREM TokensPayForTheHour == Spec => []TokensCoverTheHour
<1>1. IInv => TokensCoverTheHour
  BY DEF IInv
<1> QED
  BY <1>1, IInvHolds, PTL
=============================================================================
