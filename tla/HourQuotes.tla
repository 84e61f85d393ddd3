------------------------------ MODULE HourQuotes ------------------------------
(***************************************************************************)
(* The price of an hour of a machine on its way through three calls: its   *)
(* floor (price_floor of engine.py and floor.py), the reserve of a round   *)
(* made from the answer (_reserve_for_pool), and the price of tokens made  *)
(* from that (price_tokens and token_pricing.py).                          *)
(*                                                                         *)
(* Every call rounds what it answers, and the next one rounds again.  A    *)
(* floor serves for as many rounds as the machine stays what it is.        *)
(* Floors are fractions of a place, the last decimal place in which money  *)
(* travels; prices are cents of Places places.                             *)
(***************************************************************************)
EXTENDS Money

CONSTANTS
  Places,      \* places of a cent (the code: 10^6)
  Scale,       \* units of a boost of 1
  Parts,       \* units of a utilization of 1
  Life,        \* hours over which a machine depreciates
  UMin, UMax,  \* band of utilization, in parts
  Machines,    \* what may be quoted
  Boosts,      \* boosts of a quote or a round
  Bases,       \* base prices that a round may find
  Loads        \* what tokens may be priced for

\* Energy and margin of an hour in places, capital in cents, percentage fees, and
\* the processor's fixed fee for a transaction of so many hours.
Machine == [running : Nat, capital : Nat, u : Nat, fee : 0..99, fixed : Nat, hours : Nat \ {0}]

\* The fee of the token product, tokens per second, and the batch in parts.
Load == [take : 0..99, pace : Nat \ {0}, batch : 1..Parts]

ASSUME HourAssumption ==
  /\ {Places, Scale, Parts, Life, UMin} \subseteq Nat \ {0}
  /\ UMax \in Nat
  /\ Machines \subseteq Machine
  /\ Boosts \subseteq Nat /\ Bases \subseteq Nat
  /\ Loads \subseteq Load

VARIABLES  \* what the caller has in hand for an hour of a machine
  quote,   \* the answer of the call for a floor
  hour,    \* the reserve and base of the round made from it
  tokens   \* the answer of the call for token prices made from that

vars == <<quote, hour, tokens>>

None == [is |-> "none"]

-----------------------------------------------------------------------------
(* The floor.                                                              *)

\* Energy and margin, and the capital over the hours that are used of its life.
FloorOf(m) ==
  LET used == Clamp(m.u, UMin, UMax)
  IN [num |-> m.running * Life * used + m.capital * Places * Parts, den |-> Life * used]

\* Slip: the fixed fee added after the percentages.
GrossUp_FixedLast(f, boost, m) ==
  Ceil(100 * f.num * boost, Places * Scale * f.den * (100 - m.fee)) + m.fixed \div m.hours

\* The host nets the boosted floor and the fixed fee after the percentages.
GrossUp(f, boost, m) ==
  Ceil(100 * (f.num * boost * m.hours + m.fixed * Places * Scale * f.den),
       Places * Scale * f.den * m.hours * (100 - m.fee))

\* A decimal string of the nearest place.
DecStr(f) == HalfEven(f.num, f.den)

\* floor_usd is a decimal string; the cents are ceilings.
PriceFloor(m, boost) ==
  LET f == FloorOf(m)
  IN [is |-> "floor", of |-> m, boost |-> boost, usd |-> DecStr(f),
      cents |-> Ceil(f.num, f.den * Places), reserve |-> GrossUp(f, boost, m)]

CallFloor(m, boost) ==
  /\ quote' = PriceFloor(m, boost)
  /\ hour' = None
  /\ tokens' = None

-----------------------------------------------------------------------------
(* The round.  What it is sent of the quote decides what its boost, which  *)
(* has moved on, applies to.                                               *)

Ways == {"usd", "cents", "reserve"}

\* The boost that is in the reserve.
BoostIn(way, boost) == IF way = "reserve" THEN quote.boost ELSE boost

ReserveFrom(way, boost) ==
  CASE way = "usd" -> GrossUp([num |-> quote.usd, den |-> 1], boost, quote.of)
    [] way = "cents" -> GrossUp([num |-> quote.cents * Places, den |-> 1], boost, quote.of)
    [] OTHER -> quote.reserve

CallRound(way, boost, base) ==
  /\ quote # None
  /\ LET reserve == ReserveFrom(way, boost)
     IN hour' = [is |-> "hour", of |-> quote.of, way |-> way, boost |-> BoostIn(way, boost),
                 reserve |-> reserve, base |-> AtLeast(base, reserve)]
  /\ tokens' = None
  /\ UNCHANGED quote

-----------------------------------------------------------------------------
(* Tokens.                                                                 *)

Reference(reserve, base) == AtLeast(base, reserve)

\* Slip: the fee taken from the price instead of added to it.
Billed_Less(reference, take) == Ceil(reference * (100 - take), 100)

\* Grossed up by the fee of the product.
Billed(reference, take) == Ceil(100 * reference, 100 - take)

\* Tokens of a loaded hour, times Parts.
HourOfTokens(load) == 3600 * load.pace * load.batch

PerThousand(cents, load) == Ceil(1000 * Parts * cents, HourOfTokens(load))

PriceTokens(load) ==
  LET billed == Billed(Reference(hour.reserve, hour.base), load.take)
  IN [is |-> "tokens", load |-> load, reserve |-> hour.reserve, base |-> hour.base,
      billed |-> billed, perThousand |-> PerThousand(billed, load)]

CallTokens(load) ==
  /\ hour # None
  /\ tokens' = PriceTokens(load)
  /\ UNCHANGED <<quote, hour>>

-----------------------------------------------------------------------------

Init == quote = None /\ hour = None /\ tokens = None

Next ==
  \/ \E m \in Machines, boost \in Boosts : CallFloor(m, boost)
  \/ \E way \in Ways, boost \in Boosts, base \in Bases : CallRound(way, boost, base)
  \/ \E load \in Loads : CallTokens(load)

\* The service computes and forgets; when the calls are made is the caller's.
Spec == Init /\ [][Next]_vars

-----------------------------------------------------------------------------
(* Properties.                                                             *)

\* Every variable has its type: no price is negative.
TypeOK ==
  /\ quote \in {None} \cup [is : {"floor"}, of : Machines, boost : Boosts,
                            usd : Nat, cents : Nat, reserve : Nat]
  /\ hour \in {None} \cup [is : {"hour"}, of : Machines, way : Ways, boost : Boosts,
                           reserve : Nat, base : Nat]
  /\ tokens \in {None} \cup [is : {"tokens"}, load : Loads, reserve : Nat, base : Nat,
                             billed : Nat, perThousand : Nat]

\* A price nets the boosted floor f and the fixed fee after the percentages.
Nets(price, f, boost, m) ==
  price * (Places * Scale * f.den * m.hours * (100 - m.fee))
    >= 100 * (f.num * boost * m.hours + m.fixed * Places * Scale * f.den)

\* The floor less half a place, which floor_usd may lose on its way.
Travelled(f) == [num |-> 2 * f.num - f.den, den |-> 2 * f.den]

\* "Rounding a reserve or a payment never lands below the exact reserve": the host
\* of a round nets the exact floor of its machine, whatever the quotients, the two
\* roundings and the boost that has moved in between; and less by half a place at
\* most where the floor travelled as floor_usd.
HostNetsItsMachine ==
  hour # None =>
    Nets(hour.reserve,
         IF hour.way = "usd" THEN Travelled(FloorOf(hour.of)) ELSE FloorOf(hour.of),
         hour.boost, hour.of)

\* The earnings of a loaded hour at a price, after the fee, against the reference:
\* in millionths of a cent, times 100 * Parts.
Earned(perThousand, load) == perThousand * HourOfTokens(load) * (100 - load.take)

\* "A loaded hour at u_batch covers the reference after the platform fee", although
\* it is rounded twice; and two roundings up cost the renter less than a cent per
\* thousand and a cent per hour.
TokensCoverTheHour ==
  tokens # None =>
    LET load == tokens.load
        reference == Reference(tokens.reserve, tokens.base)
    IN /\ Earned(tokens.perThousand, load) >= 100000 * Parts * reference
       /\ Earned(tokens.perThousand - 1, load)
            < 100000 * Parts * reference + 1000 * Parts * (100 - load.take)

-----------------------------------------------------------------------------
(* What the documentation says and the code does not do.                   *)

\* "Rounding a reserve or a payment never lands below the exact reserve", of every
\* round whose floor came from a quote, floor_usd included.
NeverBelowTheExactReserve ==
  hour # None => hour.reserve >= GrossUp(FloorOf(hour.of), hour.boost, hour.of)
=============================================================================
