--------------------------- MODULE DayAheadMarket ---------------------------
(***************************************************************************)
(* A day-ahead request: _clear_prepared of pricing_core/engine.py and      *)
(* commit_upgrade_pass of pricing_core/clearing.py, around the clearing of *)
(* DayAheadClearing.                                                       *)
(*                                                                         *)
(* The boxes that may be sold depend on the price, and the price on what   *)
(* may be sold: the block is cleared again until they agree, or MaxTurns   *)
(* times.  Then every order bids once more, at one rung, the best it would *)
(* be willing to pay at the prices found; what that clearing says is the   *)
(* answer.                                                                 *)
(***************************************************************************)
EXTENDS DayAheadClearing, Quotes

CONSTANTS
  Offers,                     \* what the pools may offer for a block
  DayShareNum, DayShareDen,   \* share of the offered hours sold day-ahead
  MaxTurns,                   \* clearings before the last (the code: 16)
  UpgradeOn                   \* day_ahead_upgrade of the ruleset

\* A quote says where reserve and supply come from; the share counts offered.
Offer == [quote : RequestQuote \cup TierQuote, offered : Nat]

ASSUME MarketAssumption ==
  /\ Offers \subseteq [Pools -> Offer]
  /\ DayShareNum \in Nat /\ DayShareDen \in Nat \ {0}
  /\ MaxTurns \in Nat
  /\ UpgradeOn \in BOOLEAN

VARIABLES
  offer,     \* the pools as the request has them
  ladders,   \* the orders as the request has them
  stage,     \* "market", then "upgrade", then "returned"
  turns,     \* the clearing of the block that is under way, from 1
  clamped,   \* whether the day-ahead share cut the supply, by pool
  first,     \* the awards before the upgrade pass
  chosen,    \* the rung each order bids in the upgrade pass: one or none
  movers,    \* the orders that bid a better rung there
  awards,    \* the answer: awards, and how many moved up
  gains

marketVars == <<offer, ladders, stage, turns, clamped, first, chosen, movers,
                awards, gains>>
vars == <<clearingVars, marketVars>>

-----------------------------------------------------------------------------
(* The supply at a price.                                                  *)

ReserveOf(q) == IF q.source = "tiers" THEN CheapestBox(q.boxes) ELSE q.cents

AllHours(q) == IF q.source = "tiers" THEN Cardinality(q.boxes) ELSE q.hours

Most(p) == (DayShareNum * offer[p].offered) \div DayShareDen

Clamped(p, hours) == IF hours > Most(p) THEN Most(p) ELSE hours

LoopPrice(p) == IF FinalPrice(p) = NoPrice THEN view[p].reserve ELSE FinalPrice(p)

HoursAt(p) == SupplyAt(offer[p].quote, LoopPrice(p))

Changed ==
  \E p \in Pools : \/ Clamped(p, HoursAt(p)) # view[p].supply
                   \/ (HoursAt(p) > Most(p)) # clamped[p]

-----------------------------------------------------------------------------
\* clear_day_ahead is called again, on the orders b and the pools v.
Restart(b, v, l) ==
  /\ book' = b
  /\ view' = v
  /\ limit' = l
  /\ phase' = "passing"
  /\ passes' = 0
  /\ placed' = {}
  /\ seeking' = FirstChunks(b, v, TRUE)
  /\ lastId' = Cardinality(Orders)
  /\ price' = [p \in Pools |-> NoPrice]
  /\ bidHours' = [p \in Pools |-> 0]
  /\ orgCap' = [p \in Pools |-> FALSE]
  /\ fills' = {}

Clearing == (ClearPass \/ Settle) /\ UNCHANGED marketVars

Cleared == stage = "market" /\ phase = "done"

\* The prices call for another supply: the block is cleared again with it.
Reprice ==
  /\ Cleared
  /\ Changed
  /\ turns <= MaxTurns
  /\ turns' = turns + 1
  /\ clamped' = [p \in Pools |-> HoursAt(p) > Most(p)]
  /\ Restart(book, [p \in Pools |->
                      [view[p] EXCEPT !.supply = Clamped(p, HoursAt(p))]], limit)
  /\ UNCHANGED <<offer, ladders, stage, first, chosen, movers, awards, gains>>

\* Where supply and prices agree the code clears once more, to the same end.
Priced == Cleared /\ (~Changed \/ turns > MaxTurns)

-----------------------------------------------------------------------------
(* The upgrade pass.                                                       *)

\* Slip: the worst rung an order has won.
Won_Last(o) == Best_Last({f.rung : f \in {g \in fills : g.order = o}})

Won(o) == Best({f.rung : f \in {g \in fills : g.order = o}})

\* Rungs above those won whose price the order would have been willing to pay.
Higher(o) ==
  {r \in DOMAIN book[o].rungs :
     LET rung == book[o].rungs[r]
     IN /\ \A w \in Won(o) : r < w
        /\ FinalPrice(rung.pool) # NoPrice
        /\ rung.will >= FinalPrice(rung.pool)}

Movers == {o \in Orders : Higher(o) # {}}

Rebid(o) == IF o \in Movers THEN Best(Higher(o)) ELSE Won(o)

\* An order that bids nothing has an empty ladder.
OneRung(o) ==
  [book[o] EXCEPT !.tip = 0,
     !.rungs = IF Rebid(o) = {} THEN <<>>
               ELSE <<book[o].rungs[CHOOSE r \in Rebid(o) : TRUE]>>]

AwardOf(f, rung) ==
  [id |-> f.id, order |-> f.order, rung |-> rung, hours |-> f.hours, pay |-> f.pay,
   pool |-> book[f.order].rungs[f.rung].pool]

StartUpgrade ==
  /\ Priced
  /\ UpgradeOn
  /\ Movers # {}
  /\ stage' = "upgrade"
  /\ first' = {AwardOf(f, f.rung) : f \in fills}
  /\ chosen' = [o \in Orders |-> Rebid(o)]
  /\ movers' = Movers
  /\ Restart([o \in Orders |-> OneRung(o)], view, 1)
  /\ UNCHANGED <<offer, ladders, turns, clamped, awards, gains>>

ReturnMarket ==
  /\ Priced
  /\ ~UpgradeOn \/ Movers = {}
  /\ stage' = "returned"
  /\ first' = {AwardOf(f, f.rung) : f \in fills}
  /\ awards' = {AwardOf(f, f.rung) : f \in fills}
  /\ UNCHANGED <<clearingVars, offer, ladders, turns, clamped, chosen, movers, gains>>

\* Slips: the rung of the one-rung ladder answered; attempts counted as gains.
LadderRung_One(f) == f.rung
Gained_All == movers

LadderRung(f) == CHOOSE r \in chosen[f.order] : TRUE
Gained == {o \in movers : \E f \in fills : f.order = o}

ReturnUpgrade ==
  /\ stage = "upgrade"
  /\ phase = "done"
  /\ stage' = "returned"
  /\ awards' = {AwardOf(f, LadderRung(f)) : f \in fills}
  /\ gains' = Cardinality(Gained)
  /\ UNCHANGED <<clearingVars, offer, ladders, turns, clamped, first, chosen, movers>>

MarketInit ==
  /\ offer \in Offers
  /\ book \in Books
  /\ limit \in Limits
  /\ view = [p \in Pools |-> [supply |-> Clamped(p, AllHours(offer[p].quote)),
                              base |-> 0, reserve |-> ReserveOf(offer[p].quote)]]
  /\ Begins(book, view)
  /\ ladders = book
  /\ stage = "market"
  /\ turns = 1
  /\ clamped = [p \in Pools |-> AllHours(offer[p].quote) > Most(p)]
  /\ first = {}
  /\ chosen = [o \in Orders |-> {}]
  /\ movers = {}
  /\ awards = {}
  /\ gains = 0

MarketNext == Clearing \/ Reprice \/ StartUpgrade \/ ReturnMarket \/ ReturnUpgrade

\* A request is one synchronous call: it runs until it answers.
MarketSpec == MarketInit /\ [][MarketNext]_vars /\ WF_vars(MarketNext)

-----------------------------------------------------------------------------
(* Properties.                                                             *)

\* Every variable has its type; an award is an hour of the ladder at least.
MarketTypeOK ==
  /\ TypeOK
  /\ offer \in [Pools -> Offer]
  /\ ladders \in [Orders -> Order]
  /\ stage \in {"market", "upgrade", "returned"}
  /\ turns \in 1..(MaxTurns + 1)
  /\ clamped \in [Pools -> BOOLEAN]
  /\ \A o \in Orders : /\ chosen[o] \subseteq DOMAIN ladders[o].rungs
                        /\ Cardinality(chosen[o]) <= 1
  /\ movers \subseteq Orders
  /\ first \cup awards \subseteq [id : Nat, order : Orders, rung : Nat \ {0},
                                hours : 1..MaxHours, pay : Nat, pool : Pools]
  /\ gains \in 0..Cardinality(movers)

SoldAt(p) == Hours({a \in awards : a.pool = p})

\* Hours of boxes that accept the price.
PaidHours(q, pay) ==
  IF q.source = "tiers" THEN Cardinality({x \in q.boxes : pay >= x[2]}) ELSE q.hours

Holds(A, o) == \E a \in A : a.order = o

\* Every award, moved up or not, is on a rung of the ladder the renter sent,
\* in the pool of that rung, at a price between the reserve and its bid.
AwardsOnTheLadder ==
  \A a \in awards :
    LET rung == ladders[a.order].rungs[a.rung]
    IN /\ a.rung \in DOMAIN ladders[a.order].rungs
       /\ a.pool = rung.pool
       /\ ReserveOf(offer[a.pool].quote) <= a.pay
       /\ a.pay <= rung.max

\* A gain is an order that ends on a better rung than all it had before.
GainsAreReal ==
  stage = "returned" =>
    gains = Cardinality({o \in Orders :
              /\ Holds(awards, o)
              /\ \A a \in awards, b \in first : a.order = o /\ b.order = o => a.rung < b.rung})

\* Where supply and prices came to agree, and nobody moved, no more is sold
\* than the boxes whose own reserve is paid.
AgreedTiersArePaid ==
  stage = "returned" /\ turns <= MaxTurns /\ movers = {} =>
    \A a \in awards : SoldAt(a.pool) <= PaidHours(offer[a.pool].quote, a.pay)

HoursOn(A, o, r) == Hours({a \in A : a.order = o /\ a.rung = r})

\* Those who move up take no hour from the best rung of those who stay,
\* although all bid again, for all their hours, in another clearing.
StayersKeepTheirRung ==
  stage = "returned" =>
    \A o \in Orders \ movers : \A r \in Best({a.rung : a \in OfOrder(first, o)}) :
      HoursOn(awards, o, r) >= HoursOn(first, o, r)

-----------------------------------------------------------------------------
(* What the documentation says and the code does not do.                   *)

\* "No box is allocated below its own reserve, so no host is paid below its
\* floor": a pool sells no more than the boxes whose reserve is paid.
NoBoxSoldBelowItsReserve ==
  \A a \in awards : SoldAt(a.pool) <= PaidHours(offer[a.pool].quote, a.pay)

\* The same of a block whose supply and prices agreed before the upgrade pass,
\* which makes other prices and keeps the supply.
UpgradeKeepsBoxesPaid == turns <= MaxTurns => NoBoxSoldBelowItsReserve

\* "Stayers keep their rung": an order that does not move up keeps its hours.
StayersKeepTheirHours ==
  stage = "returned" =>
    \A o \in Orders \ movers : Hours(OfOrder(awards, o)) >= Hours(OfOrder(first, o))

\* "A day-ahead award can move up to a higher choice": it moves up or stays;
\* an order that had an award has one.
AwardsMoveUpOrStay ==
  stage = "returned" => \A o \in movers : Holds(first, o) => Holds(awards, o)
=============================================================================
