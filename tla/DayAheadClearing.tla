-------------------------- MODULE DayAheadClearing --------------------------
(***************************************************************************)
(* One day-ahead block of pricing_core/clearing.py: clear_day_ahead,       *)
(* _finish_day_ahead and _allocate_day_ahead.                              *)
(*                                                                         *)
(* Sealed bids move down their ladders, pass by pass, as in the real-time  *)
(* clearing.  A pool ranks by bid, and what it sells has one price: the    *)
(* highest bid it turned away in the last pass, or its reserve.            *)
(***************************************************************************)
EXTENDS Ladder, Money

CONSTANTS
  Books,      \* the order books a block may be given
  Views,      \* the pool views (supply and reserve) of a block
  Limits      \* what max_passes may be

ASSUME DayAheadAssumption ==
  /\ Books \subseteq [Orders -> Order]
  /\ Views \subseteq [Pools -> PoolView]
  /\ Limits \subseteq Nat \ {0}

NoPrice == -1

VARIABLES
  book,       \* the orders
  view,       \* the pools
  limit,      \* max_passes
  phase,      \* "passing", then "done"
  passes,     \* passes made so far
  placed,     \* chunks a pool accepted in the last pass
  seeking,    \* chunks that bid at a pool for the first time in the next pass
  lastId,     \* the highest chunk id given out
  price,      \* the price of the last pass, by pool; NoPrice where none bid
  bidHours,   \* hours bid in the last pass, by pool
  orgCap,     \* whether the org cap pushed hours over it, by pool
  fills       \* the result

clearingVars == <<book, view, limit, phase, passes, placed, seeking, lastId,
                  price, bidHours, orgCap, fills>>

-----------------------------------------------------------------------------
(* Ranking at a pool: higher bid, higher tier, lower lottery, order id;    *)
(* equal bids of one order by age.                                         *)

Bid(c) == book[c.order].rungs[c.rung].max

Outranks(c, d) ==
  LET oc == book[c.order]
      od == book[d.order]
  IN \/ Bid(c) > Bid(d)
     \/ /\ Bid(c) = Bid(d)
        /\ \/ oc.tier > od.tier
           \/ /\ oc.tier = od.tier
              /\ \/ oc.lottery < od.lottery
                 \/ /\ oc.lottery = od.lottery
                    /\ \/ c.order < d.order
                       \/ c.order = d.order /\ c.id < d.id

OrgOf(c) == book[c.order].org

-----------------------------------------------------------------------------
(* _allocate_day_ahead, on the chunks C that bid at pool p, hour by hour.  *)

HourBefore(u, v) == \/ Outranks(u[1], v[1])
                    \/ u[1] = v[1] /\ u[2] < v[2]

Band(u, units, p) ==
  LET sooner == {v \in units : OrgOf(v[1]) = OrgOf(u[1]) /\ HourBefore(v, u)}
  IN IF /\ Cardinality(units) > view[p].supply
        /\ Cardinality(sooner) >= CapHours(view[p])
     THEN 1 ELSE 0

Slices(C, p) ==
  LET units == Units(C)
  IN {[chunk |-> u[1], hour |-> u[2], band |-> Band(u, units, p)] : u \in units}

Ahead(s, t) ==
  \/ s.band < t.band
  \/ s.band = t.band /\ HourBefore(<<s.chunk, s.hour>>, <<t.chunk, t.hour>>)

\* The slices of S that find an hour left.
Served(S, p) == {s \in S : Cardinality({t \in S : Ahead(t, s)}) < view[p].supply}

\* Slips: the highest bid that wins; the highest turned away, over the cap too.
UniformPrice_Winner(slices, p) ==
  LET bids == {view[p].reserve} \cup {Bid(s.chunk) : s \in Served(slices, p)}
  IN CHOOSE b \in bids : \A x \in bids : b >= x

UniformPrice_AnyBand(slices, p) ==
  LET bids == {view[p].reserve} \cup {Bid(s.chunk) : s \in slices \ Served(slices, p)}
  IN CHOOSE b \in bids : \A x \in bids : b >= x

\* The highest bid for hours within the cap that found none left, or the
\* reserve.
UniformPrice(slices, p) ==
  LET inCap == {s \in slices : s.band = 0}
      bids == {view[p].reserve} \cup {Bid(s.chunk) : s \in inCap \ Served(inCap, p)}
  IN CHOOSE b \in bids : \A x \in bids : b >= x

\* Slip: hours over the cap served as if the others had taken nothing.
Accepted_Twice(slices, p) ==
  Served({s \in slices : s.band = 0}, p) \cup
  Served({s \in slices : s.band = 1 /\ Bid(s.chunk) >= UniformPrice(slices, p)}, p)

\* Hours over the cap are served after the others, and only at that price.
Accepted(slices, p) ==
  Served({s \in slices : s.band = 0 \/ Bid(s.chunk) >= UniformPrice(slices, p)}, p)

Granted(served, c) == Cardinality({s \in served : s.chunk = c})

-----------------------------------------------------------------------------
ClearPass ==
  /\ phase = "passing"
  /\ seeking # {}
  /\ passes < limit
  /\ passes' = passes + 1
  /\ LET asking == placed \cup seeking
         slices == [p \in Pools |-> Slices(At(book, asking, p), p)]
         served == UNION {Accepted(slices[p], p) : p \in Pools}
         outcome == {<<c, Granted(served, c)>> : c \in asking}
         turnedAway == Rest(outcome)
     IN /\ placed' = Kept(outcome)
        /\ seeking' = Descend(book, view, turnedAway, lastId, TRUE)
        /\ lastId' = lastId + Cardinality(turnedAway)
        /\ price' = [p \in Pools |-> IF slices[p] = {} THEN NoPrice
                                     ELSE UniformPrice(slices[p], p)]
        /\ bidHours' = [p \in Pools |-> Cardinality(slices[p])]
        /\ orgCap' = [p \in Pools |-> \E s \in slices[p] : s.band = 1]
  /\ UNCHANGED <<book, view, limit, phase, fills>>

Pay(c) ==
  LET due == AtLeast(price[PoolOf(book, c)], view[PoolOf(book, c)].reserve)
  IN IF due <= Bid(c) THEN due ELSE Bid(c)

FillOf(c) == [id |-> c.id, order |-> c.order, rung |-> c.rung, hours |-> c.hours,
              pay |-> Pay(c)]

Payable(c) == Pay(c) >= view[PoolOf(book, c)].reserve

Settle ==
  /\ phase = "passing"
  /\ seeking = {} \/ passes = limit
  /\ phase' = "done"
  /\ fills' = {FillOf(c) : c \in {d \in placed : Payable(d)}}
  /\ UNCHANGED <<book, view, limit, passes, placed, seeking, lastId, price,
                 bidHours, orgCap>>

\* The price of a block where it is done.
FinalPrice(p) ==
  IF price[p] # NoPrice THEN price[p]
  ELSE IF view[p].supply > 0 THEN view[p].reserve
  ELSE NoPrice

\* A clearing of the book b in the pools v begins.
Begins(b, v) ==
  /\ phase = "passing"
  /\ passes = 0
  /\ placed = {}
  /\ seeking = FirstChunks(b, v, TRUE)
  /\ lastId = Cardinality(Orders)
  /\ price = [p \in Pools |-> NoPrice]
  /\ bidHours = [p \in Pools |-> 0]
  /\ orgCap = [p \in Pools |-> FALSE]
  /\ fills = {}

Init ==
  /\ book \in Books
  /\ view \in Views
  /\ limit \in Limits
  /\ Begins(book, view)

Next == ClearPass \/ Settle

\* clear_day_ahead is one synchronous call: it runs until it returns.
Spec == Init /\ [][Next]_clearingVars /\ WF_clearingVars(Next)

-----------------------------------------------------------------------------
(* Properties.                                                             *)

\* Every variable has its type; chunks stand on rungs of their own ladder.
TypeOK ==
  /\ book \in [Orders -> Order]
  /\ view \in [Pools -> PoolView]
  /\ limit \in Nat \ {0}
  /\ phase \in {"passing", "done"}
  /\ passes \in 0..limit
  /\ placed \subseteq Chunk
  /\ seeking \subseteq Chunk
  /\ \A c \in placed \cup seeking : c.rung \in DOMAIN book[c.order].rungs
  /\ lastId \in Nat
  /\ price \in [Pools -> Nat \cup {NoPrice}]
  /\ bidHours \in [Pools -> Nat]
  /\ orgCap \in [Pools -> BOOLEAN]
  /\ fills \subseteq [id : Nat, order : Orders, rung : Nat \ {0},
                      hours : 1..MaxHours, pay : Int]

HeldAt(p) == Hours(At(book, placed, p))

\* Hours of order o that stand, or ask to stand, at rung r or better.
HoursDownTo(o, r) ==
  Hours({c \in OfOrder(placed \cup seeking, o) : c.rung <= r})

TurnedAway(o, r) ==
  /\ r \in OpenRungs(book[o], view, TRUE)
  /\ HoursDownTo(o, r) < book[o].hours

HoursByRung(C) ==
  [o \in Orders |->
     [r \in DOMAIN book[o].rungs |-> Hours({c \in OfOrder(C, o) : c.rung = r})]]

Promise == INSTANCE DeferredAcceptance
  WITH DayAhead <- TRUE, stands <- HoursByRung(placed \cup seeking),
       held <- HoursByRung(placed), sold <- HoursByRung(fills), done <- phase = "done"

\* A block is deferred acceptance by hours, as a real-time round is, although a
\* pool serves hours over the cap only at a price that it makes in the same pass:
\* no hour is lost, made or sold twice, and none stays idle that was bid for.
KeepsItsPromise == Promise!Spec

\* Every hour a pool holds is sold, at the price of the pool: no winner is
\* dropped from the result, pays less than another, or has its price cut
\* to its bid, although the price was made of other bids.
WinnersPayTheUniformPrice ==
  phase = "done" =>
    /\ \A c \in placed : \E f \in fills : f.id = c.id /\ f.hours = c.hours
    /\ \A f \in fills :
         LET rung == book[f.order].rungs[f.rung]
         IN f.pay = FinalPrice(rung.pool) /\ f.pay <= rung.max

\* A pool is dearer than its reserve only when it has sold every hour, after
\* every pass.
DearOnlyWhenSoldOut ==
  \A p \in Pools : price[p] > view[p].reserve => HeldAt(p) = view[p].supply

\* Nobody is refused in vain: were one hour of a bid that was turned away to
\* be bid again, the pool would not sell its order more than it has.
RefusedBidsStayRefused ==
  \A o \in Orders : \A r \in DOMAIN book[o].rungs :
    TurnedAway(o, r) =>
      LET p == book[o].rungs[r].pool
          again == [id |-> lastId + 1, order |-> o, rung |-> r, hours |-> 1]
          served == Accepted(Slices(At(book, placed, p) \cup {again}, p), p)
      IN Cardinality({s \in served : s.chunk.order = o})
           <= Hours(OfOrder(At(book, placed, p), o))

-----------------------------------------------------------------------------
(* What the documentation says and the code does not do.                   *)

\* Hours an organisation ordered: at most those of its cap are never over it.
OrgHours(g) ==
  Cardinality({u \in Orders \X (1..MaxHours) : book[u[1]].org = g /\ u[2] <= book[u[1]].hours})

\* "The uniform price is max(reserve, highest rejected in-cap bid)": a winner
\* pays no less than a bid within the cap that its pool rejected.
RejectedBidsSetThePrice ==
  phase = "done" =>
    \A o \in Orders : \A r \in DOMAIN book[o].rungs :
      LET p == book[o].rungs[r].pool
      IN TurnedAway(o, r) /\ OrgHours(book[o].org) <= CapHours(view[p]) =>
           FinalPrice(p) >= book[o].rungs[r].max
=============================================================================
