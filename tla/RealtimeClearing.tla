-------------------------- MODULE RealtimeClearing --------------------------
(***************************************************************************)
(* One real-time round of pricing_core/clearing.py: clear_realtime,        *)
(* _finish_realtime and _allocate_realtime.                                *)
(*                                                                         *)
(* Every order stands at the best rung it can afford.  A pass lets each    *)
(* pool choose again among the hours it holds and the hours that seek it;  *)
(* what a pool turns away moves down its ladder and seeks the next pool in *)
(* the next pass, where it may displace hours placed earlier.  Passes end  *)
(* when nothing seeks any more, or at MaxPasses.                           *)
(***************************************************************************)
EXTENDS Ladder

CONSTANTS
  Books,      \* the order books a round may be given
  Views,      \* the pool views (supply, posted base, reserve) of a round
  TipNum,     \* the tip cap, a fraction TipNum / TipDen of the base
  TipDen,
  MaxPasses   \* max_passes

ASSUME RealtimeAssumption ==
  /\ Books \subseteq [Orders -> Order]
  /\ Views \subseteq [Pools -> PoolView]
  /\ TipNum \in Nat
  /\ TipDen \in Nat \ {0}
  /\ MaxPasses \in Nat \ {0}

VARIABLES
  book,       \* the orders as apply_pain left them; fixed in the round
  view,       \* the pools as the engine prepared them; fixed in the round
  phase,      \* "passing", then "done"
  passes,     \* passes made so far
  placed,     \* chunks a pool holds
  seeking,    \* chunks that ask a pool for the first time in the next pass
  lastId,     \* the highest chunk id given out
  seen,       \* <<order, rung>> pairs already counted as demand
  demand,     \* hours counted as demand, by pool
  orgCap,     \* whether the org cap pushed hours over it, by pool
  fills       \* the result

vars == <<book, view, phase, passes, placed, seeking, lastId, seen, demand,
          orgCap, fills>>

-----------------------------------------------------------------------------
(* Ranking at a pool: higher capped tip, higher tier, lower lottery, order *)
(* id; chunks of one order by age (the sort is stable).                    *)

CappedTip(tip, base) ==
  LET allowed == (base * TipNum) \div TipDen
  IN IF tip <= allowed THEN tip ELSE allowed

TipAt(c) == CappedTip(book[c.order].tip, view[PoolOf(book, c)].base)

Outranks(c, d) ==
  LET oc == book[c.order]
      od == book[d.order]
  IN \/ TipAt(c) > TipAt(d)
     \/ /\ TipAt(c) = TipAt(d)
        /\ \/ oc.tier > od.tier
           \/ /\ oc.tier = od.tier
              /\ \/ oc.lottery < od.lottery
                 \/ /\ oc.lottery = od.lottery
                    /\ \/ c.order < d.order
                       \/ c.order = d.order /\ c.id < d.id

OrgOf(c) == book[c.order].org

-----------------------------------------------------------------------------
(* _allocate_realtime, on the chunks C that ask for pool p.  Once C asks   *)
(* for more than the supply, hours an organisation asks for beyond its     *)
(* share, counted in rank order, fall into a second band.                  *)

\* Slices of an hour each: first hours of a chunk come first.
HourBefore(u, v) == \/ Outranks(u[1], v[1])
                    \/ u[1] = v[1] /\ u[2] < v[2]

\* Slip: the cap applied to a pool that is not overfilled.
Band_Always(u, units, p) ==
  LET sooner == {v \in units : OrgOf(v[1]) = OrgOf(u[1]) /\ HourBefore(v, u)}
  IN IF Cardinality(sooner) >= CapHours(view[p]) THEN 1 ELSE 0

Band(u, units, p) ==
  LET sooner == {v \in units : OrgOf(v[1]) = OrgOf(u[1]) /\ HourBefore(v, u)}
  IN IF /\ Cardinality(units) > view[p].supply
        /\ Cardinality(sooner) >= CapHours(view[p])
     THEN 1 ELSE 0

Slices(C, p) ==
  LET units == Units(C)
  IN {[chunk |-> u[1], hour |-> u[2], band |-> Band(u, units, p)] : u \in units}

\* Slip: the bands mixed.
Ahead_OneBand(s, t) == HourBefore(<<s.chunk, s.hour>>, <<t.chunk, t.hour>>)

\* The second band comes after the whole first one.
Ahead(s, t) ==
  \/ s.band < t.band
  \/ s.band = t.band /\ HourBefore(<<s.chunk, s.hour>>, <<t.chunk, t.hour>>)

\* Slip: an hour too many.
Accepted_OneMore(C, p) ==
  LET slices == Slices(C, p)
  IN {s \in slices : Cardinality({t \in slices : Ahead(t, s)}) <= view[p].supply}

\* Greedy: a slice is served when fewer than supply slices are ahead of it.
Accepted(C, p) ==
  LET slices == Slices(C, p)
  IN {s \in slices : Cardinality({t \in slices : Ahead(t, s)}) < view[p].supply}

Capped(C, p) == \E s \in Slices(C, p) : s.band = 1

Granted(served, c) == Cardinality({s \in served : s.chunk = c})

-----------------------------------------------------------------------------
(* One pass: the pools choose, and what they turn away descends.           *)

\* The hours of an order reaching a rung count as demand once: the chunk
\* that comes first does, chunks that come later do not.
FirstArrivals ==
  {c \in seeking :
     /\ <<c.order, c.rung>> \notin seen
     /\ \A d \in seeking : d.order = c.order /\ d.rung = c.rung => c.id <= d.id}

ClearPass ==
  /\ phase = "passing"
  /\ seeking # {}
  /\ passes < MaxPasses
  /\ passes' = passes + 1
  /\ seen' = seen \cup {<<c.order, c.rung>> : c \in seeking}
  /\ demand' = [p \in Pools |-> demand[p] + Hours(At(book, FirstArrivals, p))]
  /\ LET asking == placed \cup seeking
         served == UNION {Accepted(At(book, asking, p), p) : p \in Pools}
         outcome == {<<c, Granted(served, c)>> : c \in asking}
         turnedAway == Rest(outcome)
     IN /\ placed' = Kept(outcome)
        /\ seeking' = Descend(book, view, turnedAway, lastId, FALSE)
        /\ lastId' = lastId + Cardinality(turnedAway)
        /\ orgCap' = [p \in Pools |-> Capped(At(book, asking, p), p)]
  /\ UNCHANGED <<book, view, phase, fills>>

-----------------------------------------------------------------------------
(* The result.  A placed chunk pays the posted base; the tip that ranked   *)
(* it is charged only in a scarce pool and never past the renter's max.    *)

Scarce(p) == demand[p] > view[p].supply

\* Slip: the tip that ranked the chunk charged in full.
ChargedTip_Full(c) == IF Scarce(PoolOf(book, c)) THEN TipAt(c) ELSE 0

ChargedTip(c) ==
  LET room == book[c.order].rungs[c.rung].max - view[PoolOf(book, c)].base
  IN IF ~Scarce(PoolOf(book, c)) THEN 0
     ELSE IF TipAt(c) <= room THEN TipAt(c) ELSE room

FillOf(c) == [id |-> c.id, order |-> c.order, rung |-> c.rung, hours |-> c.hours,
              pay |-> view[PoolOf(book, c)].base, tip |-> ChargedTip(c)]

Payable(c) ==
  /\ view[PoolOf(book, c)].base >= view[PoolOf(book, c)].reserve
  /\ view[PoolOf(book, c)].base <= book[c.order].rungs[c.rung].max

Settle ==
  /\ phase = "passing"
  /\ seeking = {} \/ passes = MaxPasses
  /\ phase' = "done"
  /\ fills' = {FillOf(c) : c \in {d \in placed : Payable(d)}}
  /\ UNCHANGED <<book, view, passes, placed, seeking, lastId, seen, demand, orgCap>>

Init ==
  /\ book \in Books
  /\ view \in Views
  /\ phase = "passing"
  /\ passes = 0
  /\ placed = {}
  /\ seeking = FirstChunks(book, view, FALSE)
  /\ lastId = Cardinality(Orders)
  /\ seen = {}
  /\ demand = [p \in Pools |-> 0]
  /\ orgCap = [p \in Pools |-> FALSE]
  /\ fills = {}

Next == ClearPass \/ Settle

\* clear_realtime is one synchronous call: it runs until it returns.
Spec == Init /\ [][Next]_vars /\ WF_vars(Next)

-----------------------------------------------------------------------------
(* Properties.                                                             *)

\* Every variable has its type; chunks stand on rungs of their own ladder.
TypeOK ==
  /\ book \in Books
  /\ view \in Views
  /\ phase \in {"passing", "done"}
  /\ passes \in 0..MaxPasses
  /\ placed \subseteq Chunk
  /\ seeking \subseteq Chunk
  /\ \A c \in placed \cup seeking : c.rung \in DOMAIN book[c.order].rungs
  /\ lastId \in Nat
  /\ seen \subseteq Orders \X (Nat \ {0})
  /\ demand \in [Pools -> Nat]
  /\ orgCap \in [Pools -> BOOLEAN]
  /\ fills \subseteq [id : Nat, order : Orders, rung : Nat \ {0},
                      hours : 1..MaxHours, pay : Nat, tip : Int]

HeldAt(p) == Hours(At(book, placed, p))

\* Hours of order o that stand, or ask to stand, at rung r or better.
HoursDownTo(o, r) ==
  Hours({c \in OfOrder(placed \cup seeking, o) : c.rung <= r})

\* The pool of rung r of order o has sent some of its hours away.
TurnedAway(o, r) ==
  /\ r \in OpenRungs(book[o], view, FALSE)
  /\ HoursDownTo(o, r) < book[o].hours

\* No pool is ever sold beyond its supply, whatever is displaced and split.
SupplyNeverOversold == \A p \in Pools : HeldAt(p) <= view[p].supply

HoursByRung(C) ==
  [o \in Orders |->
     [r \in DOMAIN book[o].rungs |-> Hours({c \in OfOrder(C, o) : c.rung = r})]]

Promise == INSTANCE DeferredAcceptance
  WITH DayAhead <- FALSE, stands <- HoursByRung(placed \cup seeking),
       held <- HoursByRung(placed), sold <- HoursByRung(fills), done <- phase = "done"

\* A round is deferred acceptance by hours: whatever is split, displaced and
\* displaced again, no hour is lost, made or sold twice, none comes to a rung but
\* from the one above it that sent it away, every pool holds all that it has room
\* for after every pass, and all that is held at the end is sold.
KeepsItsPromise == Promise!Spec

\* A pool that turned an affordable hour away is full: its later passes
\* never leave a box idle that a turned-away renter would have taken.
NoIdleBoxAfterTurningAway ==
  \A o \in Orders : \A r \in DOMAIN book[o].rungs :
    TurnedAway(o, r) =>
      LET p == book[o].rungs[r].pool IN HeldAt(p) = view[p].supply

\* No justified envy: were one turned-away hour to ask again, the pool, choosing
\* among what it holds now, would still not give its order more than it has.
TurnedAwayForGood ==
  \A o \in Orders : \A r \in DOMAIN book[o].rungs :
    TurnedAway(o, r) =>
      LET p == book[o].rungs[r].pool
          again == [id |-> lastId + 1, order |-> o, rung |-> r, hours |-> 1]
          served == Accepted(At(book, placed, p) \cup {again}, p)
      IN Cardinality({s \in served : s.chunk.order = o})
           <= Hours(OfOrder(At(book, placed, p), o))

OrgHeld(g, p) == Hours({c \in At(book, placed, p) : OrgOf(c) = g})

\* Leftover hours go to an organisation above its share only when no
\* organisation below its share was turned away from that pool.
OverShareYields ==
  \A p \in Pools : \A g \in Orgs :
    OrgHeld(g, p) > CapHours(view[p]) =>
      \A o \in Orders : \A r \in DOMAIN book[o].rungs :
        TurnedAway(o, r) /\ book[o].rungs[r].pool = p /\ book[o].org # g =>
          OrgHeld(book[o].org, p) >= CapHours(view[p])

\* A pool reported scarce, where tips are charged, has no idle box.
ScarceOnlyWhenFull ==
  \A p \in Pools : Scarce(p) => HeldAt(p) = view[p].supply

\* Every fill pays the reserve at least, and price and tip together never
\* exceed what the renter set for the rung, although the tip that ranked the
\* chunk was not limited by it.
ChargesWithinLimits ==
  \A f \in fills :
    LET rung == book[f.order].rungs[f.rung]
    IN /\ f.pay >= view[rung.pool].reserve
       /\ f.tip >= 0
       /\ f.pay + f.tip <= rung.max

\* Given passes enough, clearing ends with nothing left seeking: the
\* iteration cap is a safety net, not a way to finish.
ConvergesBeforeTheCap == phase = "done" => seeking = {}

\* A full pool stays full: later passes replace hours, they never vacate them.
FullStaysFull ==
  [][\A p \in Pools : HeldAt(p) = view[p].supply => HeldAt(p)' = view[p].supply]_vars

-----------------------------------------------------------------------------
(* What the documentation says and the code does not do.                   *)

\* "The tip is zero unless the pool is scarce" and utilization is demand over
\* supply: a pool that turned paying hours away reports itself scarce.
TurningAwayIsScarce ==
  phase = "done" =>
    \A o \in Orders : \A r \in DOMAIN book[o].rungs :
      TurnedAway(o, r) => Scarce(book[o].rungs[r].pool)

\* org_cap_applied: an order turned away from a pool that holds a chunk it
\* outranks was displaced by the org cap alone, and the pool's flag says so.
FlagRecordsTheCap ==
  phase = "done" =>
    \A o \in Orders : \A r \in DOMAIN book[o].rungs :
      LET p == book[o].rungs[r].pool
          asker == [id |-> lastId + 1, order |-> o, rung |-> r, hours |-> 1]
      IN /\ TurnedAway(o, r)
         /\ \E c \in At(book, placed, p) : c.order # o /\ Outranks(asker, c)
         => orgCap[p]

\* "No org may take more than 25% of a scarce pool."
NoOrgAboveItsShare ==
  phase = "done" =>
    \A p \in Pools : \A g \in Orgs :
      Scarce(p) => OrgHeld(g, p) <= CapHours(view[p])
=============================================================================
