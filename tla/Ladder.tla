------------------------------- MODULE Ladder -------------------------------
(***************************************************************************)
(* What both clearings of pricing_core/clearing.py share: orders with a    *)
(* ladder of rungs, pools with a supply, a posted base and a reserve, and  *)
(* the chunks (parts of an order standing at one rung) that passes move    *)
(* down the ladders.                                                       *)
(*                                                                         *)
(* Hours are counted in a unit small enough for every quantity of the      *)
(* round, the org cap included, to be whole.  The code computes with       *)
(* exact decimals and treats differences below EPS = 1e-9 as zero, so it   *)
(* is exact on such a grid.  Money is in whole cents, as in the code.      *)
(***************************************************************************)
EXTENDS Integers, Sequences, FiniteSets

CONSTANTS
  Pools,      \* the pools of the round: numbers, ordered as their ids
  Orders,     \* the orders of the round: numbers, ordered as their ids
  Orgs,       \* the organisations that place orders
  MaxHours,   \* the largest order, in hour units
  ShareNum,   \* org share cap of a scarce pool, as ShareNum / ShareDen
  ShareDen

ASSUME LadderAssumption ==
  /\ Pools \subseteq Nat /\ IsFiniteSet(Pools)
  /\ Orders \subseteq Nat /\ IsFiniteSet(Orders)
  /\ MaxHours \in Nat
  /\ ShareNum \in Nat
  /\ ShareDen \in Nat \ {0}

Rung == [pool : Pools, max : Nat, will : Nat]

\* Order.__post_init__ and the engine refuse an empty ladder and hours <= 0.
Order == [org : Orgs, rungs : Seq(Rung), hours : 1..MaxHours,
          tip : Nat, tier : Int, lottery : Nat]

PoolView == [supply : Nat, base : Nat, reserve : Nat]

Chunk == [id : Nat, order : Orders, rung : Nat \ {0}, hours : 1..MaxHours]

-----------------------------------------------------------------------------
(* Rungs.  A day-ahead block has no posted price yet, so only the reserve  *)
(* decides what a bid can buy there.                                       *)

Affordable(max, pool, dayAhead) ==
  /\ pool.supply > 0
  /\ max >= pool.reserve
  /\ dayAhead \/ max >= pool.base

OpenRungs(ord, view, dayAhead) ==
  {r \in DOMAIN ord.rungs :
     Affordable(ord.rungs[r].max, view[ord.rungs[r].pool], dayAhead)}

\* Slip: a ladder walked from its end.
Best_Last(S) == {r \in S : \A s \in S : r >= s}

\* The best rung of a set: none when the set is empty, one otherwise.
Best(S) == {r \in S : \A s \in S : r <= s}

\* Slips: the next rung passed over; the same rung asked again.
RungsBelow_Skip(ord, r, view, dayAhead) ==
  {s \in OpenRungs(ord, view, dayAhead) : s > r + 1}

RungsBelow_Again(ord, r, view, dayAhead) ==
  {s \in OpenRungs(ord, view, dayAhead) : s >= r}

\* Where a chunk standing at rung r of ord may go when it is turned away.
RungsBelow(ord, r, view, dayAhead) ==
  {s \in OpenRungs(ord, view, dayAhead) : s > r}

-----------------------------------------------------------------------------
(* Hours are counted as the unit slices <<chunk, k>> of a set of chunks.   *)

Units(C) == {u \in C \X (1..MaxHours) : u[2] <= u[1].hours}

Hours(C) == Cardinality(Units(C))

OfOrder(C, o) == {c \in C : c.order = o}

PoolOf(book, c) == book[c.order].rungs[c.rung].pool

At(book, C, p) == {c \in C : PoolOf(book, c) = p}

\* The most one organisation may hold in band 0 of a pool it helps overfill.
CapHours(pool) == (ShareNum * pool.supply) \div ShareDen

-----------------------------------------------------------------------------
(* Making chunks.  Ids grow in the order in which chunks are made.  Ranks  *)
(* use an id only to separate chunks of one order at one pool.             *)

\* Orders are entered by lottery, then id.
EnteredUpTo(book, o) ==
  {q \in Orders : \/ book[q].lottery < book[o].lottery
                  \/ book[q].lottery = book[o].lottery /\ q <= o}

\* Each order whole, at the best rung it can afford; some find none.
FirstChunks(book, view, dayAhead) ==
  UNION {{[id |-> Cardinality(EnteredUpTo(book, o)), order |-> o,
           rung |-> r, hours |-> book[o].hours] :
             r \in Best(OpenRungs(book[o], view, dayAhead))} : o \in Orders}

\* Rejected chunks are walked pool by pool, in id order within a pool.
WalkedUpTo(book, C, c) ==
  {d \in C : \/ PoolOf(book, d) < PoolOf(book, c)
             \/ PoolOf(book, d) = PoolOf(book, c) /\ d.id <= c.id}

\* What the rejected chunks C become: each at the next rung it can afford,
\* with an id above last.  A chunk with no such rung leaves the round.
Descend(book, view, C, last, dayAhead) ==
  UNION {{[id |-> last + Cardinality(WalkedUpTo(book, C, c)), order |-> c.order,
           rung |-> r, hours |-> c.hours] :
             r \in Best(RungsBelow(book[c.order], c.rung, view, dayAhead))} : c \in C}

\* Slips: chunks kept with no hours left; the rest of a split not reduced.
Kept_Empty(outcome) == {[e[1] EXCEPT !.hours = e[2]] : e \in outcome}

Rest_Whole(outcome) == {e[1] : e \in {f \in outcome : f[2] < f[1].hours}}

\* The parts of the asking chunks that got, and that missed, their hours.
\* outcome pairs each of them with the hours it was granted.
Kept(outcome) ==
  {[e[1] EXCEPT !.hours = e[2]] : e \in {f \in outcome : f[2] > 0}}

Rest(outcome) ==
  {[e[1] EXCEPT !.hours = e[1].hours - e[2]] :
     e \in {f \in outcome : f[2] < f[1].hours}}
=============================================================================
