------------------------------- MODULE Quotes -------------------------------
(***************************************************************************)
(* Where the reserve and the supply of a pool come from: _prepare_pool,    *)
(* _parse_tiers and _tier_supply of pricing_core/engine.py.                *)
(***************************************************************************)
EXTENDS Integers, FiniteSets

\* Where the reserve comes from: given, from a floor with its fees (percent
\* and per hour), or the cheapest of the boxes, each with its own reserve.
RequestQuote == [source : {"request"}, cents : Nat, hours : Nat]
FloorQuote == [source : {"floor"}, cents : Nat, fee : 0..99, fixed : Nat, hours : Nat]
TierQuote == [source : {"tiers"}, boxes : {B \in SUBSET (Nat \X Nat) : IsFiniteSet(B) /\ B # {}}]
Quote == RequestQuote \cup FloorQuote \cup TierQuote

CheapestBox(boxes) ==
  CHOOSE r \in {x[2] : x \in boxes} : \A x \in boxes : r <= x[2]

\* Slip: boxes offered below their own reserve.
SupplyAt_All(q, price) ==
  IF q.source = "tiers" THEN Cardinality(q.boxes) ELSE q.hours

\* A box is not offered below its own reserve.
SupplyAt(q, price) ==
  IF q.source = "tiers" THEN Cardinality({x \in q.boxes : x[2] <= price}) ELSE q.hours
=============================================================================
