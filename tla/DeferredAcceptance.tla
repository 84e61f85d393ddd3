------------------------- MODULE DeferredAcceptance -------------------------
(***************************************************************************)
(* What both clearings of pricing_core/clearing.py promise, without chunks *)
(* and ranks: renter-proposing deferred acceptance, by hours.  An order's  *)
(* hours stand at the rungs of its ladder.  In a pass every pool holds     *)
(* some of the hours that stand at it, as many as it has room for, and     *)
(* sends the others to the next rung that they can afford.                 *)
(***************************************************************************)
EXTENDS Ladder

CONSTANTS
  Books,      \* the order books that may be given
  Views,      \* the pool views that may be given
  DayAhead    \* whether bids are sealed

VARIABLES
  book,       \* the orders
  view,       \* the pools
  stands,     \* hours of each order that stand at each of its rungs
  held,       \* those of them that the pool held in the last pass
  sold,       \* the result: hours sold to each order at each of its rungs
  done        \* whether the result was returned

vars == <<book, view, stands, held, sold, done>>

Open(o) == OpenRungs(book[o], view, DayAhead)

ByRung(H(_, _)) == [o \in Orders |-> [r \in DOMAIN book[o].rungs |-> H(o, r)]]

\* The hours h of all orders at pool p, one by one.
AtPool(h, p) ==
  UNION {UNION {{<<o, r, k>> : k \in 1..h[o][r]} :
                  r \in {q \in DOMAIN book[o].rungs : book[o].rungs[q].pool = p}} :
           o \in Orders}

Least(a, b) == IF a < b THEN a ELSE b

\* The rung from which hours come down to rung r, if there is one.
RungAbove(o, r) == {q \in Open(o) : q < r /\ \A s \in Open(o) : s < r => s <= q}

\* The pools choose what they hold: no hour that does not stand there, none
\* beyond the supply, and none idle that is asked for.  The rest comes down.
Pass ==
  /\ ~done
  /\ stands # held
  /\ \A o \in Orders : \A r \in DOMAIN book[o].rungs : held'[o][r] \in 0..stands[o][r]
  /\ \A p \in Pools :
       Cardinality(AtPool(held', p)) = Least(Cardinality(AtPool(stands, p)), view[p].supply)
  /\ LET Stand(o, r) ==
           IF r \in Open(o) /\ RungAbove(o, r) # {}
           THEN LET q == CHOOSE s \in RungAbove(o, r) : TRUE
                IN held'[o][r] + stands[o][q] - held'[o][q]
           ELSE held'[o][r]
     IN stands' = ByRung(Stand)
  /\ UNCHANGED <<book, view, sold, done>>

\* The passes are over, because no hour moves or because they were too many:
\* what is held is sold.
Return ==
  /\ ~done
  /\ done' = TRUE
  /\ sold' = held
  /\ UNCHANGED <<book, view, stands, held>>

Init ==
  /\ book \in Books
  /\ view \in Views
  /\ LET First(o, r) == IF r \in Best(Open(o)) THEN book[o].hours ELSE 0
         None(o, r) == 0
     IN stands = ByRung(First) /\ held = ByRung(None) /\ sold = ByRung(None)
  /\ done = FALSE

Next == Pass \/ Return

Spec == Init /\ [][Next]_vars
=============================================================================
