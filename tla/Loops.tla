------------------------------- MODULE Loops -------------------------------
(***************************************************************************)
(* The loops with which pricing_core/clearing.py serves a pool, as they    *)
(* are written: one chunk after the other in rank order, out of a running  *)
(* room.  A rank is a function to what comes before each chunk.            *)
(***************************************************************************)
EXTENDS Integers, Sequences, FiniteSets

\* min(want, room).
TakeOf(want, room) == IF want <= room THEN want ELSE room

\* What is left of a room after n wants.
Remaining(room, wants) ==
  LET left[n \in 0..Len(wants)] ==
        IF n = 0 THEN room
        ELSE LET before == left[n - 1] IN before - TakeOf(wants[n], before)
  IN left

\* What each want gets of it.
Takes(room, wants) ==
  LET left == Remaining(room, wants)
  IN [n \in 1..Len(wants) |-> TakeOf(wants[n], left[n - 1])]

\* sorted(): a set in the order of its rank.
InOrder(rank) ==
  [n \in 1..Cardinality(DOMAIN rank) |->
     CHOOSE c \in DOMAIN rank : Cardinality(rank[c]) = n - 1]

PlaceOf(c, ranked) == CHOOSE n \in DOMAIN ranked : ranked[n] = c

\* A quantity of each chunk, chunk by chunk.
InTurn(ranked, quantity) == [n \in DOMAIN ranked |-> quantity[ranked[n]]]

\* The chunks of each organisation are cut at its room: what the loop takes of
\* a chunk is in the cap, the rest is over it.
InCap(rank, org, room) ==
  [c \in DOMAIN rank |->
     LET own == {d \in DOMAIN rank : org[d] = org[c]}
         ranked == InOrder([d \in own |-> rank[d] \cap own])
         takes == Takes(room, InTurn(ranked, [d \in own |-> d.hours]))
     IN takes[PlaceOf(c, ranked)]]
=============================================================================
