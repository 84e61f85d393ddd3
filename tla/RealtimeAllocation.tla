------------------------- MODULE RealtimeAllocation -------------------------
(***************************************************************************)
(* _allocate_realtime as it is written, an organisation, a chunk and a     *)
(* slice at a time, to compare with RealtimeClearing!Accepted, which says  *)
(* the same of single hours and is what the clearing and its proofs use.   *)
(***************************************************************************)
EXTENDS RealtimeClearing, Loops

\* Slices in cap come before slices over the cap, and both by rank; they are
\* served from what remains of the supply.  A slice of no hours takes none, and a
\* cap as wide as all the hours is no cap.
Greedy(C, p) ==
  LET supply == view[p].supply
      room == IF Hours(C) > supply THEN CapHours(view[p]) ELSE Hours(C)
      rank == [c \in C |-> {d \in C : Outranks(d, c)}]
      ranked == InOrder(rank)
      inCap == InCap(rank, [c \in C |-> OrgOf(c)], room)
      over == [c \in C |-> c.hours - inCap[c]]
      takes == Takes(supply, InTurn(ranked, inCap) \o InTurn(ranked, over))
  IN [accepted |-> [c \in C |-> takes[PlaceOf(c, ranked)] +
                                takes[Len(ranked) + PlaceOf(c, ranked)]],
      capped |-> \E c \in C : over[c] > 0]

\* The set of single hours a pool accepts is what the loops of the code take,
\* chunk by chunk, and both raise the org cap flag alike.
GreedyAgrees ==
  \A p \in Pools :
    LET C == At(book, placed \cup seeking, p)
        greedy == Greedy(C, p)
        served == Accepted(C, p)
    IN /\ \A c \in C : greedy.accepted[c] = Granted(served, c)
       /\ greedy.capped = Capped(C, p)
=============================================================================
