------------------------- MODULE DayAheadAllocation -------------------------
(***************************************************************************)
(* _allocate_day_ahead as it is written, an organisation, a chunk and a    *)
(* slice at a time, to compare with DayAheadClearing!Accepted and          *)
(* UniformPrice, which say the same of single hours.                       *)
(***************************************************************************)
EXTENDS DayAheadClearing, Loops

\* Slices in cap are served first, and the highest bid of one that is not
\* served in full makes the price; the second loop passes over the slices that
\* bid less and goes on with what remains.  A cap as wide as all the hours is none.
Greedy(C, p) ==
  LET supply == view[p].supply
      room == IF Hours(C) > supply THEN CapHours(view[p]) ELSE Hours(C)
      rank == [c \in C |-> {d \in C : Outranks(d, c)}]
      ranked == InOrder(rank)
      inCap == InCap(rank, [c \in C |-> OrgOf(c)], room)
      over == [c \in C |-> c.hours - inCap[c]]
      inTakes == Takes(supply, InTurn(ranked, inCap))
      rejected == {Bid(c) : c \in {d \in C : inTakes[PlaceOf(d, ranked)] < inCap[d]}}
      prices == {view[p].reserve} \cup rejected
      dear == CHOOSE b \in prices : \A x \in prices : b >= x
      bidding == [c \in C |-> IF Bid(c) < dear THEN 0 ELSE over[c]]
      takes == Takes(supply, InTurn(ranked, inCap) \o InTurn(ranked, bidding))
  IN [accepted |-> [c \in C |-> takes[PlaceOf(c, ranked)] +
                                takes[Len(ranked) + PlaceOf(c, ranked)]],
      price |-> dear,
      capped |-> \E c \in C : over[c] > 0]

\* What a pool sells to each chunk, its price and the flag of its org cap are
\* the same whether it goes by single hours or, as the code, by slices.
GreedyAgrees ==
  \A p \in Pools :
    LET C == At(book, placed \cup seeking, p)
        slices == Slices(C, p)
        greedy == Greedy(C, p)
    IN /\ \A c \in C : greedy.accepted[c] = Granted(Accepted(slices, p), c)
       /\ greedy.price = UniformPrice(slices, p)
       /\ greedy.capped = \E s \in slices : s.band = 1
=============================================================================
