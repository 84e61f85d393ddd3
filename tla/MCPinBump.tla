------------------------------ MODULE MCPinBump ------------------------------
(* A small repository for TLC.                                             *)
EXTENDS PinBump

CONSTANTS d0, d1, d2, v1, v2

File(pin, note) == [pin |-> pin, note |-> note, text |-> 0]

\* Pinned to an older image; one file pinned already; one without a pin.
PinStarts ==
  {<<File(d0, v1), File(d0, NoTag)>>, <<File(d1, NoTag), File(d0, v1)>>,
   <<File(d0, NoTag), File(NoPin, NoTag)>>}

AllDigests == {d0, d1, d2}
NewDigests == {d1, d2}
=============================================================================
