-------------------------------- MODULE MCPain --------------------------------
(* Three ladders for TLC, with every kind of level.                        *)
EXTENDS Pain

Rung(pool, max, notify, confirm, fallback, stop) ==
  [pool |-> pool, max |-> max, notify |-> notify, confirm |-> confirm,
   fallback |-> fallback, stop |-> stop]

\* A stop before a level; the same pool twice; all levels on one rung.
MCLadders ==
  {<<Rung(1, 40, 9, Unset, Unset, 30), Rung(2, 30, Unset, 9, 10, Unset)>>,
   <<Rung(1, 31, Unset, Unset, 10, Unset), Rung(2, 20, Unset, 29, 30, 31),
     Rung(1, 12, 10, 9, 30, Unset)>>,
   <<Rung(2, 40, 9, 10, 30, 31), Rung(1, 10, Unset, Unset, Unset, Unset)>>}
=============================================================================
