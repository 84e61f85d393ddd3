---------------------------- MODULE MCRoundCalls ----------------------------
(* A pool and a calendar for TLC.                                          *)
EXTENDS RoundCalls

\* A busy and an idle hour of a pool whose reserve follows its boost.
CallInputs ==
  {[hosts |-> 3, trail |-> u, median |-> -1, demand |-> d,
    quote |-> [source |-> "floor", cents |-> 4, fee |-> 10, fixed |-> 1, hours |-> 2]] :
     <<u, d>> \in {<<20, 0>>, <<70, 2>>}}

CallStarts == {6}

\* Two rulesets with one timestamp, as shipped, and one to come.
Calendar == <<0, 0, 1>>

Definite == {{"version"}, {"start"}}
Bare == {{}}
=============================================================================
