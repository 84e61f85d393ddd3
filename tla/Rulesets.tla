------------------------------ MODULE Rulesets ------------------------------
(***************************************************************************)
(* Which ruleset prices a request: active_version and load_ruleset of      *)
(* pricing_core/ruleset.py, choose_active of transparency.py, _rules and   *)
(* _as_of of engine.py.                                                    *)
(*                                                                         *)
(* Rulesets are numbered in the order of publication (PUBLISHED_VERSIONS). *)
(* A process has those up to the release that it runs.                     *)
(***************************************************************************)
EXTENDS Integers, Sequences

CONSTANT EffectiveFrom  \* of each ruleset, in order of publication

ASSUME RulesetAssumption ==
  /\ EffectiveFrom \in Seq(Nat)
  /\ Len(EffectiveFrom) > 0

Versions == 1..Len(EffectiveFrom)

\* In the place of a ruleset where there is none, and of what a body omits.
NoVersion == 0
NoStart == -1

\* Slip: announced rulesets are taken for active.
ChooseActive_Newest(known, asOf) == known

\* In force later, or published later with the same timestamp.
Follows(w, v) ==
  \/ EffectiveFrom[w] > EffectiveFrom[v]
  \/ EffectiveFrom[w] = EffectiveFrom[v] /\ w > v

\* Those of the first "known" rulesets that are in force at a time.
Effective(known, asOf) == {v \in 1..known : EffectiveFrom[v] <= asOf}

\* The latest of them; of two with one timestamp the later entry.
ChooseActive(known, asOf) ==
  LET effective == Effective(known, asOf)
  IN IF effective = {} THEN NoVersion
     ELSE CHOOSE v \in effective : \A w \in effective : ~Follows(w, v)

\* A process has the rulesets of its release and no others.
LoadRuleset(version, known) == IF version <= known THEN version ELSE NoVersion

\* Slip: the start of the round is not looked at.
AsOf_Clock(body, now) == now

\* The time whose ruleset a body asks for.
AsOf(body, now) == IF body.start = NoStart THEN now ELSE body.start

\* Slip: a named ruleset must be in force.
RulesFor_Effective(body, known, now) ==
  LET active == ChooseActive(known, AsOf(body, now))
  IN IF body.version \in {NoVersion, active} THEN active ELSE NoVersion

\* A named ruleset always wins, announced or in force, where it is known.
RulesFor(body, known, now) ==
  IF body.version = NoVersion THEN ChooseActive(known, AsOf(body, now))
  ELSE LoadRuleset(body.version, known)
=============================================================================
