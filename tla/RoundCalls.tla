----------------------------- MODULE RoundCalls -----------------------------
(***************************************************************************)
(* A round of one pool as Panopticon calls for it: attempts with a         *)
(* timeout at the replicas of the service, then degraded_round in its own  *)
(* copy of the library.  The service is stateless: an answer is computed   *)
(* from the body, the rulesets that the process has, and, if the body      *)
(* leaves that open, the clock.                                            *)
(*                                                                         *)
(* Requests and answers may be lost or late; a replica may be replaced by  *)
(* one that has more rulesets, between any two steps.  Panopticon is not   *)
(* in this repository: it is modelled as the README tells it to call.      *)
(***************************************************************************)
EXTENDS Rulesets, FiniteSets

CONSTANTS
  Replicas,     \* processes of the service
  Library,      \* the copy of the library that Panopticon has
  MaxAttempts,  \* calls for one round
  Naming,       \* what bodies name: subsets of {"version", "start"}
  InStep,       \* a ruleset is installed everywhere before it takes effect
  MaxTime       \* bound of the clock

CONSTANTS  \* of PoolRounds
  Scale, BMax, ULow, UHigh, Hyst, SmoothNum, SmoothDen, MinHosts, ThinPlateau,
  Conditional, TargetNum, TargetDen, DeltaNum, DeltaDen, Kappa, LambdaNum,
  LambdaDen, AlphaNum, AlphaDen, Inputs, StartBases

ASSUME CallsAssumption ==
  /\ Library \notin Replicas
  /\ MaxAttempts \in Nat \ {0}
  /\ Naming \subseteq SUBSET {"version", "start"}
  /\ InStep \in BOOLEAN
  /\ MaxTime \in Nat

VARIABLES
  now,        \* the clock
  published,  \* number of rulesets published
  known,      \* number of rulesets that each process has
  memory,     \* of the pool, at the caller: what PoolRounds calls its variables
  body,       \* the request for the round that is being priced, or NoBody
  tried,      \* attempts made for it
  waiting,    \* whether the caller waits for the last of them
  pending,    \* requests under way: attempt and replica
  arriving,   \* answers to the last attempt on their way back
  answers,    \* history: every answer computed for the round
  receipt     \* of the last round: what its body named and the ruleset that priced it

rulesetVars == <<now, published, known>>
wire == <<waiting, pending, arriving>>
vars == <<now, published, known, memory, body, tried, waiting, pending, arriving,
          answers, receipt>>

Processes == Replicas \cup {Library}

NoBody == [in |-> "none"]
Refused == [version |-> NoVersion]
NoReceipt == [named |-> NoVersion, start |-> NoStart, version |-> NoVersion]

-----------------------------------------------------------------------------
(* The price of a body.                                                    *)

\* A pool with the memory that travels in a body.
Pool(m) == INSTANCE PoolRounds
  WITH base <- m.base, boost <- m.boost, ema <- m.ema, row <- m.row

\* The caller's memory as the state of PoolRounds.
Kept == INSTANCE PoolRounds
  WITH base <- memory.base, boost <- memory.boost, ema <- memory.ema, row <- memory.row

\* The pool has what PoolRounds assumes of one.
ASSUME PoolsAssumption == Kept!PoolAssumption

FullRound(m, in) ==
  LET row == Pool(m)!Row(in, Pool(m)!Reserve(in.quote, Pool(m)!Stepped(in)), FALSE)
  IN [base |-> Pool(m)!UpdateBase(in, row.posted, row.reserve, row.cap, row.supply),
      boost |-> Pool(m)!StepBoost(in),
      ema |-> Pool(m)!UpdateEma(row.posted),
      row |-> row]

\* Slip: a degraded round records the utilization it was sent.
HeldRound_Steps(m, in) ==
  LET row == Pool(m)!Row(in, Pool(m)!Reserve(in.quote, Pool(m)!Held), TRUE)
  IN [base |-> row.posted, boost |-> Pool(m)!StepBoost(in), ema |-> Pool(m)!Lagged,
      row |-> row]

HeldRound(m, in) ==
  LET row == Pool(m)!Row(in, Pool(m)!Reserve(in.quote, Pool(m)!Held), TRUE)
  IN [base |-> row.posted, boost |-> m.boost, ema |-> Pool(m)!Lagged, row |-> row]

\* What a process that knows so many rulesets answers to a body.
PriceRound(b, degraded, knows) ==
  LET version == RulesFor(b, knows, now)
  IN IF version = NoVersion THEN Refused
     ELSE [version |-> version,
           memory |-> IF degraded THEN HeldRound(b.memory, b.in)
                      ELSE FullRound(b.memory, b.in)]

-----------------------------------------------------------------------------
(* Rulesets and time.                                                      *)

\* A ruleset is announced before it takes effect.
Publish ==
  /\ published < Len(EffectiveFrom)
  /\ EffectiveFrom[published + 1] > now
  /\ published' = published + 1
  /\ UNCHANGED <<now, known, memory, body, tried, wire, answers, receipt>>

\* A process is replaced by one of the newest release.
Install(p) ==
  /\ known[p] < published
  /\ known' = [known EXCEPT ![p] = published]
  /\ UNCHANGED <<now, published, memory, body, tried, wire, answers, receipt>>

Tick ==
  /\ now < MaxTime
  /\ InStep => \A v \in 1..published, p \in Processes :
                 EffectiveFrom[v] <= now + 1 => v <= known[p]
  /\ now' = now + 1
  /\ UNCHANGED <<published, known, memory, body, tried, wire, answers, receipt>>

-----------------------------------------------------------------------------
(* A round.                                                                *)

\* The caller sends what the last round answered.  The version that it names may
\* be announced only, and may be one that its own library does not have yet.
Begin(in, names) ==
  /\ body = NoBody
  /\ \E v \in IF "version" \in names THEN 1..published ELSE {NoVersion} :
       body' = [in |-> in, memory |-> memory, version |-> v,
                start |-> IF "start" \in names THEN now ELSE NoStart]
  /\ tried' = 0
  /\ answers' = {}
  /\ UNCHANGED <<rulesetVars, memory, wire, receipt>>

Send(r) ==
  /\ body # NoBody /\ ~waiting /\ tried < MaxAttempts
  /\ tried' = tried + 1
  /\ waiting' = TRUE
  /\ pending' = pending \cup {<<tried + 1, r>>}
  /\ UNCHANGED <<rulesetVars, memory, body, arriving, answers, receipt>>

\* An answer reaches the caller only while it waits for that attempt.
Arrives(n, answer) ==
  arriving' = IF waiting /\ n = tried THEN {answer} ELSE arriving

\* A replica prices a request, whether or not the caller still waits for it.
Serve(r) ==
  \E n \in 1..MaxAttempts :
    /\ <<n, r>> \in pending
    /\ pending' = pending \ {<<n, r>>}
    /\ LET answer == PriceRound(body, FALSE, known[r])
       IN Arrives(n, answer) /\ answers' = answers \cup ({answer} \ {Refused})
    /\ UNCHANGED <<rulesetVars, memory, body, tried, waiting, receipt>>

\* A process without a token, or with another one, answers without pricing.
TurnAway(r) ==
  \E n \in 1..MaxAttempts :
    /\ <<n, r>> \in pending
    /\ pending' = pending \ {<<n, r>>}
    /\ Arrives(n, Refused)
    /\ UNCHANGED <<rulesetVars, memory, body, tried, waiting, answers, receipt>>

\* The round is over; nobody reads what is still under way.
Close ==
  /\ body' = NoBody
  /\ waiting' = FALSE
  /\ pending' = {}
  /\ arriving' = {}

Keep(answer) ==
  /\ memory' = answer.memory
  /\ receipt' = [named |-> body.version, start |-> body.start, version |-> answer.version]
  /\ Close

Receive ==
  /\ \E answer \in arriving \ {Refused} : Keep(answer)
  /\ UNCHANGED <<rulesetVars, tried, answers>>

\* Slip: an answer that has arrived stays after the attempt was given up.
Timeout_Late ==
  /\ waiting
  /\ waiting' = FALSE
  /\ UNCHANGED <<rulesetVars, memory, body, tried, pending, arriving, answers, receipt>>

\* No answer in time, or an error: the attempt is over, and what comes after it
\* is not read.
Timeout ==
  /\ waiting
  /\ waiting' = FALSE
  /\ arriving' = {}
  /\ UNCHANGED <<rulesetVars, memory, body, tried, pending, answers, receipt>>

Local == PriceRound(body, TRUE, known[Library])

BudgetSpent == body # NoBody /\ ~waiting /\ tried > 0

\* The round is priced in the caller's own process.  The budget of time may be
\* spent before the attempts are.
Fallback ==
  /\ BudgetSpent
  /\ \E answer \in {Local} \ {Refused} : Keep(answer) /\ answers' = answers \cup {answer}
  /\ UNCHANGED <<rulesetVars, tried>>

\* The library does not have the ruleset either: nothing priced the round.
Skip ==
  /\ BudgetSpent /\ Local = Refused
  /\ receipt' = NoReceipt
  /\ Close
  /\ UNCHANGED <<rulesetVars, memory, tried, answers>>

-----------------------------------------------------------------------------

\* Everybody has the rulesets in force at the beginning, announced in time.
Init ==
  /\ now = 0
  /\ published = Cardinality({v \in Versions : EffectiveFrom[v] = 0})
  /\ known = [p \in Processes |-> published]
  /\ memory \in [base : StartBases,
                  boost : {[applied |-> BMax, dir |-> 0, trail |-> Kept!NoTrail]},
                  ema : {Kept!NoEma}, row : {Kept!NoRow}]
  /\ body = NoBody /\ tried = 0
  /\ waiting = FALSE /\ pending = {} /\ arriving = {}
  /\ answers = {} /\ receipt = NoReceipt

\* What a caller does for a round that it has begun.
CallerStep ==
  \/ \E r \in Replicas : Send(r)
  \/ Receive \/ Timeout \/ Fallback \/ Skip

Next ==
  \/ Publish \/ Tick
  \/ \E p \in Processes : Install(p)
  \/ \E in \in Inputs, names \in Naming : Begin(in, names)
  \/ \E r \in Replicas : Serve(r) \/ TurnAway(r)
  \/ CallerStep

\* The timeout of a call, the number of attempts and the budget of the round are
\* the caller's own; nothing is assumed of the service.
Spec == Init /\ [][Next]_vars /\ WF_vars(CallerStep)

-----------------------------------------------------------------------------
(* Properties.                                                             *)

\* Types; attempts within their number, answers only to a caller that waits, and
\* receipts that name a ruleset that was published.
CallsTypeOK ==
  /\ now \in 0..MaxTime /\ published \in 0..Len(EffectiveFrom)
  /\ known \in [Processes -> 0..published]
  /\ Kept!TypeOK
  /\ tried \in 0..MaxAttempts
  /\ pending \subseteq (1..tried) \X Replicas
  /\ Cardinality(arriving) <= (IF waiting THEN 1 ELSE 0)
  /\ body = NoBody => ~waiting /\ pending = {}
  /\ receipt # NoReceipt => receipt.version \in 1..published

\* The caller's memory moves as PoolRounds says, one round at a time: however
\* often a round was sent, answered too late, or answered again, it moves by one
\* round or by one degraded round, and by a round that nobody priced not at all.
MemoryMovesByRounds == Kept!Init /\ [][memory' = memory \/ Kept!Next]_memory

Determined(version, start) == version # NoVersion \/ start # NoStart

\* The body of the round in progress, or of the last one.
BodyIsDetermined ==
  IF body = NoBody THEN Determined(receipt.named, receipt.start)
  ELSE Determined(body.version, body.start)

Degraded(answer) == answer.memory.row.degraded

\* The same body always prices the same, so a retry is safe: engine.py, app.py and
\* hashing.py say so of every body (that of a degraded round is another one).
SameBodySamePrice ==
  \A a, b \in answers : Degraded(a) = Degraded(b) => a = b

\* Every attempt at a round whose body names a ruleset or a start gets the same
\* prices under the same ruleset, and the degraded round falls under that ruleset
\* as well: whichever process answers, with whatever rulesets it has, before or
\* after another took effect.
RetriesAgree ==
  BodyIsDetermined => SameBodySamePrice /\ \A a, b \in answers : a.version = b.version

\* A receipt names the ruleset that the body named, or else the one in force when
\* the round began by all that is published, also by what has been published and
\* installed since ("A rule change never re-prices a cleared round").
ReceiptsStand ==
  LET v == receipt.version
      InForce(w) == EffectiveFrom[w] <= receipt.start
  IN Determined(receipt.named, receipt.start) =>
       IF receipt.named # NoVersion THEN v = receipt.named
       ELSE /\ InForce(v)
            /\ \A w \in 1..published : InForce(w) => ~Follows(w, v)

Priceable == body # NoBody /\ body.version <= known[Library]
Priced == body = NoBody /\ receipt # NoReceipt

\* A round that the caller has begun is priced in the end, without any help of
\* the service, unless it names a ruleset that the caller's library has not got.
EveryRoundIsPriced == Priceable ~> Priced
=============================================================================
