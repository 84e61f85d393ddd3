-------------------------- MODULE RoundCalls_proofs --------------------------
(***************************************************************************)
(* Proofs about a round that is called for until somebody prices it: the   *)
(* memory of the pool moves as PoolRounds says, retries agree and receipts *)
(* stand, for any number of replicas, attempts, rulesets and inputs.       *)
(***************************************************************************)
EXTENDS RoundCalls, CommonFacts

\* What is proved of the rounds of a pool, at the caller's memory.
Proved == INSTANCE PoolRounds_proofs
  WITH base <- memory.base, boost <- memory.boost, ema <- memory.ema, row <- memory.row

-----------------------------------------------------------------------------
(* Which ruleset is in force.                                              *)

\* Of the rulesets in force one is the latest, and it is chosen.
LEMMA LatestChosen ==
  ASSUME NEW n \in 0..Len(EffectiveFrom), NEW t \in Int, Effective(n, t) # {}
  PROVE  /\ ChooseActive(n, t) \in Effective(n, t)
         /\ \A w \in Effective(n, t) : ~Follows(w, ChooseActive(n, t))
<1> DEFINE S == Effective(n, t)
           later == [v \in S |-> {w \in S : Follows(w, v)}]
<1>1. S \subseteq 1..n /\ S \subseteq Versions
  BY RulesetAssumption DEF Effective, Versions
<1>2. \A v \in S : EffectiveFrom[v] \in Nat /\ v \in Int
  BY <1>1, RulesetAssumption DEF Versions
<1>3. IsFiniteSet(S) /\ Cardinality(S) \in Nat /\ Cardinality(S) # 0
  <2>1. IsFiniteSet(1..n)
    BY FS_Interval
  <2> QED
    BY <1>1, <2>1, FS_Subset, FS_CardinalityType, FS_EmptySet
<1> HIDE DEF S
<1>4. StrictOrderBy(S, later)
  <2>1. later \in [S -> SUBSET S]
    OBVIOUS
  <2>2. \A v \in S : ~Follows(v, v)
    BY <1>2 DEF Follows
  <2>3. \A v, w \in S : v = w \/ Follows(v, w) \/ Follows(w, v)
    BY <1>2 DEF Follows
  <2>4. \A u, v, w \in S : Follows(u, v) /\ Follows(v, w) => Follows(u, w)
    BY <1>2 DEF Follows
  <2> QED
    BY <2>1, <2>2, <2>3, <2>4 DEF StrictOrderBy
<1>5. PICK v \in S : later[v] = {}
  <2> HIDE DEF later
  <2> QED
    BY <1>3, <1>4, FS_EmptySet, FirstOf
<1>6. \E u \in S : \A w \in S : ~Follows(w, u)
  BY <1>5
<1> QED
  BY <1>6 DEF ChooseActive, S

\* Whoever knows what is in force at a time chooses the same ruleset for it.
LEMMA SameChoice ==
  ASSUME NEW n, NEW k, NEW t, Effective(n, t) = Effective(k, t)
  PROVE  ChooseActive(n, t) = ChooseActive(k, t)
  BY DEF ChooseActive

LEMMA ChosenIsKnown ==
  ASSUME NEW n \in 0..Len(EffectiveFrom), NEW t \in Int
  PROVE  ChooseActive(n, t) \in 0..n
<1>1. CASE Effective(n, t) = {}
  BY <1>1, RulesetAssumption DEF ChooseActive, NoVersion
<1>2. CASE Effective(n, t) # {}
  BY <1>2, LatestChosen, RulesetAssumption DEF Effective
<1> QED
  BY <1>1, <1>2

-----------------------------------------------------------------------------
(* The rounds of the pool.  Pool(m) names the pool of a body, Kept the one *)
(* of the caller and Proved the one of the proofs: they compute the same.  *)

LEMMA SameReserve ==
  ASSUME NEW q, NEW b
  PROVE  /\ Pool(memory)!Reserve(q, b) = Kept!Reserve(q, b)
         /\ Kept!Reserve(q, b) = Proved!Reserve(q, b)
<1>1. Pool(memory)!Reserve(q, b) = Kept!Reserve(q, b)
  BY DEF Kept!Reserve, Pool!Reserve, Kept!FloorReserve, Pool!FloorReserve,
         Kept!Ceil, Pool!Ceil, Kept!CheapestBox, Pool!CheapestBox
<1>2. Kept!Reserve(q, b) = Proved!Reserve(q, b)
  BY DEF Kept!Reserve, Proved!Reserve, Kept!FloorReserve, Proved!FloorReserve,
         Kept!Ceil, Proved!Ceil, Kept!CheapestBox, Proved!CheapestBox
<1> QED
  BY <1>1, <1>2

LEMMA SameStepped ==
  ASSUME NEW in
  PROVE  /\ Pool(memory)!Stepped(in) = Kept!Stepped(in)
         /\ Kept!Stepped(in) = Proved!Stepped(in)
<1>1. Pool(memory)!Stepped(in) = Kept!Stepped(in)
  BY DEF Kept!Stepped, Pool!Stepped, Kept!Thin, Pool!Thin, Kept!Faded, Pool!Faded,
         Kept!Direction, Pool!Direction, Kept!NoTrail, Pool!NoTrail
<1>2. Kept!Stepped(in) = Proved!Stepped(in)
  BY DEF Kept!Stepped, Proved!Stepped, Kept!Thin, Proved!Thin, Kept!Faded, Proved!Faded,
         Kept!Direction, Proved!Direction, Kept!NoTrail, Proved!NoTrail
<1> QED
  BY <1>1, <1>2

LEMMA SameRow ==
  ASSUME NEW in, NEW reserve, NEW degraded
  PROVE  /\ Pool(memory)!Row(in, reserve, degraded) = Kept!Row(in, reserve, degraded)
         /\ Kept!Row(in, reserve, degraded) = Proved!Row(in, reserve, degraded)
<1>1. Pool(memory)!Row(in, reserve, degraded) = Kept!Row(in, reserve, degraded)
  BY DEF Kept!Row, Pool!Row, Kept!Posted, Pool!Posted, Kept!Thin, Pool!Thin,
         Kept!AtLeast, Pool!AtLeast, Kept!CorridorCap, Pool!CorridorCap,
         Kept!HalfEven, Pool!HalfEven, Kept!SupplyAt, Pool!SupplyAt,
         Kept!NoMedian, Pool!NoMedian, Kept!Cardinality, Pool!Cardinality
<1>2. Kept!Row(in, reserve, degraded) = Proved!Row(in, reserve, degraded)
  BY DEF Kept!Row, Proved!Row, Kept!Posted, Proved!Posted, Kept!Thin, Proved!Thin,
         Kept!AtLeast, Proved!AtLeast, Kept!CorridorCap, Proved!CorridorCap,
         Kept!HalfEven, Proved!HalfEven, Kept!SupplyAt, Proved!SupplyAt,
         Kept!NoMedian, Proved!NoMedian, Kept!Cardinality, Proved!Cardinality
<1> QED
  BY <1>1, <1>2

LEMMA SameBase ==
  ASSUME NEW in, NEW posted, NEW reserve, NEW cap, NEW supply
  PROVE  /\ Pool(memory)!UpdateBase(in, posted, reserve, cap, supply)
              = Kept!UpdateBase(in, posted, reserve, cap, supply)
         /\ Kept!UpdateBase(in, posted, reserve, cap, supply)
              = Proved!UpdateBase(in, posted, reserve, cap, supply)
<1>1. Pool(memory)!UpdateBase(in, posted, reserve, cap, supply)
        = Kept!UpdateBase(in, posted, reserve, cap, supply)
  BY DEF Kept!UpdateBase, Pool!UpdateBase, Kept!Thin, Pool!Thin, Kept!AtLeast, Pool!AtLeast,
         Kept!StepBase, Pool!StepBase, Kept!Clamp, Pool!Clamp, Kept!HalfEven, Pool!HalfEven
<1>2. Kept!UpdateBase(in, posted, reserve, cap, supply)
        = Proved!UpdateBase(in, posted, reserve, cap, supply)
  BY DEF Kept!UpdateBase, Proved!UpdateBase, Kept!Thin, Proved!Thin,
         Kept!AtLeast, Proved!AtLeast, Kept!StepBase, Proved!StepBase,
         Kept!Clamp, Proved!Clamp, Kept!HalfEven, Proved!HalfEven
<1> QED
  BY <1>1, <1>2

LEMMA SameBoost ==
  ASSUME NEW in
  PROVE  /\ Pool(memory)!StepBoost(in) = Kept!StepBoost(in)
         /\ Kept!StepBoost(in) = Proved!StepBoost(in)
<1>1. Pool(memory)!StepBoost(in) = Kept!StepBoost(in)
  BY SameStepped
  DEF Kept!StepBoost, Pool!StepBoost, Kept!HalfEven, Pool!HalfEven,
      Kept!Direction, Pool!Direction, Kept!NoTrail, Pool!NoTrail
<1>2. Kept!StepBoost(in) = Proved!StepBoost(in)
  BY SameStepped
  DEF Kept!StepBoost, Proved!StepBoost, Kept!HalfEven, Proved!HalfEven,
      Kept!Direction, Proved!Direction, Kept!NoTrail, Proved!NoTrail
<1> QED
  BY <1>1, <1>2

LEMMA SameEma ==
  /\ Pool(memory)!Lagged = Kept!Lagged /\ Kept!Lagged = Proved!Lagged
  /\ \A posted : /\ Pool(memory)!UpdateEma(posted) = Kept!UpdateEma(posted)
                  /\ Kept!UpdateEma(posted) = Proved!UpdateEma(posted)
  BY DEF Kept!Lagged, Pool!Lagged, Proved!Lagged, Kept!NoEma, Pool!NoEma, Proved!NoEma,
         Kept!UpdateEma, Pool!UpdateEma, Proved!UpdateEma,
         Kept!HalfEven, Pool!HalfEven, Proved!HalfEven

\* A full round moves the memory by a round of the pool.
LEMMA FullRoundMoves ==
  ASSUME NEW in, memory' = FullRound(memory, in)
  PROVE  Kept!Round(in) /\ Proved!Round(in)
<1> DEFINE row == Pool(memory)!Row(in, Pool(memory)!Reserve(in.quote, Pool(memory)!Stepped(in)), FALSE)
<1>1. /\ memory'.row = row
      /\ memory'.base = Pool(memory)!UpdateBase(in, row.posted, row.reserve, row.cap, row.supply)
      /\ memory'.boost = Pool(memory)!StepBoost(in)
      /\ memory'.ema = Pool(memory)!UpdateEma(row.posted)
  BY DEF FullRound
<1>2. /\ row = Kept!Row(in, Kept!Reserve(in.quote, Kept!Stepped(in)), FALSE)
      /\ row = Proved!Row(in, Proved!Reserve(in.quote, Proved!Stepped(in)), FALSE)
  <2> DEFINE reserve == Pool(memory)!Reserve(in.quote, Pool(memory)!Stepped(in))
  <2>1. /\ reserve = Kept!Reserve(in.quote, Kept!Stepped(in))
        /\ reserve = Proved!Reserve(in.quote, Proved!Stepped(in))
    BY SameReserve, SameStepped, Zenon
  <2>2. row = Pool(memory)!Row(in, reserve, FALSE)
    OBVIOUS
  <2> HIDE DEF reserve, row
  <2>3. row = Kept!Row(in, reserve, FALSE) /\ row = Proved!Row(in, reserve, FALSE)
    BY <2>2, SameRow, Zenon
  <2> QED
    BY <2>1, <2>3, Zenon
<1> HIDE DEF row
<1>3. /\ memory'.base = Kept!UpdateBase(in, row.posted, row.reserve, row.cap, row.supply)
      /\ memory'.base = Proved!UpdateBase(in, row.posted, row.reserve, row.cap, row.supply)
  BY <1>1, SameBase
<1>4. memory'.boost = Kept!StepBoost(in) /\ memory'.boost = Proved!StepBoost(in)
  BY <1>1, SameBoost
<1>5. memory'.ema = Kept!UpdateEma(row.posted) /\ memory'.ema = Proved!UpdateEma(row.posted)
  BY <1>1, SameEma
<1>6. Kept!Round(in)
  BY <1>1, <1>2, <1>3, <1>4, <1>5 DEF Kept!Round
<1>7. Proved!Round(in)
  BY <1>1, <1>2, <1>3, <1>4, <1>5 DEF Proved!Round
<1> QED
  BY <1>6, <1>7

\* And a held round by a degraded one.
LEMMA HeldRoundMoves ==
  ASSUME NEW in, memory' = HeldRound(memory, in)
  PROVE  Kept!DegradedRound(in) /\ Proved!DegradedRound(in)
<1> DEFINE row == Pool(memory)!Row(in, Pool(memory)!Reserve(in.quote, Pool(memory)!Held), TRUE)
<1>1. /\ memory'.row = row
      /\ memory'.base = row.posted
      /\ memory'.boost = memory.boost
      /\ memory'.ema = Pool(memory)!Lagged
  BY DEF HeldRound
<1>2. Pool(memory)!Held = Kept!Held /\ Kept!Held = Proved!Held
  BY DEF Pool!Held, Kept!Held, Proved!Held
<1>3. /\ row = Kept!Row(in, Kept!Reserve(in.quote, Kept!Held), TRUE)
      /\ row = Proved!Row(in, Proved!Reserve(in.quote, Proved!Held), TRUE)
  <2> DEFINE reserve == Pool(memory)!Reserve(in.quote, Pool(memory)!Held)
  <2>1. /\ reserve = Kept!Reserve(in.quote, Kept!Held)
        /\ reserve = Proved!Reserve(in.quote, Proved!Held)
    BY <1>2, SameReserve, Zenon
  <2>2. row = Pool(memory)!Row(in, reserve, TRUE)
    OBVIOUS
  <2> HIDE DEF reserve, row
  <2>3. row = Kept!Row(in, reserve, TRUE) /\ row = Proved!Row(in, reserve, TRUE)
    BY <2>2, SameRow, Zenon
  <2> QED
    BY <2>1, <2>3, Zenon
<1> HIDE DEF row
<1>4. Kept!DegradedRound(in)
  BY <1>1, <1>3, SameEma DEF Kept!DegradedRound
<1>5. Proved!DegradedRound(in)
  BY <1>1, <1>3, SameEma DEF Proved!DegradedRound
<1> QED
  BY <1>4, <1>5

LEMMA FullIsNotHeld ==
  ASSUME NEW m, NEW in
  PROVE  FullRound(m, in).row.degraded = FALSE /\ HeldRound(m, in).row.degraded = TRUE
  BY DEF FullRound, HeldRound, Pool!Row

\* What PoolRounds assumes of its constants holds wherever it is used.
LEMMA ProvedAssumption ==
  Proved!PoolAssumption
<1>1. Kept!Quote = Proved!Quote
  BY DEF Kept!Quote, Proved!Quote, Kept!RequestQuote, Proved!RequestQuote,
         Kept!FloorQuote, Proved!FloorQuote, Kept!TierQuote, Proved!TierQuote,
         Kept!IsFiniteSet, Proved!IsFiniteSet
<1>2. Kept!Input = Proved!Input
  BY <1>1 DEF Kept!Input, Proved!Input, Kept!NoMedian, Proved!NoMedian
<1> QED
  BY <1>2, PoolsAssumption

LEMMA SameTypes ==
  Kept!TypeOK <=> Proved!TypeOK
<1>1. Kept!Quote = Proved!Quote
  BY DEF Kept!Quote, Proved!Quote, Kept!RequestQuote, Proved!RequestQuote,
         Kept!FloorQuote, Proved!FloorQuote, Kept!TierQuote, Proved!TierQuote,
         Kept!IsFiniteSet, Proved!IsFiniteSet
<1>2. Kept!Input = Proved!Input
  BY <1>1 DEF Kept!Input, Proved!Input, Kept!NoMedian, Proved!NoMedian
<1> QED
  BY <1>2 DEF Kept!TypeOK, Proved!TypeOK, Kept!BoostState, Proved!BoostState,
              Kept!PoolRow, Proved!PoolRow, Kept!NoTrail, Proved!NoTrail,
              Kept!NoEma, Proved!NoEma

\* A move of the memory by a round of the pool, as PoolRounds states it.
LEMMA RoundMoves ==
  ASSUME NEW in \in Inputs, memory' \in {FullRound(memory, in), HeldRound(memory, in)}
  PROVE  Kept!Next /\ (Kept!TypeOK => Kept!TypeOK')
<1>1. Kept!Next /\ Proved!Next
  BY FullRoundMoves, HeldRoundMoves DEF Kept!Next, Proved!Next
<1>2. Proved!TypeOK => Proved!TypeOK'
  BY <1>1, ProvedAssumption, Proved!NextType
<1>3. (Kept!TypeOK <=> Proved!TypeOK) /\ (Kept!TypeOK' <=> Proved!TypeOK')
  BY SameTypes, PTL
<1> QED
  BY <1>1, <1>2, <1>3

-----------------------------------------------------------------------------
(* The inductive invariant.                                                *)

Bodies ==
  [in : Inputs, memory : {memory}, version : 0..published, start : {NoStart} \cup 0..now]

Receipts ==
  [named : 0..published, start : {NoStart} \cup 0..now, version : 1..published]

CallsTypes ==
  /\ now \in 0..MaxTime /\ published \in 0..Len(EffectiveFrom)
  /\ known \in [Processes -> 0..published]
  /\ Kept!TypeOK
  /\ body \in {NoBody} \cup Bodies
  /\ tried \in 0..MaxAttempts
  /\ waiting \in BOOLEAN
  /\ pending \subseteq (1..tried) \X Replicas
  /\ receipt \in {NoReceipt} \cup Receipts

\* Requests are under way for a round only, and what arrives is one answer, to a
\* caller that waits for it.
Wired ==
  /\ body = NoBody => ~waiting /\ pending = {}
  /\ arriving # {} => waiting /\ \E a \in answers \cup {Refused} : arriving = {a}

\* What a round may be answered.
AnswersOf(m, in) ==
  [version : 1..published, memory : {FullRound(m, in), HeldRound(m, in)}]

\* Every answer is one to the round in progress, and of full answers, and of
\* degraded ones, there is one price.
OneRound ==
  /\ body # NoBody => answers \subseteq AnswersOf(memory, body.in)
  /\ \A a \in answers : a = [version |-> a.version, memory |-> a.memory]
  /\ \A a, b \in answers : Degraded(a) = Degraded(b) => a.memory = b.memory

CallsInv == CallsTypes /\ Wired /\ OneRound

LEMMA InitCalls ==
  Init => CallsInv
<1> SUFFICES ASSUME Init PROVE CallsInv
  OBVIOUS
<1>1. published \in 0..Len(EffectiveFrom)
  <2>1. Versions = 1..Len(EffectiveFrom) /\ Len(EffectiveFrom) \in Nat
    BY RulesetAssumption DEF Versions
  <2>2. IsFiniteSet(Versions) /\ Cardinality(Versions) = Len(EffectiveFrom)
    <3> DEFINE len == Len(EffectiveFrom)
    <3>1. len \in Nat /\ Versions = 1..len
      BY <2>1
    <3> HIDE DEF len
    <3>2. IsFiniteSet(1..len) /\ Cardinality(1..len) = IF 1 > len THEN 0 ELSE len - 1 + 1
      BY <3>1, FS_Interval
    <3>3. Cardinality(1..len) = len
      BY <3>1, <3>2
    <3> QED
      BY <3>1, <3>2, <3>3 DEF len
  <2> DEFINE atFirst == {v \in Versions : EffectiveFrom[v] = 0}
  <2>3. atFirst \subseteq Versions /\ published = Cardinality(atFirst)
    BY DEF Init
  <2> HIDE DEF atFirst
  <2>4. IsFiniteSet(atFirst) /\ Cardinality(atFirst) <= Cardinality(Versions)
    BY <2>2, <2>3, FS_Subset
  <2> QED
    BY <2>1, <2>2, <2>3, <2>4, FS_CardinalityType
<1>2. Proved!Init /\ Proved!TypeOK
  <2>1. Proved!Init
    BY DEF Init, Proved!Init, Kept!NoTrail, Proved!NoTrail, Kept!NoEma, Proved!NoEma,
           Kept!NoRow, Proved!NoRow, Kept!NoMedian, Proved!NoMedian
  <2> QED
    BY <2>1, ProvedAssumption, Proved!InitType
<1>3. Kept!TypeOK
  BY <1>2, SameTypes
<1>4. CallsTypes
  <2>1. now \in 0..MaxTime /\ tried \in 0..MaxAttempts
    <3>1. now = 0 /\ tried = 0
      BY DEF Init
    <3>2. MaxTime \in Nat /\ MaxAttempts \in Nat
      BY CallsAssumption
    <3> QED
      BY <3>1, <3>2
  <2>2. known \in [Processes -> 0..published]
    <3>1. published \in 0..published
      BY <1>1, RulesetAssumption
    <3> QED
      BY <3>1 DEF Init
  <2> QED
    BY <1>1, <1>3, <2>1, <2>2 DEF Init, CallsTypes
<1> QED
  BY <1>4 DEF Init, CallsInv, Wired, OneRound

\* What a process answers, unless it refuses.
LEMMA PriceIs ==
  ASSUME CallsInv, body # NoBody, NEW p \in Processes, NEW degraded \in BOOLEAN,
         PriceRound(body, degraded, known[p]) # Refused
  PROVE  /\ PriceRound(body, degraded, known[p])
              = [version |-> RulesFor(body, known[p], now),
                 memory |-> IF degraded THEN HeldRound(memory, body.in)
                            ELSE FullRound(memory, body.in)]
         /\ RulesFor(body, known[p], now) \in 1..published
<1> DEFINE version == RulesFor(body, known[p], now)
<1>1. body.memory = memory /\ body.version \in 0..published /\ body.start \in {NoStart} \cup 0..now
  BY DEF CallsInv, CallsTypes, Bodies
<1>2. known[p] \in 0..published /\ published \in 0..Len(EffectiveFrom) /\ now \in Nat
  BY DEF CallsInv, CallsTypes
<1>3. Len(EffectiveFrom) \in Nat
  BY RulesetAssumption
<1>4. version # NoVersion
  BY DEF PriceRound
<1>5. AsOf(body, now) \in Int
  BY <1>1, <1>2 DEF AsOf, NoStart
<1>6. ChooseActive(known[p], AsOf(body, now)) \in 0..known[p]
  <2>1. known[p] \in 0..Len(EffectiveFrom)
    BY <1>2, <1>3
  <2> QED
    BY <1>5, <2>1, ChosenIsKnown
<1>7. version \in 1..published
  BY <1>1, <1>2, <1>3, <1>4, <1>6 DEF RulesFor, LoadRuleset, NoVersion
<1> QED
  BY <1>1, <1>4, <1>7 DEF PriceRound

LEMMA SameMemory ==
  ASSUME Kept!TypeOK, memory' = memory
  PROVE  Kept!TypeOK'
  BY DEF Kept!TypeOK

\* Rulesets are only added, and time does not go back.
LEMMA SameRound ==
  ASSUME CallsInv, UNCHANGED <<memory, body, answers>>,
         published' \in published..Len(EffectiveFrom), now' \in now..MaxTime
  PROVE  /\ OneRound'
         /\ body' \in ({NoBody} \cup Bodies)'
         /\ receipt' = receipt => receipt' \in ({NoReceipt} \cup Receipts)'
         /\ Kept!TypeOK'
<1>1. /\ published \in Nat /\ published' \in Nat /\ published <= published'
      /\ now \in Nat /\ now' \in Nat /\ now <= now'
  BY RulesetAssumption, CallsAssumption DEF CallsInv, CallsTypes
<1>2. /\ 0..published \subseteq 0..published' /\ 1..published \subseteq 1..published'
      /\ 0..now \subseteq 0..now'
  BY <1>1
<1>3. OneRound'
  BY <1>2 DEF CallsInv, OneRound, AnswersOf, Degraded
<1>4. body' \in ({NoBody} \cup Bodies)'
  BY <1>2 DEF CallsInv, CallsTypes, Bodies
<1>5. receipt' = receipt => receipt' \in ({NoReceipt} \cup Receipts)'
  BY <1>2 DEF CallsInv, CallsTypes, Receipts
<1> QED
  BY <1>3, <1>4, <1>5, SameMemory DEF CallsInv, CallsTypes

LEMMA Bounds ==
  ASSUME CallsInv
  PROVE  /\ published \in published..Len(EffectiveFrom) /\ now \in now..MaxTime
         /\ published \in Nat /\ now \in Nat /\ tried \in Nat
         /\ Len(EffectiveFrom) \in Nat /\ MaxTime \in Nat /\ MaxAttempts \in Nat
  BY RulesetAssumption, CallsAssumption DEF CallsInv, CallsTypes

LEMMA SendKeeps ==
  ASSUME CallsInv, NEW r \in Replicas, Send(r)
  PROVE  CallsInv'
<1>1. UNCHANGED <<now, published, known, memory, body, arriving, answers, receipt>>
  BY DEF Send, rulesetVars
<1>2. CallsTypes'
  <2>1. tried' = tried + 1 /\ tried < MaxAttempts
    BY DEF Send
  <2>2. tried' \in 0..MaxAttempts /\ (1..tried) \subseteq 1..tried' /\ tried' \in 1..tried'
    BY <2>1, Bounds
  <2>3. pending' \subseteq (1..tried') \X Replicas
    BY <2>1, <2>2 DEF CallsInv, CallsTypes, Send
  <2> QED
    BY <1>1, <2>2, <2>3, Bounds, SameRound DEF CallsInv, CallsTypes, Send
<1>3. Wired'
  BY <1>1 DEF CallsInv, Wired, Send
<1> QED
  BY <1>1, <1>2, <1>3, Bounds, SameRound DEF CallsInv

LEMMA TimeoutKeeps ==
  ASSUME CallsInv, Timeout
  PROVE  CallsInv'
<1>1. /\ UNCHANGED <<now, published, known, memory, body, tried, pending, answers, receipt>>
      /\ waiting' = FALSE /\ arriving' = {}
  BY DEF Timeout, rulesetVars
<1>2. CallsTypes'
  BY <1>1, Bounds, SameRound DEF CallsInv, CallsTypes
<1>3. Wired'
  BY <1>1 DEF CallsInv, Wired
<1> QED
  BY <1>1, <1>2, <1>3, Bounds, SameRound DEF CallsInv

LEMMA TurnAwayKeeps ==
  ASSUME CallsInv, NEW r \in Replicas, TurnAway(r)
  PROVE  CallsInv'
<1>1. PICK n \in 1..MaxAttempts :
        /\ <<n, r>> \in pending
        /\ pending' = pending \ {<<n, r>>}
        /\ Arrives(n, Refused)
        /\ UNCHANGED <<rulesetVars, memory, body, tried, waiting, answers, receipt>>
  BY DEF TurnAway
<1>2. UNCHANGED <<now, published, known, memory, body, tried, waiting, answers, receipt>>
  BY <1>1 DEF rulesetVars
<1>3. CallsTypes'
  BY <1>1, <1>2, Bounds, SameRound DEF CallsInv, CallsTypes
<1>4. Wired'
  BY <1>1, <1>2 DEF CallsInv, Wired, Arrives
<1> QED
  BY <1>2, <1>3, <1>4, Bounds, SameRound DEF CallsInv

LEMMA ClockKeeps ==
  ASSUME CallsInv, Publish \/ Tick \/ \E p \in Processes : Install(p)
  PROVE  CallsInv'
<1>1. UNCHANGED <<memory, body, tried, waiting, pending, arriving, answers, receipt>>
  BY DEF Publish, Tick, Install, wire
<1>2. /\ published' \in published..Len(EffectiveFrom) /\ now' \in now..MaxTime
      /\ known' \in [Processes -> 0..published']
  <2>1. known \in [Processes -> 0..published]
    BY DEF CallsInv, CallsTypes
  <2>2. CASE Publish
    <3>1. 0..published \subseteq 0..(published + 1)
      BY Bounds
    <3> QED
      BY <2>1, <2>2, <3>1, Bounds DEF Publish
  <2>3. CASE Tick
    BY <2>1, <2>3, Bounds DEF Tick
  <2>4. ASSUME NEW p \in Processes, Install(p)
        PROVE  /\ published' = published /\ now' = now
               /\ known' \in [Processes -> 0..published]
    BY <2>1, <2>4, Bounds DEF Install
  <2> QED
    BY <2>2, <2>3, <2>4, Bounds
<1>3. CallsTypes'
  <2>1. published' \in 0..Len(EffectiveFrom) /\ now' \in 0..MaxTime
    BY <1>2, Bounds
  <2> QED
    BY <1>1, <1>2, <2>1, SameRound DEF CallsInv, CallsTypes
<1>4. Wired'
  BY <1>1 DEF CallsInv, Wired
<1> QED
  BY <1>1, <1>2, <1>3, <1>4, SameRound DEF CallsInv

LEMMA BeginKeeps ==
  ASSUME CallsInv, NEW in \in Inputs, NEW names \in Naming, Begin(in, names)
  PROVE  CallsInv'
<1>1. /\ UNCHANGED <<now, published, known, memory, waiting, pending, arriving, receipt>>
      /\ body = NoBody /\ tried' = 0 /\ answers' = {}
  BY DEF Begin, rulesetVars, wire
<1>2. body' \in Bodies
  <2>1. PICK v \in IF "version" \in names THEN 1..published ELSE {NoVersion} :
          body' = [in |-> in, memory |-> memory, version |-> v,
                   start |-> IF "start" \in names THEN now ELSE NoStart]
    BY DEF Begin
  <2>2. v \in 0..published
    BY Bounds DEF NoVersion
  <2>3. now \in 0..now
    BY Bounds
  <2> QED
    BY <2>1, <2>2, <2>3 DEF Bodies
<1>3. body' \in Bodies'
  BY <1>1, <1>2 DEF Bodies
<1>4. ~waiting /\ pending = {} /\ arriving = {}
  BY <1>1 DEF CallsInv, Wired
<1>5. CallsTypes'
  <2>1. 0 \in 0..MaxAttempts
    BY Bounds
  <2> QED
    BY <1>1, <1>3, <1>4, <2>1, SameMemory DEF CallsInv, CallsTypes, Receipts
<1>6. Wired' /\ OneRound'
  BY <1>1, <1>4 DEF Wired, OneRound
<1> QED
  BY <1>5, <1>6 DEF CallsInv

\* The answers to one body are two at most, a full one and a degraded one, but
\* for the ruleset they name.
LEMMA AnswersAgree ==
  ASSUME NEW m, NEW in, NEW S, S \subseteq AnswersOf(m, in)
  PROVE  /\ \A a \in S : a = [version |-> a.version, memory |-> a.memory]
         /\ \A a, b \in S : Degraded(a) = Degraded(b) => a.memory = b.memory
<1>1. \A a \in S : /\ a = [version |-> a.version, memory |-> a.memory]
                  /\ a.memory \in {FullRound(m, in), HeldRound(m, in)}
  BY DEF AnswersOf
<1>2. \A a \in S : a.memory = IF Degraded(a) THEN HeldRound(m, in) ELSE FullRound(m, in)
  BY <1>1, FullIsNotHeld DEF Degraded
<1> QED
  BY <1>1, <1>2

LEMMA PricedAnswer ==
  ASSUME CallsInv, body # NoBody, NEW p \in Processes, NEW degraded \in BOOLEAN,
         PriceRound(body, degraded, known[p]) # Refused
  PROVE  PriceRound(body, degraded, known[p]) \in AnswersOf(memory, body.in)
<1>1. \E v \in 1..published, m \in {FullRound(memory, body.in), HeldRound(memory, body.in)} :
        PriceRound(body, degraded, known[p]) = [version |-> v, memory |-> m]
  BY PriceIs
<1> QED
  BY <1>1 DEF AnswersOf

LEMMA ServeKeeps ==
  ASSUME CallsInv, NEW r \in Replicas, Serve(r)
  PROVE  CallsInv'
<1> DEFINE answer == PriceRound(body, FALSE, known[r])
<1>1. PICK n \in 1..MaxAttempts :
        /\ <<n, r>> \in pending
        /\ pending' = pending \ {<<n, r>>}
        /\ Arrives(n, answer) /\ answers' = answers \cup ({answer} \ {Refused})
        /\ UNCHANGED <<rulesetVars, memory, body, tried, waiting, receipt>>
  BY DEF Serve
<1>2. UNCHANGED <<now, published, known, memory, body, tried, waiting, receipt>>
  BY <1>1 DEF rulesetVars
<1>3. body # NoBody
  BY <1>1 DEF CallsInv, Wired
<1>4. answer # Refused => answer \in AnswersOf(memory, body.in)
  BY <1>3, PricedAnswer DEF Processes
<1> HIDE DEF answer
<1>5. answers' \subseteq AnswersOf(memory, body.in)
  BY <1>1, <1>3, <1>4 DEF CallsInv, OneRound
<1>6. OneRound'
  <2>1. (body # NoBody => answers \subseteq AnswersOf(memory, body.in))'
    BY <1>2, <1>5 DEF AnswersOf
  <2>2. /\ \A a \in answers' : a = [version |-> a.version, memory |-> a.memory]
        /\ \A a, b \in answers' : Degraded(a) = Degraded(b) => a.memory = b.memory
    BY <1>5, AnswersAgree
  <2> QED
    BY <2>1, <2>2 DEF OneRound, Degraded
<1>7. CallsTypes'
  BY <1>1, <1>2, SameMemory DEF CallsInv, CallsTypes, Bodies, Receipts
<1>8. Wired'
  BY <1>1, <1>2 DEF CallsInv, Wired, Arrives
<1> QED
  BY <1>6, <1>7, <1>8 DEF CallsInv

\* Keeping an answer to the round moves the memory by a round.
LEMMA KeepKeeps ==
  ASSUME CallsInv, body # NoBody, UNCHANGED <<rulesetVars, tried>>,
         answers' \subseteq AnswersOf(memory, body.in),
         NEW answer \in answers', Keep(answer)
  PROVE  CallsInv' /\ Kept!Next
<1>1. /\ UNCHANGED <<now, published, known, tried>>
      /\ body' = NoBody /\ waiting' = FALSE /\ pending' = {} /\ arriving' = {}
      /\ memory' = answer.memory
      /\ receipt' = [named |-> body.version, start |-> body.start, version |-> answer.version]
  BY DEF Keep, Close, rulesetVars
<1>2. /\ body.in \in Inputs /\ body.version \in 0..published
      /\ body.start \in {NoStart} \cup 0..now
  BY DEF CallsInv, CallsTypes, Bodies
<1>3. /\ memory' \in {FullRound(memory, body.in), HeldRound(memory, body.in)}
      /\ answer.version \in 1..published
  BY <1>1 DEF AnswersOf
<1>4. Kept!Next /\ Kept!TypeOK'
  BY <1>2, <1>3, RoundMoves DEF CallsInv, CallsTypes
<1>5. receipt' \in Receipts'
  BY <1>1, <1>2, <1>3 DEF Receipts
<1>6. CallsTypes'
  BY <1>1, <1>4, <1>5 DEF CallsInv, CallsTypes
<1>7. OneRound'
  <2>1. /\ \A a \in answers' : a = [version |-> a.version, memory |-> a.memory]
        /\ \A a, b \in answers' : Degraded(a) = Degraded(b) => a.memory = b.memory
    BY AnswersAgree
  <2> QED
    BY <1>1, <2>1 DEF OneRound, Degraded
<1>8. Wired'
  BY <1>1 DEF Wired
<1> QED
  BY <1>4, <1>6, <1>7, <1>8 DEF CallsInv

LEMMA ReceiveKeeps ==
  ASSUME CallsInv, Receive
  PROVE  CallsInv' /\ Kept!Next
<1>1. PICK answer \in arriving \ {Refused} : Keep(answer)
  BY DEF Receive
<1>2. UNCHANGED <<rulesetVars, tried, answers>>
  BY DEF Receive
<1>3. answer \in answers /\ waiting
  BY <1>1 DEF CallsInv, Wired
<1>4. body # NoBody
  BY <1>3 DEF CallsInv, Wired
<1>5. answers' \subseteq AnswersOf(memory, body.in)
  BY <1>2, <1>4 DEF CallsInv, OneRound
<1> QED
  BY <1>1, <1>2, <1>3, <1>4, <1>5, KeepKeeps

LEMMA FallbackKeeps ==
  ASSUME CallsInv, Fallback
  PROVE  CallsInv' /\ Kept!Next
<1>1. Local # Refused /\ Keep(Local) /\ answers' = answers \cup {Local}
  BY DEF Fallback
<1>2. UNCHANGED <<rulesetVars, tried>> /\ body # NoBody
  BY DEF Fallback, BudgetSpent
<1>3. Local \in AnswersOf(memory, body.in)
  BY <1>1, <1>2, PricedAnswer DEF Local, Processes
<1>4. answers' \subseteq AnswersOf(memory, body.in)
  BY <1>1, <1>2, <1>3 DEF CallsInv, OneRound
<1> QED
  BY <1>1, <1>2, <1>4, KeepKeeps

LEMMA SkipKeeps ==
  ASSUME CallsInv, Skip
  PROVE  CallsInv'
<1>1. /\ UNCHANGED <<now, published, known, memory, tried, answers>>
      /\ body' = NoBody /\ waiting' = FALSE /\ pending' = {} /\ arriving' = {}
      /\ receipt' = NoReceipt
  BY DEF Skip, Close, rulesetVars
<1>2. CallsTypes'
  BY <1>1, SameMemory DEF CallsInv, CallsTypes
<1>3. Wired' /\ OneRound'
  BY <1>1 DEF CallsInv, Wired, OneRound, Degraded
<1> QED
  BY <1>2, <1>3 DEF CallsInv

LEMMA NextCalls ==
  CallsInv /\ [Next]_vars => CallsInv' /\ (memory' = memory \/ Kept!Next)
<1> SUFFICES ASSUME CallsInv, [Next]_vars
             PROVE  CallsInv' /\ (memory' = memory \/ Kept!Next)
  OBVIOUS
<1>1. CASE Publish \/ Tick \/ \E p \in Processes : Install(p)
  BY <1>1, ClockKeeps DEF Publish, Tick, Install
<1>2. ASSUME NEW in \in Inputs, NEW names \in Naming, Begin(in, names)
      PROVE  CallsInv' /\ memory' = memory
  BY <1>2, BeginKeeps DEF Begin
<1>3. ASSUME NEW r \in Replicas, Send(r) \/ Serve(r) \/ TurnAway(r)
      PROVE  CallsInv' /\ memory' = memory
  BY <1>3, SendKeeps, ServeKeeps, TurnAwayKeeps DEF Send, Serve, TurnAway
<1>4. CASE Receive \/ Fallback
  BY <1>4, ReceiveKeeps, FallbackKeeps
<1>5. CASE Timeout \/ Skip
  BY <1>5, TimeoutKeeps, SkipKeeps DEF Timeout, Skip
<1>6. CASE UNCHANGED vars
  <2>1. UNCHANGED <<now, published, known, memory, body, tried, waiting, pending, arriving,
                    answers, receipt>>
    BY <1>6 DEF vars
  <2>2. CallsTypes'
    BY <2>1, SameMemory DEF CallsInv, CallsTypes, Bodies, Receipts
  <2>3. Wired'
    BY <2>1 DEF CallsInv, Wired
  <2>4. OneRound'
    BY <2>1, Bounds, SameRound
  <2> QED
    BY <2>1, <2>2, <2>3, <2>4 DEF CallsInv
<1> QED
  BY <1>1, <1>2, <1>3, <1>4, <1>5, <1>6 DEF Next, CallerStep

LEMMA CallsInductive ==
  Spec => []CallsInv
  BY InitCalls, NextCalls, PTL DEF Spec

\* Types, attempts within their number, one answer at a time, and receipts of
\* rulesets that were published: however many rounds, attempts and processes.
THEOREM CallsTypeCorrect == Spec => []CallsTypeOK
<1>1. CallsInv => CallsTypeOK
  <2> SUFFICES ASSUME CallsInv PROVE CallsTypeOK
    OBVIOUS
  <2>1. Cardinality(arriving) <= IF waiting THEN 1 ELSE 0
    <3>1. CASE arriving = {}
      <4>1. Cardinality(arriving) = 0
        BY <3>1, FS_EmptySet
      <4> QED
        BY <4>1
    <3>2. CASE arriving # {}
      <4>1. waiting /\ \E a \in answers \cup {Refused} : arriving = {a}
        BY <3>2 DEF CallsInv, Wired
      <4>2. Cardinality(arriving) = 1
        BY <4>1, FS_Singleton
      <4> QED
        BY <4>1, <4>2
    <3> QED
      BY <3>1, <3>2
  <2> QED
    BY <2>1 DEF CallsInv, CallsTypes, Wired, Receipts, CallsTypeOK
<1> QED
  BY <1>1, CallsInductive, PTL

\* However a round is retried, answered late or priced locally, the memory at the
\* caller moves by one round of the pool, from a memory that a pool starts with.
THEOREM MemoryImplementsRounds == Spec => MemoryMovesByRounds
<1>1. Init => Kept!Init
  BY DEF Init, Kept!Init
<1>2. CallsInv /\ [Next]_vars => [memory' = memory \/ Kept!Next]_memory
  BY NextCalls
<1> QED
  BY <1>1, <1>2, CallsInductive, PTL DEF Spec, MemoryMovesByRounds

-----------------------------------------------------------------------------
(* Where a ruleset is installed everywhere before it takes effect.         *)

InForceIsKnown ==
  \A v \in 1..published, p \in Processes : EffectiveFrom[v] <= now => v <= known[p]

\* The ruleset that a body asks for, by all that is published.
Due(named, start) == IF named # NoVersion THEN named ELSE ChooseActive(published, start)

\* What the body of the round in progress names, or that of the last one.
Named == IF body = NoBody THEN receipt.named ELSE body.version
Start == IF body = NoBody THEN receipt.start ELSE body.start

PricedAsDue ==
  /\ Determined(Named, Start) => \A a \in answers : a.version = Due(Named, Start)
  /\ Determined(receipt.named, receipt.start) =>
       receipt.version = Due(receipt.named, receipt.start)

DueInv == InForceIsKnown /\ PricedAsDue

LEMMA InitDue ==
  Init => DueInv
<1> SUFFICES ASSUME Init PROVE DueInv
  OBVIOUS
<1>1. known = [p \in Processes |-> published] /\ published \in Nat
  <2>1. CallsInv /\ known = [p \in Processes |-> published]
    BY InitCalls DEF Init
  <2> QED
    BY <2>1, Bounds
<1>2. InForceIsKnown
  BY <1>1 DEF InForceIsKnown
<1>3. answers = {} /\ receipt = NoReceipt
  BY DEF Init
<1> QED
  BY <1>2, <1>3 DEF DueInv, PricedAsDue, Determined, NoReceipt, NoVersion, NoStart

LEMMA NextKnown ==
  ASSUME InStep, CallsInv, InForceIsKnown, [Next]_vars
  PROVE  InForceIsKnown'
<1>1. /\ published \in Nat /\ now \in Nat
      /\ known \in [Processes -> 0..published]
  BY Bounds DEF CallsInv, CallsTypes
<1>2. CASE Publish
  <2>1. /\ published' = published + 1 /\ EffectiveFrom[published + 1] > now
        /\ now' = now /\ known' = known
    BY <1>2 DEF Publish
  <2>2. EffectiveFrom[published + 1] \in Nat
    <3>1. published + 1 \in 1..Len(EffectiveFrom)
      BY <1>1, <1>2, Bounds DEF Publish
    <3> QED
      BY <3>1, RulesetAssumption
  <2>3. ASSUME NEW v \in 1..published', NEW p \in Processes, EffectiveFrom[v] <= now
        PROVE  v <= known[p]
    <3>1. v # published + 1
      BY <1>1, <2>1, <2>2, <2>3
    <3>2. v \in 1..published
      BY <1>1, <2>1, <3>1
    <3> QED
      BY <2>3, <3>2 DEF InForceIsKnown
  <2> QED
    BY <2>1, <2>3 DEF InForceIsKnown
<1>3. CASE Tick
  BY <1>3 DEF Tick, InForceIsKnown
<1>4. ASSUME NEW p \in Processes, Install(p) PROVE InForceIsKnown'
  BY <1>1, <1>4 DEF Install, InForceIsKnown
<1>5. CASE UNCHANGED rulesetVars
  BY <1>5 DEF rulesetVars, InForceIsKnown
<1> QED
  BY <1>2, <1>3, <1>4, <1>5
  DEF Next, CallerStep, Begin, Serve, TurnAway, Send, Receive, Timeout, Fallback, Skip,
      vars, rulesetVars

\* What is in force at a time that has come stays so: a ruleset is published before
\* it takes effect.
LEMMA DueStays ==
  ASSUME CallsInv, [Next]_vars, NEW named, NEW start \in {NoStart} \cup 0..now,
         Determined(named, start)
  PROVE  IF named # NoVersion THEN TRUE
         ELSE ChooseActive(published', start) = ChooseActive(published, start)
<1>1. CASE published' = published
  BY <1>1
<1>2. CASE Publish /\ named = NoVersion
  <2>1. published' = published + 1 /\ EffectiveFrom[published + 1] > now
    BY <1>2 DEF Publish
  <2>2. start \in 0..now /\ published \in Nat /\ now \in Nat
    BY <1>2, Bounds DEF Determined
  <2>3. EffectiveFrom[published + 1] \in Nat
    <3>1. published + 1 \in 1..Len(EffectiveFrom)
      BY <1>2, <2>2, Bounds DEF Publish
    <3> QED
      BY <3>1, RulesetAssumption
  <2>4. ~(EffectiveFrom[published + 1] <= start)
    BY <2>1, <2>2, <2>3
  <2>5. 1..(published + 1) = (1..published) \cup {published + 1}
    BY <2>2
  <2>6. Effective(published + 1, start) = Effective(published, start)
    BY <2>4, <2>5 DEF Effective
  <2> QED
    BY <2>1, <2>6, SameChoice
<1> QED
  BY <1>1, <1>2
  DEF Next, CallerStep, Tick, Install, Begin, Serve, TurnAway, Send, Receive, Timeout,
      Fallback, Skip, vars, rulesetVars

\* Every process that answers a body answers under the ruleset that is due.
LEMMA PricedUnderDue ==
  ASSUME CallsInv, InForceIsKnown, body # NoBody, NEW p \in Processes,
         NEW degraded \in BOOLEAN, PriceRound(body, degraded, known[p]) # Refused,
         Determined(body.version, body.start)
  PROVE  PriceRound(body, degraded, known[p]).version = Due(body.version, body.start)
<1> DEFINE version == RulesFor(body, known[p], now)
           answer == PriceRound(body, degraded, known[p])
<1>1. answer.version = version /\ version \in 1..published
  <2>1. \E m : answer = [version |-> version, memory |-> m]
    BY PriceIs
  <2>2. version \in 1..published
    BY PriceIs
  <2> HIDE DEF version, answer
  <2> QED
    BY <2>1, <2>2
<1>2. /\ body.version \in 0..published /\ body.start \in {NoStart} \cup 0..now
      /\ known[p] \in 0..published /\ published \in Nat /\ now \in Nat
  BY Bounds DEF CallsInv, CallsTypes, Bodies
<1>3. CASE body.version # NoVersion
  BY <1>1, <1>3 DEF RulesFor, LoadRuleset, Due, NoVersion
<1>4. CASE body.version = NoVersion
  <2>1. body.start \in 0..now /\ body.start # NoStart
    BY <1>2, <1>4 DEF Determined, NoStart
  <2>2. version = ChooseActive(known[p], body.start)
    BY <1>4, <2>1 DEF RulesFor, AsOf
  <2>3. ASSUME NEW v \in 1..published, EffectiveFrom[v] <= body.start
        PROVE  v \in 1..known[p]
    <3>1. EffectiveFrom[v] \in Nat
      <4>1. v \in 1..Len(EffectiveFrom)
        BY Bounds
      <4> QED
        BY <4>1, RulesetAssumption
    <3>2. v <= known[p]
      BY <1>2, <2>1, <2>3, <3>1 DEF InForceIsKnown
    <3> QED
      BY <1>2, <3>2
  <2>4. 1..known[p] \subseteq 1..published
    BY <1>2
  <2>5. Effective(known[p], body.start) = Effective(published, body.start)
    BY <2>3, <2>4 DEF Effective
  <2> QED
    BY <1>1, <1>4, <2>2, <2>5, SameChoice DEF Due
<1> QED
  BY <1>3, <1>4

LEMMA NextDue ==
  ASSUME InStep, CallsInv, DueInv, [Next]_vars
  PROVE  DueInv'
<1>1. InForceIsKnown' /\ InForceIsKnown
  BY NextKnown DEF DueInv
<1> SUFFICES PricedAsDue'
  BY <1>1 DEF DueInv
<1>2. receipt.start \in {NoStart} \cup 0..now
  BY DEF CallsInv, CallsTypes, Receipts, NoReceipt
<1>3. body # NoBody => body.start \in {NoStart} \cup 0..now
  BY DEF CallsInv, CallsTypes, Bodies
<1>4. Determined(receipt.named, receipt.start) =>
        Due(receipt.named, receipt.start)' =
          IF receipt'.named # NoVersion THEN receipt'.named
          ELSE ChooseActive(published', receipt'.start)
  BY DEF Due
<1>5. ASSUME receipt' = receipt
      PROVE  Determined(receipt.named, receipt.start)' =>
               receipt.version = Due(receipt.named, receipt.start)'
  BY <1>2, <1>5, DueStays DEF DueInv, PricedAsDue, Due, Determined
<1>6. ASSUME UNCHANGED <<body, receipt>>, Determined(Named, Start)
      PROVE  Due(Named, Start)' = Due(Named, Start)
  BY <1>2, <1>3, <1>6, DueStays DEF Due, Named, Start
<1>7. ASSUME UNCHANGED <<body, receipt, answers>>
      PROVE  PricedAsDue'
  BY <1>5, <1>6, <1>7 DEF DueInv, PricedAsDue, Named, Start, Determined
<1>8. ASSUME NEW in \in Inputs, NEW names \in Naming, Begin(in, names)
      PROVE  PricedAsDue'
  <2>1. answers' = {} /\ receipt' = receipt
    BY <1>8 DEF Begin
  <2> QED
    BY <1>5, <2>1 DEF PricedAsDue
<1>9. ASSUME NEW r \in Replicas, Serve(r)
      PROVE  PricedAsDue'
  <2> DEFINE answer == PriceRound(body, FALSE, known[r])
  <2>1. /\ answers' = answers \cup ({answer} \ {Refused})
        /\ UNCHANGED <<body, receipt>> /\ body # NoBody
    BY <1>9 DEF Serve, CallsInv, Wired
  <2>2. answer # Refused /\ Determined(body.version, body.start) =>
          answer.version = Due(body.version, body.start)
    BY <1>1, <2>1, PricedUnderDue DEF Processes
  <2> HIDE DEF answer
  <2>3. Determined(Named, Start) => \A a \in answers' : a.version = Due(Named, Start)
    BY <2>1, <2>2 DEF DueInv, PricedAsDue, Named, Start
  <2>4. Determined(Named, Start)' => \A a \in answers' : a.version = Due(Named, Start)'
    BY <1>6, <2>1, <2>3 DEF Determined, Named, Start
  <2> QED
    BY <1>5, <2>1, <2>4 DEF PricedAsDue
<1>10. ASSUME body # NoBody, NEW answer \in answers', Keep(answer),
              Determined(body.version, body.start) =>
                \A a \in answers' : a.version = Due(body.version, body.start),
              published' = published
       PROVE  PricedAsDue'
  <2>1. /\ body' = NoBody
        /\ receipt' = [named |-> body.version, start |-> body.start, version |-> answer.version]
    BY <1>10 DEF Keep, Close
  <2>2. Due(receipt.named, receipt.start)' = Due(body.version, body.start)
    BY <1>10, <2>1 DEF Due
  <2> QED
    BY <1>10, <2>1, <2>2 DEF PricedAsDue, Named, Start, Determined
<1>11. CASE Receive
  <2>1. PICK answer \in arriving \ {Refused} : Keep(answer)
    BY <1>11 DEF Receive
  <2>2. answers' = answers /\ published' = published
    BY <1>11 DEF Receive, rulesetVars
  <2>3. answer \in answers /\ body # NoBody
    BY <2>1 DEF CallsInv, Wired
  <2>4. Determined(body.version, body.start) =>
          \A a \in answers : a.version = Due(body.version, body.start)
    BY <2>3 DEF DueInv, PricedAsDue, Named, Start
  <2>5. Determined(body.version, body.start) =>
          \A a \in answers' : a.version = Due(body.version, body.start)
    BY <2>1, <2>2, <2>3, <2>4
  <2>6. answer \in answers'
    BY <2>2, <2>3
  <2> QED
    BY <1>10, <2>1, <2>2, <2>3, <2>5, <2>6
<1>12. CASE Fallback
  <2>1. Local # Refused /\ Keep(Local) /\ answers' = answers \cup {Local}
    BY <1>12 DEF Fallback
  <2>2. body # NoBody /\ published' = published
    BY <1>12 DEF Fallback, BudgetSpent, rulesetVars
  <2>3. Determined(body.version, body.start) => Local.version = Due(body.version, body.start)
    BY <1>1, <2>1, <2>2, PricedUnderDue DEF Local, Processes
  <2>4. Determined(body.version, body.start) =>
          \A a \in answers : a.version = Due(body.version, body.start)
    BY <2>2 DEF DueInv, PricedAsDue, Named, Start
  <2>5. Determined(body.version, body.start) =>
          \A a \in answers' : a.version = Due(body.version, body.start)
    BY <2>1, <2>2, <2>3, <2>4
  <2>6. Local \in answers'
    BY <2>1
  <2> QED
    BY <1>10, <2>1, <2>2, <2>3, <2>5, <2>6
<1>13. CASE Skip
  <2>1. body' = NoBody /\ receipt' = NoReceipt
    BY <1>13 DEF Skip, Close
  <2>2. receipt'.named = NoVersion /\ receipt'.start = NoStart
    BY <2>1 DEF NoReceipt
  <2> QED
    BY <2>1, <2>2 DEF PricedAsDue, Named, Start, Determined
<1>14. ASSUME NEW r \in Replicas, Send(r) \/ TurnAway(r)
       PROVE  PricedAsDue'
  BY <1>7, <1>14 DEF Send, TurnAway
<1>15. CASE Publish \/ Tick \/ (\E p \in Processes : Install(p)) \/ UNCHANGED vars
  BY <1>7, <1>15 DEF Publish, Tick, Install, vars
<1>16. CASE Timeout
  BY <1>7, <1>16 DEF Timeout
<1> QED
  BY <1>8, <1>9, <1>11, <1>12, <1>13, <1>14, <1>15, <1>16 DEF Next, CallerStep

LEMMA DueInductive ==
  ASSUME InStep
  PROVE  Spec => []DueInv
<1>1. CallsInv /\ DueInv /\ [Next]_vars => DueInv'
  BY NextDue
<1> QED
  BY <1>1, InitDue, CallsInductive, PTL DEF Spec

\* Where deployments install rulesets everywhere before they take effect, all attempts
\* at a round whose body names its ruleset or its start get the same prices under the
\* same ruleset, whoever answers and whenever.
THEOREM RetriesAlwaysAgree ==
  ASSUME InStep
  PROVE  Spec => []RetriesAgree
<1>1. CallsInv /\ DueInv => RetriesAgree
  <2> SUFFICES ASSUME CallsInv, DueInv, BodyIsDetermined
               PROVE  SameBodySamePrice /\ \A a, b \in answers : a.version = b.version
    BY DEF RetriesAgree
  <2>1. \A a, b \in answers : a.version = b.version
    BY DEF BodyIsDetermined, DueInv, PricedAsDue, Named, Start
  <2>2. ASSUME NEW a \in answers, NEW b \in answers, Degraded(a) = Degraded(b)
        PROVE  a = b
    <3>1. a.memory = b.memory
      BY <2>2 DEF CallsInv, OneRound
    <3> QED
      BY <2>1, <3>1 DEF CallsInv, OneRound
  <2> QED
    BY <2>1, <2>2 DEF SameBodySamePrice
<1> QED
  BY <1>1, CallsInductive, DueInductive, PTL

\* And the receipt of the last round names the ruleset that the round asked for, or
\* else the latest in force at its start, also by all that was published since.
THEOREM ReceiptsAlwaysStand ==
  ASSUME InStep
  PROVE  Spec => []ReceiptsStand
<1>1. CallsInv /\ DueInv => ReceiptsStand
  <2> SUFFICES ASSUME CallsInv, DueInv, Determined(receipt.named, receipt.start),
                      receipt.named = NoVersion
               PROVE  /\ EffectiveFrom[receipt.version] <= receipt.start
                      /\ \A w \in 1..published : EffectiveFrom[w] <= receipt.start =>
                                                 ~Follows(w, receipt.version)
    BY DEF ReceiptsStand, DueInv, PricedAsDue, Due
  <2>1. receipt.start # NoStart /\ receipt # NoReceipt
    BY DEF Determined, NoReceipt, NoVersion, NoStart
  <2>2. receipt.version \in 1..published /\ receipt.start \in 0..now
    BY <2>1 DEF CallsInv, CallsTypes, Receipts
  <2>3. receipt.version = ChooseActive(published, receipt.start)
    BY DEF DueInv, PricedAsDue, Due
  <2>4. Effective(published, receipt.start) # {}
    BY <2>2, <2>3 DEF ChooseActive, NoVersion
  <2>5. published \in 0..Len(EffectiveFrom) /\ receipt.start \in Int
    BY <2>2 DEF CallsInv, CallsTypes
  <2> QED
    BY <2>3, <2>4, <2>5, LatestChosen DEF Effective
<1> QED
  BY <1>1, CallsInductive, DueInductive, PTL

-----------------------------------------------------------------------------
(* A round that has begun ends, with a price.                              *)

\* A ruleset that was in force from the beginning is everywhere.
FirstIsKnown == \A p \in Processes : known[p] >= 1

LEMMA FirstInductive ==
  ASSUME EffectiveFrom[1] = 0
  PROVE  Spec => []FirstIsKnown
<1>1. Init => FirstIsKnown
  <2> SUFFICES ASSUME Init PROVE FirstIsKnown
    OBVIOUS
  <2> DEFINE atFirst == {v \in Versions : EffectiveFrom[v] = 0}
  <2>1. Versions = 1..Len(EffectiveFrom) /\ Len(EffectiveFrom) \in Nat /\ Len(EffectiveFrom) > 0
    BY RulesetAssumption DEF Versions
  <2>2. IsFiniteSet(Versions)
    BY <2>1, FS_Interval
  <2>3. 1 \in atFirst /\ atFirst \subseteq Versions
    BY <2>1
  <2>4. published = Cardinality(atFirst) /\ known = [p \in Processes |-> published]
    BY DEF Init
  <2> HIDE DEF atFirst
  <2>5. IsFiniteSet(atFirst) /\ {1} \subseteq atFirst
    BY <2>2, <2>3, FS_Subset
  <2>6. Cardinality({1}) <= Cardinality(atFirst)
    BY <2>5, FS_Subset
  <2>7. Cardinality({1}) = 1 /\ Cardinality(atFirst) \in Nat
    BY <2>5, FS_Singleton, FS_CardinalityType
  <2> QED
    BY <2>4, <2>6, <2>7 DEF FirstIsKnown
<1>2. ASSUME CallsInv, FirstIsKnown, [Next]_vars
      PROVE  FirstIsKnown'
  <2>1. known \in [Processes -> 0..published] /\ published \in Nat
    BY <1>2, Bounds DEF CallsInv, CallsTypes
  <2>2. ASSUME NEW p \in Processes, Install(p) PROVE FirstIsKnown'
    BY <1>2, <2>1, <2>2 DEF Install, FirstIsKnown
  <2>3. CASE known' = known
    BY <1>2, <2>3 DEF FirstIsKnown
  <2> QED
    BY <1>2, <2>2, <2>3
    DEF Next, CallerStep, Publish, Tick, Begin, Serve, TurnAway, Send, Receive, Timeout,
        Fallback, Skip, vars, rulesetVars
<1>3. CallsInv /\ FirstIsKnown /\ [Next]_vars => FirstIsKnown'
  BY <1>2
<1> QED
  BY <1>1, <1>3, CallsInductive, PTL DEF Spec

\* The library can price every round that names no ruleset, or one that it has.
LEMMA LibraryPrices ==
  ASSUME EffectiveFrom[1] = 0, CallsInv, FirstIsKnown, Priceable
  PROVE  Local # Refused
<1> DEFINE knows == known[Library]
           asOf == AsOf(body, now)
<1>1. /\ body.version \in 0..published /\ body.start \in {NoStart} \cup 0..now
      /\ knows \in 0..published /\ published \in 0..Len(EffectiveFrom) /\ now \in Nat
      /\ Len(EffectiveFrom) \in Nat
  BY Bounds DEF CallsInv, CallsTypes, Bodies, Priceable, Processes
<1>2. knows >= 1 /\ body.version <= knows
  BY DEF FirstIsKnown, Priceable, Processes
<1>3. asOf \in Nat
  BY <1>1 DEF AsOf
<1> HIDE DEF knows, asOf
<1>4. ChooseActive(knows, asOf) \in 1..knows
  <2>1. 1 \in 1..knows /\ EffectiveFrom[1] <= asOf
    BY <1>1, <1>2, <1>3
  <2>2. 1 \in Effective(knows, asOf)
    BY <2>1 DEF Effective
  <2>3. knows \in 0..Len(EffectiveFrom) /\ asOf \in Int
    BY <1>1, <1>3
  <2>4. ChooseActive(knows, asOf) \in Effective(knows, asOf)
    BY <2>2, <2>3, LatestChosen
  <2> QED
    BY <2>4 DEF Effective
<1>5. RulesFor(body, knows, now) \in 1..knows
  <2>1. CASE body.version = NoVersion
    BY <1>4, <2>1 DEF RulesFor, asOf
  <2>2. CASE body.version # NoVersion
    BY <1>1, <1>2, <2>2 DEF RulesFor, LoadRuleset, NoVersion
  <2> QED
    BY <2>1, <2>2
<1>6. RulesFor(body, known[Library], now) # NoVersion
  BY <1>1, <1>5 DEF knows, NoVersion
<1>7. \E m : Local = [version |-> RulesFor(body, known[Library], now), memory |-> m]
  BY <1>6 DEF Local, PriceRound
<1> QED
  BY <1>7 DEF Refused

\* An answer that is kept ends the round with a receipt.
LEMMA KeepPrices ==
  ASSUME CallsInv, body # NoBody, NEW answer, answer.version \in 1..published, Keep(answer)
  PROVE  body' = NoBody /\ Priced'
<1>1. /\ body' = NoBody
      /\ receipt' = [named |-> body.version, start |-> body.start, version |-> answer.version]
  BY DEF Keep, Close
<1>2. receipt'.version # NoReceipt.version
  BY <1>1, Bounds DEF NoReceipt, NoVersion
<1> QED
  BY <1>1, <1>2 DEF Priced

\* What is left to the caller of a round, at most: to send and to give up waiting,
\* for every attempt that it has not made.
Left == 2 * (MaxAttempts - tried) + (IF waiting THEN 1 ELSE 0)

LEMMA LeftNat ==
  ASSUME CallsInv
  PROVE  Left \in Nat
  BY Bounds DEF CallsInv, CallsTypes, Left

\* Until a round is over it can be priced, and no step gives the caller more to do.
LEMMA RoundProgress ==
  ASSUME EffectiveFrom[1] = 0, CallsInv, FirstIsKnown, [Next]_vars, vars' # vars, Priceable
  PROVE  IF body' = NoBody THEN Priced'
         ELSE Priceable' /\ Left' <= Left /\ (CallerStep => Left' < Left)
<1>1. body # NoBody /\ body.version <= known[Library] /\ Local # Refused
  BY LibraryPrices DEF Priceable
<1>2. /\ tried \in Nat /\ MaxAttempts \in Nat /\ tried <= MaxAttempts /\ waiting \in BOOLEAN
      /\ Left \in Nat
  BY Bounds, LeftNat DEF CallsInv, CallsTypes
<1>3. CASE CallerStep
  <2>1. ASSUME NEW r \in Replicas, Send(r)
        PROVE  Priceable' /\ Left' <= Left /\ Left' < Left
    <3>1. /\ tried' = tried + 1 /\ waiting' /\ ~waiting
          /\ UNCHANGED <<body, known>>
      BY <2>1 DEF Send, rulesetVars
    <3> QED
      BY <1>1, <1>2, <3>1 DEF Priceable, Left
  <2>2. ASSUME Timeout
        PROVE  Priceable' /\ Left' <= Left /\ Left' < Left
    <3>1. tried' = tried /\ waiting /\ ~waiting' /\ UNCHANGED <<body, known>>
      BY <2>2 DEF Timeout, rulesetVars
    <3> QED
      BY <1>1, <1>2, <3>1 DEF Priceable, Left
  <2>3. ASSUME Receive
        PROVE  body' = NoBody /\ Priced'
    <3>1. PICK answer \in arriving \ {Refused} : Keep(answer)
      BY <2>3 DEF Receive
    <3>2. answer \in answers
      BY <3>1 DEF CallsInv, Wired
    <3>3. answer.version \in 1..published
      BY <1>1, <3>2 DEF CallsInv, OneRound, AnswersOf
    <3> QED
      BY <1>1, <3>1, <3>3, KeepPrices
  <2>4. ASSUME Fallback
        PROVE  body' = NoBody /\ Priced'
    <3>1. Keep(Local)
      BY <2>4 DEF Fallback
    <3>2. Local \in AnswersOf(memory, body.in)
      BY <1>1, PricedAnswer DEF Local, Processes
    <3>3. Local.version \in 1..published
      BY <3>2 DEF AnswersOf
    <3> QED
      BY <1>1, <3>1, <3>3, KeepPrices
  <2>5. ~Skip
    BY <1>1 DEF Skip
  <2>6. Priceable' => body' # NoBody
    BY DEF Priceable
  <2> HIDE DEF Left
  <2> QED
    BY <1>3, <2>1, <2>2, <2>3, <2>4, <2>5, <2>6 DEF CallerStep
<1>4. CASE ~CallerStep
  <2>1. /\ UNCHANGED <<body, tried, waiting>>
        /\ known' = known \/ \E p \in Processes : Install(p)
    BY <1>1, <1>4 DEF Next, Publish, Tick, Install, Begin, Serve, TurnAway, rulesetVars, wire
  <2>2. body'.version <= known'[Library]
    <3>1. known \in [Processes -> 0..published] /\ published \in Nat
      BY Bounds DEF CallsInv, CallsTypes
    <3>2. Library \in Processes /\ body.version \in 0..published
      BY <1>1 DEF Processes, CallsInv, CallsTypes, Bodies
    <3>3. ASSUME NEW p \in Processes, Install(p) PROVE known[Library] <= known'[Library]
      BY <3>1, <3>2, <3>3 DEF Install
    <3>4. known[Library] \in Nat /\ (known' = known \/ known'[Library] \in Nat)
      BY <2>1, <3>1, <3>2 DEF Install
    <3> QED
      BY <1>1, <2>1, <3>2, <3>3, <3>4
  <2>3. Priceable' /\ Left' = Left
    BY <1>1, <2>1, <2>2 DEF Priceable, Left
  <2> QED
    BY <1>2, <1>4, <2>3 DEF Priceable
<1> QED
  BY <1>3, <1>4

\* A round that the caller's library can price stays so and is never given up, and
\* every step of the caller for it is one of those that are left, whatever the
\* service and the wire do in between.
RoundsEndPriced ==
  [][Priceable => IF body' = NoBody THEN Priced'
                  ELSE Priceable' /\ Left' <= Left /\ (CallerStep => Left' < Left)]_vars

\* What EveryRoundIsPriced rests on, for any number of attempts, replicas and
\* rulesets, the first of which is in force from the beginning.
THEOREM RoundsAlwaysEndPriced ==
  ASSUME EffectiveFrom[1] = 0
  PROVE  Spec => [](Left \in Nat) /\ RoundsEndPriced
<1>1. CallsInv => Left \in Nat
  BY LeftNat
<1>2. CallsInv /\ FirstIsKnown /\ [Next]_vars =>
        [Priceable => IF body' = NoBody THEN Priced'
                      ELSE Priceable' /\ Left' <= Left /\ (CallerStep => Left' < Left)]_vars
  BY RoundProgress
<1> QED
  BY <1>1, <1>2, CallsInductive, FirstInductive, PTL DEF Spec, RoundsEndPriced
=============================================================================
