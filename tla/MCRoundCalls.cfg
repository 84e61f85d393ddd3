\* Rounds that name their ruleset or their start, called while rulesets are
\* announced and installed.
SPECIFICATION Spec
CONSTANTS
  Replicas = {r1, r2}
  Library = lib
  MaxAttempts = 2
  Naming <- Definite
  InStep = TRUE
  MaxTime = 1
  EffectiveFrom <- Calendar
  Scale = 4
  BMax = 5
  ULow = 35
  UHigh = 55
  Hyst = 3
  SmoothNum = 1
  SmoothDen = 2
  MinHosts = 3
  ThinPlateau = TRUE
  Conditional = TRUE
  TargetNum = 7
  TargetDen = 10
  DeltaNum = 1
  DeltaDen = 5
  Kappa = 1
  LambdaNum = 3
  LambdaDen = 2
  AlphaNum = 1
  AlphaDen = 2
  Inputs <- CallInputs
  StartBases <- CallStarts
INVARIANTS
  CallsTypeOK
  RetriesAgree
  ReceiptsStand
PROPERTIES
  MemoryMovesByRounds
  EveryRoundIsPriced
