\* One pool whose boost moves, and with it the reserve made of its floor; what
\* comes in the end.
SPECIFICATION Spec
CONSTANTS
  Scale = 20
  BMax = 26
  ULow = 35
  UHigh = 55
  Hyst = 3
  SmoothNum = 1
  SmoothDen = 4
  MinHosts = 3
  ThinPlateau = TRUE
  Conditional = TRUE
  TargetNum = 7
  TargetDen = 10
  DeltaNum = 1
  DeltaDen = 40
  Kappa = 2
  LambdaNum = 3
  LambdaDen = 2
  AlphaNum = 3
  AlphaDen = 10
  Inputs <- BoostInputs
  StartBases <- BoostStarts
INVARIANTS
  TypeOK
PROPERTIES
  HostNetsTheFloor
  BoostHeadsForThePlateau
  BusyPoolReachesItsCap
  BoostFades
