\* One pool whose prices move: reserve, cap, hosts, supply and demand change.
SPECIFICATION Spec
CONSTANTS
  Scale = 10
  BMax = 13
  ULow = 35
  UHigh = 55
  Hyst = 3
  SmoothNum = 1
  SmoothDen = 4
  MinHosts = 3
  ThinPlateau = TRUE
  Conditional = TRUE
  TargetNum = 7
  TargetDen = 10
  DeltaNum = 1
  DeltaDen = 40
  Kappa = 3
  LambdaNum = 3
  LambdaDen = 2
  AlphaNum = 3
  AlphaDen = 10
  Inputs <- PriceInputs
  StartBases <- PriceStarts
INVARIANTS
  ReserveHolds
PROPERTIES
  ControllerMoves
