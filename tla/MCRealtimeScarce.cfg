\* Four orders whose ladders chain three pools; the org cap never binds.
SPECIFICATION Spec
CONSTANTS
  Pools = {1, 2, 3}
  Orders = {1, 2, 3, 4}
  Orgs = {1, 2, 3, 4}
  MaxHours = 4
  ShareNum = 1
  ShareDen = 1
  TipNum = 1
  TipDen = 10
  MaxPasses = 12
  Books <- ChainBooks
  Views <- ChainViews
INVARIANTS
  TurningAwayIsScarce
\* The round ends when its result is returned.
CHECK_DEADLOCK FALSE
