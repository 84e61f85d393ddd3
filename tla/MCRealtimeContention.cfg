\* Three orders contend for two pools, with tips, tiers and the org cap; the
\* limit of three passes cuts some of the rounds short.
SPECIFICATION Spec
CONSTANTS
  Pools = {1, 2}
  Orders = {1, 2, 3}
  Orgs = {1, 2, 3}
  MaxHours = 3
  ShareNum = 1
  ShareDen = 2
  TipNum = 1
  TipDen = 10
  MaxPasses = 3
  Books <- ContentionBooks
  Views <- ContentionViews
INVARIANTS
  TypeOK
  SupplyNeverOversold
  TurnedAwayForGood
  OverShareYields
  ChargesWithinLimits
  GreedyAgrees
PROPERTY
  KeepsItsPromise
\* The round ends when its result is returned.
CHECK_DEADLOCK FALSE
