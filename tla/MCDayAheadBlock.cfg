\* Three orders bid at two pools, with the org cap.
SPECIFICATION Spec
CONSTANTS
  Pools = {1, 2}
  Orders = {1, 2, 3}
  Orgs = {1, 2, 3}
  MaxHours = 3
  ShareNum = 1
  ShareDen = 2
  Books <- BlockBooks
  Views <- BlockViews
  Limits <- BlockLimits
INVARIANTS
  WinnersPayTheUniformPrice
  DearOnlyWhenSoldOut
  RefusedBidsStayRefused
  GreedyAgrees
PROPERTY
  KeepsItsPromise
\* The block ends when its result is returned.
CHECK_DEADLOCK FALSE
