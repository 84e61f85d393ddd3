\* One rung for each order: supply and price may chase each other.
SPECIFICATION MarketSpec
CONSTANTS
  Pools = {1, 2}
  Orders = {1, 2, 3}
  Orgs = {1, 2, 3}
  MaxHours = 4
  ShareNum = 1
  ShareDen = 1
  Books <- FlatBooks
  Views = {}
  Limits <- MarketLimits
  Offers <- MarketOffers
  DayShareNum = 1
  DayShareDen = 2
  MaxTurns = 16
  UpgradeOn = TRUE
INVARIANTS
  NoBoxSoldBelowItsReserve
\* The market ends when its answer is returned.
CHECK_DEADLOCK FALSE
