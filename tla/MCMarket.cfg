\* Three orders, two pools, boxes with reserves of their own, an upgrade.
SPECIFICATION MarketSpec
CONSTANTS
  Pools = {1, 2}
  Orders = {1, 2, 3}
  Orgs = {1, 2, 3}
  MaxHours = 4
  ShareNum = 1
  ShareDen = 2
  Books <- MarketBooks
  Views = {}
  Limits <- MarketLimits
  Offers <- MarketOffers
  DayShareNum = 1
  DayShareDen = 2
  MaxTurns = 16
  UpgradeOn = TRUE
INVARIANTS
  AwardsOnTheLadder
  GainsAreReal
  StayersKeepTheirRung
  AgreedTiersArePaid
\* The market ends when its answer is returned.
CHECK_DEADLOCK FALSE
