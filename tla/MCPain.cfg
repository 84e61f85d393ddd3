\* Two pools, emas at the levels and at the edge of the hysteresis of 5 %.
SPECIFICATION Spec
CONSTANTS
  Pools = {1, 2}
  Ladders <- MCLadders
  Emas = {0, 9, 10, 29, 30, 31}
  HystNum = 1
  HystDen = 20
INVARIANTS TypeOK DearerShowsNoMore
PROPERTIES RepeatedRoundsAgree LowPricesRestore
