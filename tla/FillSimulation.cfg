SPECIFICATION Spec
CONSTANTS
  MaxPrice = 6
  MaxLots = 3
  Tp1Percent = 60
  MaxBars = 2
INVARIANTS
  TypeOK
  LotsConserved
  FollowsPath
  TradesInsideBar
  RemainderBreaksEven
  LossIsPlanned
CHECK_DEADLOCK FALSE
