SPECIFICATION Spec
CONSTANTS
  tank = tank
  tower = tower
  Nothing = Nothing
  Items = {tank, tower}
  Structures = {tower}
  ComputerItems = {tank}
  Price <- Prices
  PoolSize = 2
  Steps = 3
  Room <- FewObjects
  Plants <- ThreePlants
  Targets <- UnitPlants
  Funds <- OneNone
  Ore <- NoneOne
  Silo <- NoneOne
  SmallAmount = 0
  MaxEvents = 2
INVARIANTS
  TypeOK
  NoDebt
  BooksBalance
  BalanceFollowsStage
  OwnFactoriesWithRoom
CHECK_DEADLOCK FALSE
