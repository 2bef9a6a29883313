SPECIFICATION Spec
CONSTANTS
  tank = tank
  tower = tower
  Nothing = Nothing
  Items = {tank, tower}
  Structures = {tower}
  ComputerItems = {tank}
  Price <- Prices
  PoolSize = 2
  Steps = 2
  Room <- FewObjects
  Plants <- ThreePlants
  Targets <- UnitPlants
  Funds <- TwoNone
  Ore <- NoneOne
  Silo <- NoneOne
  SmallAmount = 0
  MaxEvents = 2
INVARIANT NothingStranded
CHECK_DEADLOCK FALSE
