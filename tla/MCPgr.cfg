SPECIFICATION FairCallSpec
CONSTANTS
  Site <- LineSite
  Dist <- LineDist
  Multipliers <- NoMultipliers
  MultiplierUnit = 1
  SpeedUnit = 1
  Order = {0, 1, 2, 3, 4}
  Truck = {0, 1, 2, 3}
  PhonyTruck = 3
  OrderRow <- MCOrderRow
  TruckRow <- MCTruckRow
  Initials_code = {"OnePerTruck", "FrontTruck", "BackTruck", "BestInsert", "BestBack", "BestFront", "OneDepot"}
  Problems <- MCProblems
  AskedFor = {"Best", "OnePerTruck", "FrontTruck", "BackTruck", "BestInsert", "BestBack", "BestFront", "OneDepot"}
  MaxCycles = {0, 2}
INVARIANTS
  SolutionsAreSound
  StartsFromLeast
PROPERTIES
  ImplementsImprovement
  CallEnds
