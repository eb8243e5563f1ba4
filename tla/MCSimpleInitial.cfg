SPECIFICATION Spec
CONSTANTS
  Site <- LineSite
  Dist <- LineDist
  Multipliers <- NoMultipliers
  MultiplierUnit = 1
  SpeedUnit = 1
  Order = {0, 1, 2, 3}
  Truck = {0, 1, 2}
  PhonyTruck = 2
  OrderRow <- MCOrderRow
  TruckRow <- MCTruckRow
  Initials_code = {"OnePerTruck", "FrontTruck", "BackTruck", "BestInsert", "BestBack", "BestFront", "OneDepot"}
INVARIANTS
  TypeOK
  EachOrderOnce
  SuitableVehicleTakesAnOrder
  RoutesFitTheKind
PROPERTIES
  Terminates
  ImplementsOrderAssignment
CHECK_DEADLOCK FALSE
