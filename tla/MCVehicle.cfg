SPECIFICATION Spec
CONSTANTS
  Site <- LineSite
  Dist <- LineDist
  Multipliers <- NoMultipliers
  MultiplierUnit = 1
  SpeedUnit = 1
  Order = {0, 1, 2}
  Truck = {0, 1, 2}
  PhonyTruck = 2
  OrderRow <- MCOrderRow
  TruckRow <- MCTruckRow
  InitialStops <- MCInitialStops
  ExecutionDates <- MCExecutionDates
INVARIANTS
  CacheCoherent
  PathMatchesOrders
  ComputesHillClimb
  HillClimbBest
PROPERTIES
  SearchKeepsFeasible
  Terminates
