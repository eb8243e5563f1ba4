SPECIFICATION Spec
CONSTANTS
  Site <- LineSite
  Dist <- LineDist
  Multipliers <- NoMultipliers
  MultiplierUnit = 1
  SpeedUnit = 1
  Order = {0, 1, 2, 3, 4}
  Truck = {0, 1, 2, 3, 4}
  PhonyTruck = 4
  OrderRow <- MCOrderRow
  TruckRow <- MCTruckRow
  Calls <- MCCalls
  standard_limit = 1
  max_no_moves = 2
  max_no_swaps = 2
  max_no_improvement = 16
  wander_length = 2
  max_iter = 3
  orders_per_swap = 1
INVARIANTS
  DeliveredOnce
  UnmovableStay
  UnassignedArePhony
  SolutionsAreSound
PROPERTIES
  TabuIsRespected
  ImplementsImprovement
  Terminates
