SPECIFICATION Spec
CONSTANTS
  Site <- MCSite
  Dist <- MCDist
  Multipliers <- MCMultipliers
  MultiplierUnit = 1
  SpeedUnit = 1
  OrderQueries <- MCOrderQueries
  VehicleQueries <- MCVehicleQueries
  NewStops <- MCNewStops
  MaxTime = 999
  MaxAmount = 99
INVARIANTS
  FleetIsSound
  RowsAreThePairsThatFit
  CompanionsAreFound
