SPECIFICATION Spec
CONSTANTS
  OrderData <- MCOrderData
  VehicleData <- MCVehicleData
  Dates = {0, 1, 5}
  SubdivisionKinds = {0, 1, 2}
INVARIANTS
  HistoryIsKept
PROPERTIES
  EndsWithRowsThatFit
