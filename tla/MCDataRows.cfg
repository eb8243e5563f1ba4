SPECIFICATION Spec
CONSTANTS
  Queries <- AllQueries
  TupleLimit = 2
  Word = 8
  LastTime = 1000
  NULL = NULL
  Absent = Absent
INVARIANTS
  AcceptedDataAreUsable
  CellsMeanWhatTheySay
PROPERTIES
  EveryRowArrives
