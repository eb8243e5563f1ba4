SPECIFICATION Spec
CONSTANTS
  Functions <- AllFunctions
  MaxRows = 3
INVARIANTS
  ResourcesAreReturned
  CallerIsTold
PROPERTIES
  ImplementsFunctionCall
