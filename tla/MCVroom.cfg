SPECIFICATION Spec
CONSTANTS
  Problems <- MCProblems
  MatrixQueries <- MCMatrixQueries
  FactorUnit = 2
  Infinity = 999
INVARIANTS
  VroomIsGivenTheData
  TravelTimesAreTheGivenOnes
  AnswerIsWhole
