SPECIFICATION Spec
CONSTANTS
  Selected <- MCSelected
  Infinity = 63
  FactorUnit = 4
  Factors = {4, 6}
  Data <- MCData
INVARIANTS
  CellsAsGiven
  TimesAreReal
  AcceptedMatrixIsUsable
