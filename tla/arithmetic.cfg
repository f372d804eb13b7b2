SPECIFICATION Spec
CONSTANTS
  Precision = 8
  Grid = 2048
  Unit = 10
  Prices <- UpTo3
  Budgets <- UpTo12
  MaxRows = 5
INVARIANT RefusedOnlyAtTheEdge
PROPERTY AcceptedWithinBudget
