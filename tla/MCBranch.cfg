SPECIFICATION Spec
CONSTANTS
  Family = {"branch"}
  Programs <- MCPrograms
  MaxSteps = 8
INVARIANTS
  PhiPassesAssigned
CHECK_DEADLOCK FALSE
