SPECIFICATION Spec
CONSTANTS
  Family = {"merges", "loops", "sharing", "memory", "dependency"}
  Programs <- MCPrograms
  MaxSteps = 8
INVARIANTS
  
  ResultsAgree
PROPERTIES
  UsesKept
  UnsharingKeepsValues
CHECK_DEADLOCK FALSE
