SPECIFICATION Spec
CONSTANTS
  StateNode <- MCStateNode
  Stop <- MCStop
  Asg <- MCAsg
  Programs <- MCPrograms
  Rests = {"none", "node", "node0"}
  Netlists = FALSE
  Largest = 2
INVARIANTS
  CleanedConditionsKept
CHECK_DEADLOCK FALSE
