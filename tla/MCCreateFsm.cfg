SPECIFICATION Spec
CONSTANTS
  StateNode <- MCStateNode
  Stop <- MCStop
  Asg <- MCAsg
  Programs <- MCPrograms
  Rests = {"node"}
  Netlists = TRUE
  Largest = 3
INVARIANTS
  TypeOK
  ResultWellFormed
  NoTransitionLost
  StartWaitsMost
  FsmMovesAsNetlist
CHECK_DEADLOCK FALSE
