SPECIFICATION Spec
CONSTANTS
  Node <- MCNode
  State <- MCState
  Start = 1
  Stop = 3
  None = 0
  Graphs <- MCGraphs
INVARIANTS
  TypeOK
  BackpropagatesExactly
  NothingForgotten
  NoUseLost
  OperatorsCoverUses
  VariablesAreUnions
  LoadsFollowEnables
  CrashNeedsUnconditionalEnable
PROPERTIES
  PassesProgress
  Terminates
CHECK_DEADLOCK FALSE
