SPECIFICATION FlowSpec
CONSTANTS
  State <- MCState
  Start = 0
  Stop = 3
  Fsms <- MCFsms
INVARIANTS
  IsQuotient
  CrashNeedsParallel
  BranchesCoverTransitions
PROPERTIES
  ImplementsFsm
CHECK_DEADLOCK FALSE
