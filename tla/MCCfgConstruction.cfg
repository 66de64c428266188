SPECIFICATION Spec
CONSTANTS
  Last = 4
  MaxOut = 2
  State <- MCState
  Start <- MCStart
  Stop <- MCStop
  Fsms <- MCFsms
INVARIANTS
  TypeOK
  TransitionsPreserved
PROPERTIES
  ImplementsPartition
  Progresses
CHECK_DEADLOCK FALSE
