SPECIFICATION Spec
CONSTANTS
  Points <- MCPoints
  Quiet <- MCQuiet
  Names <- MCNames
  Vars <- MCVars
  Width <- MCWidth
  Programs <- MCPrograms
INVARIANTS TypeOK ConditionCoversReach ConditionIsReach CollectsExecution EdgesFollowReach FinalValue
PROPERTIES SlicesInPlace
CHECK_DEADLOCK FALSE
