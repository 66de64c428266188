SPECIFICATION Spec
CONSTANTS
  Points <- MCPoints
  Quiet <- MCQuiet
  Names <- MCNames
  Vars <- MCVars
  Width <- MCWidth
  Programs <- MCPrograms
INVARIANTS SlicesTranslated
CHECK_DEADLOCK FALSE
