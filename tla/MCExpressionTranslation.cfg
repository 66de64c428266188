SPECIFICATION TranslationSpec
CONSTANTS
  WordWidth = 4
  Assignments <- MCAssignments
  Graphs <- SignGraphs
INVARIANTS
  MlirComputes
  SignsAreLeast
PROPERTIES
  SignsChangeOnce
CHECK_DEADLOCK FALSE
