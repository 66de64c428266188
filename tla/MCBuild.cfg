SPECIFICATION Spec
CONSTANT MaxEdits = 2
INVARIANTS
  TypeOK
  ReportIsOfMlir
  StaleOnlyIf
