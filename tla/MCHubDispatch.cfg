SPECIFICATION Spec
CONSTANTS
  Dispatches = {d1, d2}
  Reports = {r1, r2}
  None = None
INVARIANTS TypeOK WriteAhead NoReportCountsTwice NamedReportsAreRight
PROPERTIES ReportNotUndone
CHECK_DEADLOCK FALSE
