SPECIFICATION Spec
CONSTANTS
  Daemons = {d1, d2}
  NoOne = NoOne
  Gone = Gone
  MaxTurns = 2
  MaxGen = 2
  MaxCrashes = 1
  MaxInputs = 1
INVARIANT OneTurnRuns
CHECK_DEADLOCK FALSE
