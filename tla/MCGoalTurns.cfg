SPECIFICATION FairSpec
CONSTANTS
  Daemons = {d1}
  NoOne = NoOne
  Gone = Gone
  MaxTurns = 2
  MaxGen = 3
  MaxCrashes = 2
  MaxInputs = 4
INVARIANTS TypeOK OneLive UncountedNeverRan
PROPERTIES TerminalIsFinal AmbiguousIsFinal Driven
CHECK_DEADLOCK FALSE
