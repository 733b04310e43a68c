SPECIFICATION FairSpec
CONSTANTS
  Daemons = {d1}
  NoOne = NoOne
  Gone = Gone
  MaxTurns = 2
  MaxGen = 2
  MaxCrashes = 0
  MaxInputs = 2
PROPERTY ResumeDrives
CHECK_DEADLOCK FALSE
