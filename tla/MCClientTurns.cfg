SPECIFICATION Spec
CONSTANTS
  NumTurns = 2
  Chats = {c1}
  Wakes = {w1}
  Watchdog = Watchdog
  MaxOthers = 1
  MaxStops = 1
  Limit = 1
INVARIANTS TypeOK OneEnd
PROPERTIES EndedNeverRuns StrayCancelsKnown QueueServed EndsUnlessLost
CHECK_DEADLOCK FALSE
