SPECIFICATION Spec
CONSTANTS
  NumTurns = 2
  Chats = {c1}
  Wakes = {w1}
  Watchdog = Watchdog
  MaxOthers = 1
  MaxStops = 0
  Limit = 1
PROPERTY CancelIsScoped
CHECK_DEADLOCK FALSE
