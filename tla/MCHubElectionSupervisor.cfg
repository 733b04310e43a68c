SPECIFICATION Spec
CONSTANTS
  Agents = {a1, a2}
  MaxPid = 2
  MaxEpoch = 3
  MaxCommands = 2
  NoName = NoName
INVARIANTS SupervisorOnlyOnCoordinator
CHECK_DEADLOCK FALSE
