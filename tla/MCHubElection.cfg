SPECIFICATION Spec
CONSTANTS
  Agents = {a1, a2}
  MaxPid = 2
  MaxEpoch = 2
  MaxCommands = 2
  NoName = NoName
INVARIANTS TypeOK OneCoordinator StateNamesActing NameMatchesPid LockNotLeaked
PROPERTIES EpochGrows
CHECK_DEADLOCK FALSE
SYMMETRY AgentSymmetry
