SPECIFICATION Spec
CONSTANTS
  Procs = {p1, p2}
  Workers = {p1, p2}
  Cards = {c1}
  Messages = {m1}
  Linked = {c1}
  Nobody = Nobody
INVARIANTS FirstClaimWins
CHECK_DEADLOCK FALSE
