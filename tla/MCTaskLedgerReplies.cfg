SPECIFICATION Spec
CONSTANTS
  Procs = {p1}
  Workers = {p1, w1}
  Cards = {c1}
  Messages = {m1, m2}
  Linked = {c1}
  Nobody = Nobody
INVARIANTS ReplyRecordedOnce
PROPERTIES ResolvedStaysResolved
CHECK_DEADLOCK FALSE
