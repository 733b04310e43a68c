SPECIFICATION Spec
CONSTANTS
  Procs = {p1, p2}
  Workers = {p1, p2}
  Cards = {c1}
  Messages = {}
  Linked = {c1}
  Nobody = Nobody
SYMMETRY Symmetry
INVARIANTS TypeOK CardsConsistent
PROPERTIES LifecycleUnlessStale
CHECK_DEADLOCK FALSE
