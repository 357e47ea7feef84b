SPECIFICATION Spec
CONSTANTS
  Worker = w
  Cancellers = {k1}
  Conns = {c1, c2}
  MaxTracked = 2
  MaxSessions = 2
SYMMETRY Symmetry
INVARIANTS PinnedOpen NoLeak DrainReachesAll
PROPERTIES ImplementsLease
CHECK_DEADLOCK FALSE
