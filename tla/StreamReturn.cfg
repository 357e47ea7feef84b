SPECIFICATION FairSpec
CONSTANTS
  Worker = w
  Cancellers = {k1}
  Conns = {c1}
  MaxTracked = 2
  MaxSessions = 1
PROPERTIES StopReturns
CHECK_DEADLOCK FALSE
