SPECIFICATION FairSpec
CONSTANTS
  Worker = w
  Cancellers = {k1}
  Conns = {c1, c2}
  MaxTracked = 1
  MaxSessions = 1
PROPERTIES StoppingEnds KickedEnds
CHECK_DEADLOCK FALSE
