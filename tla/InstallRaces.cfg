SPECIFICATION Spec
CONSTANTS
  Starters = {s1, s2}
  Cancellers = {k1}
  Readers = {}
  Kinds = {"network", "usb"}
  MayShutdown = FALSE
  MaxWorkers = 2
SYMMETRY Symmetry
INVARIANTS InstallingHasWorker JoinedOnce ServerHasWorker
CHECK_DEADLOCK FALSE
