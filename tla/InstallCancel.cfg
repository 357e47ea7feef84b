SPECIFICATION Spec
CONSTANTS
  Starters = {s1}
  Cancellers = {k1}
  Readers = {}
  Kinds = {"network", "usb"}
  MayShutdown = FALSE
  MaxWorkers = 2
PROPERTIES CancelHolds
CHECK_DEADLOCK FALSE
