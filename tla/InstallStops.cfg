SPECIFICATION FairSpec
CONSTANTS
  Starters = {s1}
  Cancellers = {k1}
  Readers = {r1}
  Kinds = {"usb"}
  MayShutdown = TRUE
  MaxWorkers = 2
PROPERTIES ImplementsLease CancelReturns CancelObeyed DetachObeyed ShutdownEnds
CHECK_DEADLOCK FALSE
