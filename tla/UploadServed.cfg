SPECIFICATION Spec
CONSTANTS
  Readers = {r1}
  NSegs = 4
  Capacity = 2
  Limits = {1, 2}
  Windows = {0, 2}
  Starts <- FreshOrResumed
  MaxReads = 2
INVARIANTS FlightsAnswered SpeculationBounded AckedWasReceived
PROPERTIES ImplementsStore DemandServed
CHECK_DEADLOCK FALSE
