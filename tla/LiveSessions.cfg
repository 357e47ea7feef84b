SPECIFICATION FairSpec
CONSTANTS
  Readers = {r1, r2}
  Slots = {i1, i2, i3, i4}
  NSegs = 2
  SEG = 2
  MaxSessions = 2
  NoSlot = NoSlot
  Requests <- SessionRequests
INVARIANTS ReadIntegrity MemorySafe
PROPERTIES ImplementsFeed AbortReleases DestroyFrees
CHECK_DEADLOCK FALSE
