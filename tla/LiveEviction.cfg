SPECIFICATION Spec
CONSTANTS
  Readers = {r1, r2}
  Slots = {i1, i2, i3, i4}
  NSegs = 5
  SEG = 1
  MaxSessions = 1
  NoSlot = NoSlot
  Requests <- EvictionRequests
SYMMETRY Symmetry
INVARIANTS SlotMapOK WaitersExact WaitedWriteNeverBusy
PROPERTIES ImplementsStore HeaderPinned AwaitedSegmentStays ReceivedOnlyGrows
CHECK_DEADLOCK FALSE
