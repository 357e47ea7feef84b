SPECIFICATION Spec
CONSTANTS
  Windows = {w1, w2}
  Socks = {s1, s2}
  Nobody = Nobody
  Direct = direct
  Kinds = {network, direct}
  MaxSessions = 2
SYMMETRY Symmetry
INVARIANTS UplinkIsOpen UploaderHearsSeeks DisconnectEnds OwnerCancelReturns
PROPERTIES ImplementsFeed
CHECK_DEADLOCK FALSE
