SPECIFICATION Spec
CONSTANTS
  Windows = {w1, w2}
  Socks = {s1, s2}
  Nobody = Nobody
  Direct = direct
  Kinds = {direct}
  MaxSessions = 2
PROPERTIES DiskEndSparesUpload
CHECK_DEADLOCK FALSE
