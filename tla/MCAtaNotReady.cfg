\* A command to a drive that still writes.
CONSTANTS
  Sectors = {s1, s2}
  Bufs = {a, b}
  NULL = NULL
  NoData = NoData
SPECIFICATION AtaSpec
PROPERTY ReadyWhenCommanded
CHECK_DEADLOCK FALSE
