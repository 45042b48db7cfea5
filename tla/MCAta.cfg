\* A drive of two sectors, that fails or not, for callers that write or not.
CONSTANTS
  Sectors = {s1, s2}
  Bufs = {a, b}
  NULL = NULL
  NoData = NoData
SPECIFICATION AtaSpec
INVARIANT AtaInv
PROPERTIES
  ReadReturnsData
  TransfersNeeded
  ReadsReturn
CHECK_DEADLOCK FALSE
