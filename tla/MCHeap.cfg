\* The heap, three blocks held at a time, of three sizes.
CONSTANTS
  Base = 0
  HdrSize = 1
  Sizes <- MCSizes
  MaxLive = 3
SPECIFICATION Spec
INVARIANTS
  MemorySafe
  NeverNull
  BoundedGrowth
  HeapInv
PROPERTY AllocSpec
