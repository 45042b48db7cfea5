\* Two descriptors to open, a file and a directory.
CONSTANTS
  MaxFds = 5
  Files = {f}
  Dirs = {d}
  Ptrs = {p1, p2, p3, p4, p5}
  p1 = p1
  p2 = p2
  p3 = p3
  StdPtrs <- MCStdPtrs
  NULL = NULL
  MaxCount = 1
  IdxRange = 3
SPECIFICATION Spec
INVARIANT TableInv
PROPERTIES
  DescriptorsSpec
  LowestGiven
SYMMETRY MCSymmetry
CHECK_DEADLOCK FALSE
