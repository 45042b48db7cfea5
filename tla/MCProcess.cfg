\* Every behaviour, failed execs and full tables included.
CONSTANTS
  MaxFds = 6
  Files = {init, sh, text}
  Dirs = {dir}
  Progs = {init, sh}
  Root = init
  Junk = Junk
  Ptrs = {p1, p2, p3, p4, p5, p6}
  p1 = p1
  p2 = p2
  p3 = p3
  StdPtrs <- MCStdPtrs
  ProcPtrs = {q1, q2, q3}
  NULL = NULL
  MaxCount = 0
  IdxRange = 1
  OpenNodes = {text}
  OpenModes <- MCModes
  NumPc = 2
  MaxDepth = 3
SPECIFICATION ProcSpec
INVARIANT ProcInv
PROPERTIES
  DescriptorsPersist
  CallStackSpec
SYMMETRY MCSymmetry
CHECK_DEADLOCK FALSE
