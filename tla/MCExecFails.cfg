\* Programs that open no files, and run only each other.
CONSTANTS
  MaxFds = 5
  Files = {init, sh, text}
  Dirs = {dir}
  Progs = {init, sh}
  Root = init
  Junk = Junk
  Ptrs = {p1, p2, p3, p4, p5}
  p1 = p1
  p2 = p2
  p3 = p3
  StdPtrs <- MCStdPtrs
  ProcPtrs = {q1, q2, q3}
  NULL = NULL
  MaxCount = 0
  IdxRange = 1
  OpenNodes = {}
  OpenModes <- MCModes
  NumPc = 2
  MaxDepth = 3
SPECIFICATION ProcSpec
PROPERTY ProgramsRun
SYMMETRY MCSymmetry
CHECK_DEADLOCK FALSE
