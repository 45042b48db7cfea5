\* Two files, two of them open at a time, a table of two sectors.
CONSTANTS
  Files = {"a", "b"}
  Handles = {h1, h2}
  NULL = NULL
  ClSizes = {1, 2}
  PerSector = 5
  Spf = 2
  Root = 5
  Inode <- MCInode
  Fat0 <- MCRoom
  Len0 <- MCLen
  MaxWrites = 5
  MaxOpens = 3
  MaxPos = 5
  AnyPos = {3}
  AnyCluster = {5}
SPECIFICATION Spec
INVARIANTS
  FatSound
  CacheCoherent
PROPERTIES
  OthersUntouched
  WrittenIsKept
  ReadsTheFile
  FirstSectorSearched
SYMMETRY MCSymmetry
CHECK_DEADLOCK FALSE
