\* A volume whose first sector of the table is in use throughout.
CONSTANTS
  Files = {"a", "b"}
  Handles = {h1, h2}
  NULL = NULL
  ClSizes = {1, 2}
  PerSector = 4
  Spf = 3
  Root = 5
  Inode <- MCInode
  Fat0 <- MCFull
  Len0 <- MCLen
  MaxWrites = 5
  MaxOpens = 3
  MaxPos = 5
  AnyPos = {3}
  AnyCluster = {5}
SPECIFICATION Spec
PROPERTY GrowsIntoUnused
SYMMETRY MCSymmetry
CHECK_DEADLOCK FALSE
