\* Three volumes, to which two files or directories are added.
CONSTANTS
  MaxCl = 8
  NSlots = 4
  RootCl = 2
  Disks <- MCDisks
  Paths <- MCPaths
  NewNames = {"new"}
  Lens = {0, 2}
  MaxCreates = 2
SPECIFICATION Spec
INVARIANTS
  TreeShowsDisk
  PathsLead
  EntriesSound
PROPERTY PowerLossKeeps
CHECK_DEADLOCK FALSE
