\* Machines of every kind, and two lines typed in the shell of those that start.
CONSTANTS
  NParts = 2
  Shells <- MCShells
  Disk <- MCDisk
  Lines <- MCLines
  NULL = NULL
  Config <- MCConfig
  MaxFds = 11
  BufSz = 4
  Row = 2
  Pixels = 2
  AddrRange = 6
  MaxLines = 2
  Addrs = {1, 2, 3, 4, 5}
  Chars = {0, 1, 2}
  IntMod = 256
  OneByte = {0, 9, 10, 15, 16, 171, 255}
  OneWord = {0, 1, 15, 16, 255, 256, 4095, 4096, 43981, 65535}
  Letters = {"a", "d"}
  CmdSize = 3
  MaxText = 4
  MaxParts = 3
SPECIFICATION SysSpec
INVARIANTS
  SetUpBeforeUse
  BootOutcome
  Transcript
  FdsAccounted
  LibraryRight
PROPERTIES
  BootEnds
  PromptReturns
CHECK_DEADLOCK FALSE
