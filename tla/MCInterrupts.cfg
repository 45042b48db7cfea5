\* Keys, ticks and the drive in any order, and any calls of the program.
CONSTANTS
  MaxKeys = 3
  QueueLen = 2
  MaxGot = 5
  MaxTicks = 1
  MaxNoise = 1
  MaxDisk = 2
SPECIFICATION IntSpec
INVARIANTS
  PicInv
  AtMostTwice
PROPERTIES
  LastArrives
  RequestsServed
CHECK_DEADLOCK FALSE
