\* Lines that fit on the screen, into buffers that are too short, just long enough
\* and long enough.
CONSTANTS
  W = 2
  H = 2
  MaxBuf = 3
  MaxLine = 2
  MaxOut = 2
  Letters <- MCLetters
SPECIFICATION Spec
INVARIANTS
  InBounds
  EchoFaithful
  ScreenShowsText
PROPERTY LineReturned
