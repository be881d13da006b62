CONSTANTS
  None = None
  MaxIfaces = 4
  Skew <- MCSkew
  MaxFrames = 3
  MaxClosed = 1
  LastPackets = 2
CHECK_DEADLOCK FALSE
SPECIFICATION Spec
INVARIANTS
  Forest
  TimesAgree
  ParsedOnce
PROPERTIES
  ImplementsTimebases
