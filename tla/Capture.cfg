SPECIFICATION FairSpec
CONSTANTS
  Frames = {f1, f2, f3}
  Ipv6 = {f1, f2}
  None = None
  LastPackets = 2
  PipeSize = 1
  ReadSize = 2
  MaxStarts = 2
  MaxHeard = 3
  MaxUneasy = 2
  MaxPauses = 1
INVARIANTS NoFault PauseHolds FilterExact StreamExact FileExact OneTshark ErrorsExplained
PROPERTY Delivered
CHECK_DEADLOCK FALSE
