\* GUI calls overlap the handling of packets; a fault stops the process.
CONSTANTS
  n1 = n1
  d1 = d1
  l1 = l1
  Clean = clean
  Deprecated = deprecated
  Absent = Absent
  Packet = Packet
  Refs = {n1, l1}
  TypeOf <- MCTypeOfTwo
  Vals = {clean, deprecated}
  InitialSize = 2
  MaxWsn = 2
  MaxCount = 1
  MaxEvents = 4
  CleanClear = FALSE
  GuiInterleaves = TRUE
SPECIFICATION FairSpec
CHECK_DEADLOCK FALSE
INVARIANTS ClearExclusive UnchangedIsPublished
PROPERTIES PauseEnds
