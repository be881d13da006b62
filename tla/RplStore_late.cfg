\* Is a change that the GUI makes while a packet is committed seen by a commit?
CONSTANTS
  n1 = n1
  d1 = d1
  l1 = l1
  Clean = clean
  Deprecated = deprecated
  Absent = Absent
  Packet = Packet
  Refs = {n1, l1}
  TypeOf <- MCTypeOfTwo
  Vals = {clean, deprecated}
  InitialSize = 2
  MaxWsn = 2
  MaxCount = 1
  MaxEvents = 3
  CleanClear = FALSE
  GuiInterleaves = TRUE
SPECIFICATION Spec
CHECK_DEADLOCK FALSE
INVARIANTS NoChangeForgotten
