\* The store under calls that do not overlap and clears with no event queued.
CONSTANTS
  n1 = n1
  d1 = d1
  l1 = l1
  Clean = clean
  Deprecated = deprecated
  Absent = Absent
  Packet = Packet
  Refs = {n1, l1}
  TypeOf <- MCTypeOfTwo
  Vals = {clean, deprecated}
  InitialSize = 2
  MaxWsn = 3
  MaxCount = 2
  MaxEvents = 4
  CleanClear = TRUE
  GuiInterleaves = FALSE
SPECIFICATION FairSpec
INVARIANTS TypeOK ChangedIffQueued NoFault MirrorAgrees ArrayInBounds
PROPERTIES ImplementsSnapshots CommitDelivers
