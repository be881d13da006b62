\* Are past versions left alone?
CONSTANTS
  n1 = n1
  d1 = d1
  l1 = l1
  Clean = clean
  Deprecated = deprecated
  Absent = Absent
  Packet = Packet
  Refs = {n1, l1}
  TypeOf <- MCTypeOfTwo
  Vals = {clean, deprecated}
  InitialSize = 2
  MaxWsn = 3
  MaxCount = 2
  MaxEvents = 4
  CleanClear = TRUE
  GuiInterleaves = FALSE
SPECIFICATION Spec
PROPERTIES HistoryFrozen
