SPECIFICATION Spec
CONSTANTS
  Shapes <- MCShapes
  Quoted <- MCQuoted
  Absent = Absent
  Byte = 4
  MaxDepth = 2
  sender_rank_inverted = TRUE
INVARIANTS
  RightHandler
  OptionsExact
  ContentExplained
