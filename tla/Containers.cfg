CONSTANTS
  size = 4
  Values = {v1, v2, v3}
  Garbage = Garbage
  NULL = NULL
  Keys = {k1, k2, k3}
  NoKey = NoKey
  Data = {zero, d1}
  Constructed = zero
  Iterators = {parser, gui}
  MaxElements = 4
SPECIFICATION MCSpec
SYMMETRY MCSymmetry
CHECK_DEADLOCK FALSE
INVARIANTS ResultIntact IterationExact
PROPERTIES ImplementsFifo ImplementsMap
