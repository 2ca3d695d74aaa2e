SPECIFICATION Spec
CONSTANTS
  r1 = r1
  r2 = r2
  v1 = v1
  v2 = v2
  v3 = v3
  Request = {r1, r2}
  Vector = {v1, v2, v3}
  NoVector = NoVector
  FileName <- TwoFiles
  Expression = "*b"
  Fits <- OnlyAB
  Length <- Lengths
  Size <- Sizes
  Handle <- Handles
  MemoryFails = FALSE
SYMMETRY Symmetry
INVARIANTS
  EnumerationComplete
  SuccessReturnsEntry
  ListsApart
