CONSTANTS
  h1 = h1 h2 = h2 h3 = h3
  Handle = {h1, h2}
  Fcb = {f1, f2, f3}
  Name = {a, b}
  None = None
  Exclusive <- First
  DeleteOnClose <- First
  Ops = {"delete", "undelete", "rename"}
  GarbageCollection = TRUE
  MayUnmount = FALSE
  MaxFailures = 0
  MaxBreaks = 0
  MaxRenames = 1
  Modulus = 16
SPECIFICATION Spec
SYMMETRY FcbSymmetry
CHECK_DEADLOCK FALSE
INVARIANT OpenCountExact TableExact SharingRespected
