CONSTANTS
  h1 = h1 h2 = h2 h3 = h3
  Handle = {h1, h2}
  Fcb = {f1, f2}
  Name = {a}
  None = None
  Exclusive <- First
  DeleteOnClose <- First
  Ops = {"delete"}
  GarbageCollection = TRUE
  MayUnmount = TRUE
  MaxFailures = 1
  MaxBreaks = 1
  MaxRenames = 0
  Modulus = 16
SPECIFICATION FairSpec
CHECK_DEADLOCK FALSE
INVARIANT CcbsExact UncleanNeverShort
PROPERTY GarbageCollected
