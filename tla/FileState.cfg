SPECIFICATION Spec
CONSTANTS
  Handle = {h1, h2}
  NoHandle = none
  Request = {r1, r2}
  Kinds <- AllKinds
  Offset = {0, 1}
  Sizes = {1}
  MaxRequests = 3
SYMMETRY Symmetry
INVARIANTS SizeAtRest PositionNotNegative DeletePendingAgrees LargeContentFreedOnce
CHECK_DEADLOCK FALSE
