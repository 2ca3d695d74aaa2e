SPECIFICATION Spec
CONSTANTS
  Slot = {s1}
  Kind <- MCKind
  Lengths <- MCLengths
  NameLengths <- MCNameLengths
  NeededLengths <- MCNeededLengths
  MaxStreams = 2
  MaxRequests = 2
  PoolLimit = 1
INVARIANTS SizesAgree InformationFits OnlyWrittenReturned
CHECK_DEADLOCK FALSE
