CONSTANTS
  i1 = i1
  i2 = i2
  Irp = {i1, i2}
  Entry = {a}
  Replier = {r1}
  None = None
  Kind <- CreateAndCleanup
  MaxOplockBreaks = 1
  MaxResets = 1
SPECIFICATION FairSpec
INVARIANTS
  Ownership
  OrphanedOnlyThen
  SettledUnlessUnmounted
PROPERTY ContractKept ListedIsAnswered
CHECK_DEADLOCK FALSE
