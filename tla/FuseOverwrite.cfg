SPECIFICATION Spec
CONSTANTS
  None = None
  a = a
  b = b
  f1 = f1
  f2 = f2
  f3 = f3
  t1 = t1
  t2 = t2
  File = {f1, f2}
  Thread = {t1}
  Name = {a}
  Layouts <- OneFile
  Target <- NoTarget
  Ops <- AllOps
  Events <- PlainEvents
  Options <- Overwrites
  Ranges <- OneRange
  Spans <- OneSpan
INVARIANT OverwriteRecreates
CHECK_DEADLOCK FALSE
