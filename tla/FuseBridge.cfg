SPECIFICATION Spec
CONSTANTS
  None = None
  a = a
  b = b
  f1 = f1
  f2 = f2
  f3 = f3
  t1 = t1
  t2 = t2
  File = {f1, f2}
  Thread = {t1, t2}
  Name = {a, b}
  Layouts <- Both
  Target <- Targets
  Ops <- AllOps
  Events <- AllEvents
  Options <- Mixed
  Ranges <- OneRange
  Spans <- OneSpan
INVARIANT LocksExact
INVARIANT NameIsCurrent
INVARIANT ReleasedOnce
PROPERTY LocksBind
CONSTRAINT NotCrossed
SYMMETRY SymBoth
CHECK_DEADLOCK FALSE
