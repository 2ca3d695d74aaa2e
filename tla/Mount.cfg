SPECIFICATION Spec
CONSTANTS
  A = A
  B = B
  P = P
  Dcb = {d1, d2}
  NoDcb = none
  Letter = {A, B}
  Directory = {P}
  NoPoint = nopoint
  MaxReleases = 1
  Request <- Requests
INVARIANTS TornDownOnce UsedIsLive 
SYMMETRY Symmetry
CHECK_DEADLOCK FALSE
