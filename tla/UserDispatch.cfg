CONSTANTS
  File = {f1}
  Main = {m1}
  Worker = {w1, w2}
  Batch = {b1, b2, b3, b4, b5}
  OpenInfo = {o1}
  None = None
  BatchPoolSize = 1
  MaxRequests = 4
  MaxBatch = 2
  MaxGiveUps = 1
  GiveUpWaiting = FALSE
  MaxFailures = 1
  MayUnmount = TRUE
SPECIFICATION FairSpec
CHECK_DEADLOCK FALSE
INVARIANT CountsExact BufferOwned CloseFileIsLast
PROPERTY EveryRequestServed ThreadsReturn
