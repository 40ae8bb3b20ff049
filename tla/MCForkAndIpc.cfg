SPECIFICATION Spec
\* Users stop typing, and a reader without a writer loops without an effect.
CHECK_DEADLOCK FALSE
CONSTANTS
  r1 = r1
  r2 = r2
  t1 = t1
  t2 = t2
  t3 = t3
  Lengths = {0, 1, 2, 3, 4, 5, 6, 7, 9, 15, 18}
  IntSize = 16
  MaxFailures = 2
  CopyBuffer = 2
  FifoTexts <- MCFifoTexts
  MaxTypedFifo = 2
  ReadBuffer = 3
  Receivers <- MCReceivers
  Types = {0, 1, 2}
  Capacity = 2
  MaxRuns = 2
  MaxTyped = 3
  CellTexts <- MCCellTexts
  Waiters <- MCWaiters
INVARIANTS
  NeverWrong
  CopyIsComplete
  LeavesOnlyOnQuit
PROPERTIES
  QuitIsHeeded
  WaitersReturn
