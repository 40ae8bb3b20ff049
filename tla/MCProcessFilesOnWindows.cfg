SPECIFICATION Spec
CONSTANTS
  NumFiles = 3
  ThreadChoices = {0, 1, 2, 4}
  MaxSize = 4
  PipeCapacity = 3
  BufferSize = 2
INVARIANTS
  NoHandleLeft
  ShortOnlyIfDiedOrNul
PROPERTIES
  ReportSpec
  CallReturns
