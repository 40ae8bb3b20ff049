SPECIFICATION Spec
CONSTANTS
  f1 = f1
  f2 = f2
  f3 = f3
  Names <- MCNames
  Threads = {0, 2}
  MaxChanges = 2
INVARIANTS
  SteadyFilesListedOnce
  SuccessIsCompleteReport
PROPERTY RunEnds
