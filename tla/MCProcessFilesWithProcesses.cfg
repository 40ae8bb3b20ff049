SPECIFICATION Spec
CONSTANTS
  alpha = alpha
  beta = beta
  cutWord = cutWord
  NumFiles = 3
  ThreadChoices = {0, 1, 2, 4}
  Words = {alpha, beta, cutWord}
  NulWords = {cutWord}
  Directories <- MCDirectories
  PipeCapacity = 2
  BufferSize = 2
INVARIANTS
  LoopHeadClean
  ReportedIsCounted
  FailedIsLeftOut
  AbortsOnlyOnNul
PROPERTIES
  ReportSpec
  CallReturns
