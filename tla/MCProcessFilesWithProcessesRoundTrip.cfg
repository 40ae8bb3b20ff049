SPECIFICATION SafetySpec
CONSTANTS
  alpha = alpha
  beta = beta
  cutWord = cutWord
  NumFiles = 3
  ThreadChoices = {2}
  Words = {alpha, beta, cutWord}
  NulWords = {cutWord}
  Directories <- OnlyWithNul
  PipeCapacity = 2
  BufferSize = 2
INVARIANT RoundTrip
