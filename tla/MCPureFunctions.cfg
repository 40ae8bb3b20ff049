SPECIFICATION FunctionsSpec
CONSTANTS
  x = x
  y = y
  Letters <- MCLetters
  Blank = Blank
  Newline = Newline
  MaxLength = 4
  Modulus = 256
  MaxInt = 15
INVARIANT CountsAreRight
INVARIANT FibIsRight
PROPERTY FibReturns
