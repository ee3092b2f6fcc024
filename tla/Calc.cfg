SPECIFICATION CalcSpec
CONSTANTS
  STACK = 4
  WIDTH = 4
  Numerals = {"0", "3", "8", "15"}
  Value <- SmallValue
  Operators = {"&", "-", "/", "%", "^"}
  MAX_TOKENS = 7
  MAX_MALFORMED = 5
  Reading <- ReferenceReading
INVARIANT StackDiscipline
INVARIANT CalcCorrect
CHECK_DEADLOCK FALSE
