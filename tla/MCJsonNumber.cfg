SPECIFICATION Spec
CONSTANTS
  MaxInt = 7
  MaxUInt = 15
  MaxInt64 = 127
  MaxUInt64 = 255
  RightMargin = 24
  Lexemes <- MCLexemes
  MaxTokens = 0
  MaxDepth = 2
  Elements <- MCElements
  MaxLength = 4
  Values = {v1, v2}
  Objects = {o1, o2}
  Blocks = {b1, b2, b3, b4, b5}
INVARIANTS LargeIsDouble
CHECK_DEADLOCK FALSE
