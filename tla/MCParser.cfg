CONSTANTS
  Starts = {"Text", "Anything", "Nothing"}
  NameTokens = {"ident", "quoted def"}
  MaxText = 15
  MaxDepth = 8
  Alphabet = {"n", "a", "+", "-", "*", "(", ")", ".", ">"}
  MaxTokens = 6
SPECIFICATION MCSpec
CHECK_DEADLOCK FALSE
INVARIANTS
  CanBeCompleted
  ReadsAsWritten
PROPERTIES
  AcceptsTheNotation
  ParseReturns
