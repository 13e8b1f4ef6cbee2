SPECIFICATION Spec
CONSTANTS
  Newline = Newline
  Symbols <- MCSymbols
  LINE_MAX_SIZE = 3
  Bytes = {b, Nul}
  b = b
  Nul = Nul
  MTN_MSG_LEN = 25
  MessageIds = {0, 1000}
  StampLengths = {0, 10, 12}
  MaxConfig = 1
  MaxList = 1
  MaxMessage = 7
  Inputs <- MCInputs
CHECK_DEADLOCK FALSE
INVARIANTS
  BlocksNumbered
