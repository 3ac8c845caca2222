\* Does a read keep the bytes behind the ones it takes?
CONSTANTS
  BUFF_SIZE <- MCBuffSize
  ReadSizes <- MCReadSizes
  MaxEnters <- MCMaxEnters
  Chars = {a, b}
  NL = NL
  NUL = NUL
SPECIFICATION Spec
PROPERTY ShiftKeepsRest
CHECK_DEADLOCK FALSE
