\* Do the keyboard IRQ and terminal_read stay inside key_buff?
CONSTANTS
  BUFF_SIZE <- MCBuffSize
  ReadSizes <- MCReadSizes
  MaxEnters <- MCMaxEnters
  Chars = {a, b}
  NL = NL
  NUL = NUL
SPECIFICATION Spec
INVARIANT KeyBuffInBounds
CHECK_DEADLOCK FALSE
