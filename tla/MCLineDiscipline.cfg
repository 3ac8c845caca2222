\* Buffer of 4 bytes, two printable keys, reads of 1 byte and of a whole
\* buffer.  Deadlock is not checked: the model stops after an access
\* outside key_buff, and a full buffer with no line typed has no step.
CONSTANTS
  BUFF_SIZE <- MCBuffSize
  ReadSizes <- MCReadSizes
  MaxEnters <- MCMaxEnters
  Chars = {a, b}
  NL = NL
  NUL = NUL
SPECIFICATION Spec
INVARIANT TypeOK
CHECK_DEADLOCK FALSE
