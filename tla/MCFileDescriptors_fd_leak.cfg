\* Spec 4.F: does every program start with only stdin and stdout open?
CONSTANTS
  FD_ARRAY_LEN <- MCFdArrayLen
  FS_BLOCK_SIZE <- MCBlockSize
  Blocks <- MCBlocks
  Dentries <- MCDentries
  Names <- MCNames
  Images <- MCStockImages
  ReadSizes <- MCReadSizes
  MaxDepth <- MCMaxDepth
  EMPTY = EMPTY
  NULL = NULL
SPECIFICATION Spec
INVARIANT FdsOwnedByProgram
