\* Stock-style images.  The chain can always open, read, execute or halt,
\* so deadlock is checked.
CONSTANTS
  FD_ARRAY_LEN <- MCFdArrayLen
  FS_BLOCK_SIZE <- MCBlockSize
  Blocks <- MCBlocks
  Dentries <- MCDentries
  Names <- MCNames
  Images <- MCStockImages
  ReadSizes <- MCReadSizes
  MaxDepth <- MCMaxDepth
  EMPTY = EMPTY
  NULL = NULL
SPECIFICATION Spec
INVARIANT TypeOK ReadDataMatchesFile FileReadsInOrder DirReadsInOrder
