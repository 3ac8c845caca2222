------------------------- MODULE MCFileDescriptors -------------------------
(* Bounds for FileDescriptors: blocks of 2 bytes, two data blocks, a file *)
(* of up to 4 bytes over data_index[0 .. 2], four dentries (one unused),  *)
(* three fd slots (one for the program), and a boot shell with one child.  *)
EXTENDS FileDescriptors, TLC

MCFdArrayLen == 3
MCBlockSize  == 2
MCBlocks     == (0 :> << 1, 2 >>) @@ (1 :> << 3, 4 >>)
MCDentries   ==
  (0 :> [name |-> "rtc", file_type |-> 0, inode_index |-> 0]) @@
  (1 :> [name |-> ".",   file_type |-> 1, inode_index |-> 0]) @@
  (2 :> [name |-> EMPTY, file_type |-> 0, inode_index |-> 0]) @@
  (3 :> [name |-> "f",   file_type |-> 2, inode_index |-> 0])
MCNames      == {"rtc", ".", "f", "nosuch", EMPTY}
MCReadSizes  == {1, 3}
MCMaxDepth   == 2

\* Images as in the stock file system: every data_index entry, used or
\* not, names a data block.
MCStockImages ==
  {[length |-> l, data_index |-> di] : l \in 0 .. 4, di \in [0 .. 2 -> 0 .. 1]}

\* Images the spec allows: the blocks the file uses are valid, an unused
\* data_index entry may hold anything (2 is past the last block).
MCSpecImages ==
  {img \in [length : 0 .. 4, data_index : [0 .. 2 -> 0 .. 2]] :
     \A i \in 0 .. (img.length - 1) \div 2 : img.data_index[i] < 2}
=============================================================================
