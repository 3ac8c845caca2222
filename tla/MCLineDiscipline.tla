------------------------- MODULE MCLineDiscipline -------------------------
(* A buffer of 4 bytes (3 printable + the reserved one), two printable     *)
(* bytes so that a lost or moved byte shows, and reads of 1 byte (shorter  *)
(* than any line with text) and of a whole buffer (the shell's 128).       *)
EXTENDS LineDiscipline

MCBuffSize  == 4
MCReadSizes == {1, MCBuffSize}
MCMaxEnters == 2

=============================================================================
