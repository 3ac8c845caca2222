------------------------------ MODULE MCI8259 ------------------------------
(* Model-checking instance of I8259: three terminals, normal EOI mode.    *)
EXTENDS I8259

MCTerms == 3

=============================================================================
