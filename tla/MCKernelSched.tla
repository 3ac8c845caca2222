--------------------------- MODULE MCKernelSched ---------------------------
(* Model-checking instances of KernelSched, with the bounds of MCKernel.   *)
EXTENDS KernelSched

MCTerms             == 3
MCMaxProcesses      == 5
MCTermsSmall        == 2
MCMaxProcessesSmall == 3
MCMaxEnters         == 1

=============================================================================
