------------------------------ MODULE MCKernel ------------------------------
(* Model-checking instances of Kernel.                                    *)
(*  - MCTerms/MCMaxProcesses: the three terminals of terminal.h and two    *)
(*    dynamic PIDs, enough for an execute nested below a child and for     *)
(*    two terminals competing for a PID.                                   *)
(*  - MCTermsSmall/MCMaxProcessesSmall: two terminals and one dynamic PID, *)
(*    for the runs where system calls are preemptible, whose graphs are    *)
(*    far larger.  Both terminals still compete for the one PID.           *)
EXTENDS Kernel

MCTerms             == 3
MCMaxProcesses      == 5
MCTermsSmall        == 2
MCMaxProcessesSmall == 3
MCMaxEnters         == 1

=============================================================================
