---------------------------- MODULE MCKernelRtc ----------------------------
(* Model-checking instances of KernelRtc, with the bounds of sched_live.   *)
EXTENDS KernelRtc

MCTermsSmall        == 2
MCMaxProcessesSmall == 3
MCMaxEnters         == 1

\* Frequencies of rtc.h's table: one that returns early, one that sets a rate.
MCTableFrequencies  == {1024, 32768}
\* A frequency the table does not hold (not a power of two).
MCOtherFrequencies  == {3}
=============================================================================
