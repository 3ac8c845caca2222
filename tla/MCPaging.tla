------------------------------ MODULE MCPaging ------------------------------
(* Paging with the kernel's sizes: three terminals, seven PIDs, and terms[] *)
(* and the two page tables at 4 KiB-aligned .bss addresses above 4 MiB.    *)
EXTENDS Paging

MCTerms     == 3
MCProcesses == 7
MCTermsAddr == 4325376     \* 0x420000
MCPt0Frame  == 1060        \* 0x424000 >> 12
MCVptFrame  == 1061        \* 0x425000 >> 12
=============================================================================
