\* Control and paging state, system calls entered with IF = 0 (interrupt
\* gates).  Two terminals and three dynamic PIDs: a chain three deep below
\* a shell, and two terminals competing for PIDs.
CONSTANTS
  NUM_TERMINALS <- MCTermsSmall
  MAX_NUM_PROCESSES <- MCMaxProcesses
  MaxEnters <- MCMaxEnters
  SyscallIF = FALSE
  NULL = NULL
  VGA = VGA

SPECIFICATION Spec

INVARIANT TypeOK
INVARIANT UserWindowIsLeaf
INVARIANT TreeWellFormed
INVARIANT UniqueTaskPids

\* rtc_read spins with IF = 0 before any RTC tick and the machine stops
\* there (run rtc_hang); that state has no successor.
CHECK_DEADLOCK FALSE
