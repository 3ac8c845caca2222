\* With IF = 0 in system calls, a task in rtc_read never returns.
CONSTANTS
  NUM_TERMINALS <- MCTerms
  MAX_NUM_PROCESSES <- MCMaxProcesses
  MaxEnters <- MCMaxEnters
  SyscallIF = FALSE
  NULL = NULL

SPECIFICATION SchedSpec

PROPERTY RtcReadReturns

\* The hang is a state without successors; it is reported as the stuttering
\* that RtcReadReturns forbids.
CHECK_DEADLOCK FALSE
