\* System calls entered with IF = 1 (what rtc_read needs), user programs
\* writing frequencies of the table: every started terminal keeps being
\* scheduled and every rtc_read returns.
CONSTANTS
  NUM_TERMINALS <- MCTermsSmall
  MAX_NUM_PROCESSES <- MCMaxProcessesSmall
  MaxEnters <- MCMaxEnters
  Frequencies <- MCTableFrequencies
  SyscallIF = TRUE
  NULL = NULL

SPECIFICATION Spec

PROPERTY TerminalsScheduled
PROPERTY RtcReadReturns
