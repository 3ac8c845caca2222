\* rtc_write of a frequency outside the table: set_frequency writes an
\* uninitialised rate, which may be 0, and the RTC stops.
CONSTANTS
  NUM_TERMINALS <- MCTermsSmall
  MAX_NUM_PROCESSES <- MCMaxProcessesSmall
  MaxEnters <- MCMaxEnters
  Frequencies <- MCOtherFrequencies
  SyscallIF = TRUE
  NULL = NULL

SPECIFICATION Spec

PROPERTY RtcReadReturns
