\* Normal EOI (ICW4 bit 1 clear), the mode in which the send_eoi calls
\* matter: no level stays in service and every IRQ line stays live.
CONSTANTS
  NUM_TERMINALS <- MCTerms
  AutoEOI = FALSE

SPECIFICATION Spec

INVARIANT InServiceOwned
PROPERTY RequestsServed
PROPERTY RtcKeepsTicking
