\* The page vidmap hands out, after boot, execute/halt, PIT ticks and
\* display switches: does it show the executing terminal's own screen?
CONSTANTS
  NUM_TERMINALS <- MCTerms
  MAX_NUM_PROCESSES <- MCProcesses
  TERMS_ADDR <- MCTermsAddr
  PT0_FRAME <- MCPt0Frame
  VPT_FRAME <- MCVptFrame
SPECIFICATION Spec
INVARIANT VidmapShowsOwnScreen
