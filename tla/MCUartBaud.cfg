SPECIFICATION PlaySpec
CONSTANTS
  TX_FIFO_DEPTH = 2
  RX_FIFO_DEPTH = 2
  NBITS = 2
  BAUD_DIV_RESET = 1
  Divs <- MCDivs
  WriteReqs <- MCBaudWrites
  Reads <- MCNoReads
  GAP_CYCLES = 10
  PlayBytes <- MCPlay
  PlayMax = 0
INVARIANTS
  DivisorNotLost
