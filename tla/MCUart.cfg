SPECIFICATION PlaySpec
CONSTANTS
  TX_FIFO_DEPTH = 2
  RX_FIFO_DEPTH = 2
  NBITS = 2
  BAUD_DIV_RESET = 2
  Divs <- MCDivs
  WriteReqs <- MCWrites
  Reads <- MCReads
  GAP_CYCLES = 10
  PlayBytes <- MCPlay
  PlayMax = 4
INVARIANTS
  FramesExact
  NothingVanishes
  RxQueueExact
  DriverPaced
PROPERTIES
  ReadTakesOldest
