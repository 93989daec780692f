SPECIFICATION EchoSpec
CONSTANTS
  PHASE_CHARS = 2  MSI_SPIN_LIMIT = 2  TX_DEPTH = 1  RX_DEPTH = 4  UserMax = 4
  Strays = {}
PROPERTY ResultWritten
CHECK_DEADLOCK FALSE
