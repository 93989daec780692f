SPECIFICATION ExecSpec
CONSTANTS
  PC_SPACE = 4
  Sources <- MCSources
  MTVEC_BASE = 2
  MTVEC_VECTORED = TRUE
  INT_CODE <- MCIntCode
  LSU_LIVE_LOAD = TRUE
  CsrOps <- MCCsrOps
  WFI_PAIRS = TRUE
PROPERTIES
  PreciseTraps
