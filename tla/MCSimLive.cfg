SPECIFICATION SimSpec
CONSTANTS
  PC_SPACE = 1
  Sources = {"MTI"}
  MTVEC_BASE = 0
  MTVEC_VECTORED = FALSE
  INT_CODE <- MCIntCode
  LSU_LIVE_LOAD = TRUE
  CsrOps <- MCCsrOps
  WFI_PAIRS = FALSE
  WFI_STUCK_N = 1
  WFI_HALT_N = 3
INVARIANTS
  CyclesCharged
