SPECIFICATION UnitSpec
CONSTANTS
  BUF_DEPTH = 8
  ADDR_SPACE = 64
  IMEM_BYTES = 32
  EXEC_REDIR_INCYCLE = TRUE
  BOOT_ADDR = 0
  Targets <- MCTargets
INVARIANTS
  RoomInv
  StaleExact
  ResponseNeverRefused
  StampsTrue
  StreamContiguous
PROPERTIES
  UnitImplementsFetch
