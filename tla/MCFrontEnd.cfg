SPECIFICATION FrontSpec
CONSTANTS
  BUF_DEPTH = 8
  ADDR_SPACE = 128
  IMEM_BYTES = 16
  EXEC_REDIR_INCYCLE = FALSE
  BOOT_ADDR = 0
  Targets <- MCTargets
  Programs <- MCPrograms
INVARIANTS
  PredictionIsOwn
  NeverDry
PROPERTIES
  FrontImplementsStream
