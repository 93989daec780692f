SPECIFICATION FirmwareSpec
CONSTANTS
  PHASE_CHARS = 2  MSI_SPIN_LIMIT = 2  TX_DEPTH = 1  RX_DEPTH = 2  UserMax = 5
  Strays = {"getc", "echo", "mtvec", "mst2msg", "donemsg"}
  IN_BUF_SIZE = 5  BASE = 2  DIGITS = 3  KeysMax = 6
  INPUT_MAX = 128  EnterAt = {0, 1, 5, 55, 56, 63, 64, 119, 120, 127}  Texts <- MCTexts
  N = 5  Values = {1, 2, 3}
  RAM = 24  BYTE = 4  LONG = 256  DEC_BUF = 5  HEX_BUF = 2  HEAP_BYTES = 20  Char <- MCChar  Calls <- MCCalls
  WORD = 64  CENT = 4  MEGA = 16  CLK_HZ = 8  ITERATIONS = 3  VAX_DHRY_PER_SEC = 3
  IterCycles = {0, 1, 3, 7, 12}  FaultMax = 2
  ListSize = 6  HiBytes = {0, 1}  CalcResults = {0, 1, 127}  find_num = 3
INVARIANTS EchoInOrder ProbesTrue LineObeyed DigestExact CallsSort LibraryExact ReportTrue ListRestored
PROPERTY EchoServed
CHECK_DEADLOCK FALSE
