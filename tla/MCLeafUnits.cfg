SPECIFICATION UnitsSpec
CONSTANTS
  e1 = e1
  e2 = e2
  Depth = 8
  Entries <- MCEntries
  H = 4
  XLEN = 4
  IDX_W = 2
  RAS_DEPTH = 2
  ReturnPcs = {1, 2, 3}
  Words = {0, 1}
  Lanes = {0, 1}
  Values = {0, 1}
  HOLD = 3
  GUARD = 20
INVARIANTS
  DeadlineExact
  DividerExact
  PredictorExact
  RamExact
  BenchPasses
PROPERTIES
  RingImplementsQueue
