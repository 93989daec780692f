SPECIFICATION BusLive
CONSTANTS
  Window <- MCWindow
  Unmapped <- MCUnmapped
  Values <- MCValues
  Stalls <- MCStalls
INVARIANTS
  Quiescent
PROPERTIES
  BusImplementsPort
  EveryAccessEnds
