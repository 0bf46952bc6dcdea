SPECIFICATION Spec
CONSTANTS
  Capacity = 2
  MaxSeq = 3
  MaxBook = 1
  Torn = torn
INVARIANTS
  RingIsFifo
  CausalOrder
PROPERTY EverythingLogged
CHECK_DEADLOCK FALSE
