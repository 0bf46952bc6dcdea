SPECIFICATION Spec
CONSTANTS
  Base = 2
  Levels = 3
  Time = {0, 1, 2, 3, 4, 5, 6, 7}
  Capacity = 3
  MaxSeq = 4
  MaxGen = 1
  Guarded = FALSE
PROPERTY PopsInOrder
