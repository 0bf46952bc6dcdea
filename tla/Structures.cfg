SPECIFICATION StructuresSpec
CONSTANTS
  Lo = 10
  Hi = 20
  PageTicks = 4
  WordBits = 2
  PagePool = 2
  Delta <- MCDelta
  MaxTotal = 2
  Ref <- MCRef
  ZeroRef = 0
  Capacity = 3
  TableCap = 8
  Homes <- MCStart
  GenSpan = 2
  MaxReleases = 1
  EventTime = {0, 1}
  EventCap = 6
  MaxSeq = 6
  MaxGen = 1
  MaxFree = 2
  RingSize = 4
  Deltas = {"up", "down"}
  MaxPushes = 8
INVARIANTS
  MasksExact
  SearchesExact
  ArenaSound
  HeapSound
  BucketsInOrder
  FoldOrTold
  OrdersFound
PROPERTIES
  ImplementsLevelMap
  ImplementsRefMap
  HeapIsQueue
  WheelIsQueue
CHECK_DEADLOCK FALSE
