SPECIFICATION Spec
CONSTANTS
  Ref = {r1, r2, r3, r4}
  ZeroRef = zero
  Slots = {a, b, c}
  NullIndex = null
  Lo = 10
  Hi = 14
  PageTicks = 2
  PagePool = 1
  Qty = {0, 1, 2}
  PriceArg = {9, 10, 11, 12, 14}
  NewRef = {r1, r2, r3, r4}
  DeltaSpan = 4
SYMMETRY Symmetry
INVARIANTS
  TypeOK
  IndexExact
  FifoExact
  AggregatesExact
  BestExact
  PagesWithinPool
  L2FoldExact
PROPERTY ImplementsPriceTime
CHECK_DEADLOCK TRUE
