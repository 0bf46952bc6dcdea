SPECIFICATION Spec
CONSTANTS
  Ref = {e1, e2, s1, s2}
  External = {e1, e2}
  ZeroRef = zero
  Slots = {a, b, c}
  NullIndex = null
  Lo = 10
  Hi = 12
  PageTicks = 4
  PagePool = 1
  Seeds <- MCSeeds
  IcebergSeeds <- MCIcebergSeeds
  Inbounds <- MCInbounds
  ReplaceQty = {1}
  ReplacePrice = {11}
  FlowQty = {2}
  MaxDraw = 2
  DepthLevels = 2
  StpModes = {"none", "cancel_newest", "cancel_oldest", "decrement"}
  MapSize = 1
  TouchCap = 8
  MaxHidden = 1
  MaxIcebergs = 1
SYMMETRY Symmetry
INVARIANTS
  TrackerMirrors
  PositionsSound
  ReservesQueued
  DecisionsBalance
  NoTradeThrough
  RestsUncrossed
CHECK_DEADLOCK TRUE
