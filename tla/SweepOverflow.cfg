SPECIFICATION Spec
CONSTANTS
  Ref = {e1, e2, e3, s1, s2}
  External = {e1, e2, e3}
  ZeroRef = zero
  Slots = {a, b, c, d}
  NullIndex = null
  Lo = 10
  Hi = 13
  PageTicks = 4
  PagePool = 1
  Seeds <- SweepSeeds
  IcebergSeeds <- NoSeeds
  Inbounds <- SweepInbounds
  ReplaceQty = {1}
  ReplacePrice = {11}
  FlowQty = {1}
  MaxDraw = 1
  DepthLevels = 2
  StpModes = {"none"}
  MapSize = 3
  TouchCap = 1
  MaxHidden = 1
  MaxIcebergs = 1
SYMMETRY Symmetry
INVARIANT AheadNonNegative
CHECK_DEADLOCK TRUE
