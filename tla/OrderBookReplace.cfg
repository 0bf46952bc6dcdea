SPECIFICATION Spec
CONSTANTS
  Ref = {r1, r2, r3, r4}
  ZeroRef = zero
  Slots = {a, b, c}
  NullIndex = null
  Lo = 10
  Hi = 14
  PageTicks = 2
  PagePool = 1
  Qty = {0, 1, 2}
  PriceArg = {9, 10, 11, 12, 13, 14}
  NewRef = {r1, r2, zero}
  DeltaSpan = 4
PROPERTY ReplaceLands
