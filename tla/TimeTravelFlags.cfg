SPECIFICATION Spec
CONSTANTS
  External = {1}
  Strategy = {2, 3}
  Moment = {1, 2}
  Flags = {"displayed", "hidden"}
  MaxOps = 3
INVARIANT Retraced
CHECK_DEADLOCK FALSE
