SPECIFICATION Spec
CONSTANTS
  Token = {1, 2, 3}
  Share = {1, 2}
  MaxOpen = 2
INVARIANT ReplacedWereLive
CHECK_DEADLOCK FALSE
