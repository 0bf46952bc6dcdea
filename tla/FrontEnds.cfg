SPECIFICATION FrontEndsSpec
CONSTANTS
  Days <- MCDays
  Files <- MCFiles
  Locates <- MCLocates
  MaxPackets = 4
  Threads = 3
  Grids <- MCGrids
INVARIANTS
  PrintsExact
  Continuity
  HaltsExact
  CrossesExact
  Retraced
  FramesTellAll
  FillsLogged
  RowsArePrefix
  MarkoutsExact
  GridExact
  CodecExact
  PacketsExact
CHECK_DEADLOCK FALSE
