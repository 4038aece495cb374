SPECIFICATION FairSpec
CONSTANTS
  Ints = {"ps2"}
  Size = 4
  Bounds <- AllWays
INVARIANTS
  RingsRight
  ReadsRise
  StrandedOnlyIfSwallowed
PROPERTIES
  BytesFetched
  WriterProceeds
CHECK_DEADLOCK FALSE
