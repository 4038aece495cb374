SPECIFICATION MCSpec
CONSTANTS
  Channels <- TwoChannels
  Burst = 4
  Depth = 8
  Bases <- AnyBase
  Lens <- AnyLen
  MaxLengths = 1
INVARIANTS
  TypeOK
  NoOverflow
  ServedInOrder
  EnoughWords
