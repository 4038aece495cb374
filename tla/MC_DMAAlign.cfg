SPECIFICATION ApartSpec
CONSTANTS
  Channels <- OneChannel
  Burst = 4
  Depth = 8
  Bases <- HalfBase
  Lens <- OneLen
  MaxLengths = 1
INVARIANTS UnalignedGetsExtra
