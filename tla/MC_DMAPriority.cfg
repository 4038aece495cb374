SPECIFICATION MCSpec
CONSTANTS
  Channels <- TwoChannels
  Burst = 2
  Depth = 4
  Bases <- OneBase
  Lens <- OneLen
  MaxLengths = 1
PROPERTIES
  RequestServed
