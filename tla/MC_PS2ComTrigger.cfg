SPECIFICATION Spec
CONSTANTS
  DataBits = 2
  Bytes <- MCBytes
  ClockFilter = 1
  MaxSends = 2
  MaxFrames = 2
  AlignedTriggers = FALSE
PROPERTIES
  TriggerTaken
