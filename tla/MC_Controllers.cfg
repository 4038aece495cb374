SPECIFICATION MCSpec
CONSTANTS
  t0 = t0
  t1 = t1
  t2 = t2
  Ints <- MCInts
  PolledReads = FALSE
  DataBits = 2
  Bytes <- MCBytes
  ClockFilter = 1
  MaxSends = 2
  MaxFrames = 2
  AlignedTriggers = TRUE
INVARIANTS
  IInv
  NoTriggerLost
  TypeOK
  BytesCross
  Handshake
PROPERTIES
  ImplementsLatch
  EveryTriggerReported
  SendCompletes
