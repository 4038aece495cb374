SPECIFICATION FairSpec
CONSTANTS
  Rows = 3
  Positions = 4
  PeriodTable <- MC_PeriodTable
  Speed0 = 2
  Vblank = FALSE
  Songs <- MC_Songs
INVARIANTS
  Settled
  VoicesInRange
PROPERTIES
  RowsKeepTime
  ImplementsSongOrder
  SongGoesOn
