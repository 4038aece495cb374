SPECIFICATION Spec
CONSTANTS
  Tags = {0, 1, 2}
  Banks = {0, 1}
  Bytes <- MC_Bytes
  Contents <- MC_Contents
  Workloads <- MC_Workloads
INVARIANTS
  TypeOK
  RowsOwned
  NoFault
  CacheCoherent
PROPERTIES
  ImplementsMemory
  RefreshServed
  RequestAnswered
