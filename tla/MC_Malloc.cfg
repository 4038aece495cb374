SPECIFICATION Spec
CONSTANTS
  Hdr = 2
  SizeMax = 64
  Regions <- MCRegions
  Requests = {0, 1, 4, 7}
INVARIANTS
  ListsRight
  Tiling
PROPERTIES
  ImplementsAllocator
