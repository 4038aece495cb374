SPECIFICATION MCSpec
CONSTANTS
  Resets = 2
  Inits = 3
  Rounds = 2
  Polls = 2
  BlockSize = 2
  Blocks = 4
  Start = 1
  MaxPolls = 2
  MaxLost = 2
  MaxStarts = 2
  MaxDirEntries = 3
  Directories <- MCDirectories
  Extension = "mod"
  Options = {"SCAN_DIR", "SCAN_LFN"}
  Modes = {1, 2, 3}
  Subdirectories = {7}
  FatNumber = 2
  FatSize = 2
  Links = 4
  DirSectors = 2
  DirSlots = 2
  ClusterBytes = 512
  Slack = 0
  Names = {"a", "c"}
  Sizes = {1, 512}
  Volumes <- MCVolumes
  MaxCalls = 4
INVARIANTS
  CardRight
PROPERTIES
  VolumeKept
  ImplementsListing
  InitReturns
CHECK_DEADLOCK FALSE
