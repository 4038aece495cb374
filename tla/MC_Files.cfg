SPECIFICATION Spec
CONSTANTS
  Fat <- MCFat
  EOC = 15
  ClusterSize = 2
  Links = 2
  SectorSize = 3
  MAX_FILES = 3
  Objects = {"p", "q"}
  Directory <- MCDirectory
  FileSize <- MCFileSize
  Counts = {2, 4, 7}
  Offsets = {0, 2, 3}
  MaxPtr = 14
  Failures <- SomeFail
INVARIANTS
  TableRight
  PositionRight
  ReadsRight
CHECK_DEADLOCK FALSE
