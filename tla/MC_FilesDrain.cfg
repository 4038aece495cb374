SPECIFICATION Spec
CONSTANTS
  Fat <- MCFat
  EOC = 15
  ClusterSize = 2
  Links = 2
  SectorSize = 3
  MAX_FILES = 3
  Objects = {"p", "q"}
  Directory <- MCDirectory
  FileSize <- MCFileSize
  Counts = {2, 4, 7}
  Offsets = {}
  MaxPtr = 14
  Failures <- NoFailures
INVARIANTS Drained
CHECK_DEADLOCK FALSE
