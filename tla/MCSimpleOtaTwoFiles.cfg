SPECIFICATION Spec
CONSTANTS
  JobQueue <- TwoFileJob
  BLOCK_SIZE = 3
  CONFIG_MAX_FILE_SIZE = 12
  UINT32_RANGE = 16
  MayLose = FALSE
INVARIANTS
  ReportsWholeFile
CHECK_DEADLOCK FALSE
