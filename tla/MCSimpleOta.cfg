SPECIFICATION FairSpec
CONSTANTS
  JobQueue <- OneFileJobs
  BLOCK_SIZE = 3
  CONFIG_MAX_FILE_SIZE = 12
  UINT32_RANGE = 16
  MayLose = TRUE
INVARIANTS
  StoredIsPrefix
  ReportsWholeFile
  AssertsOnlyTooLarge
PROPERTIES
  CompletesUnlessLost
CHECK_DEADLOCK FALSE
