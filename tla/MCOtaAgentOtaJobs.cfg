SPECIFICATION FairSpec
CONSTANTS
  JobQueue <- TwoOtaJobs
  BLOCK_SIZE = 3
  CONFIG_MAX_FILE_SIZE = 8
  UINT32_RANGE = 16
  MaxMessages = 2
  MaxBuffers = 2
  Free = Free
  NUM_OF_BLOCKS_REQUESTED = 1
  BitsPerByte = 2
  MaxInFlight = 2
  MayLose = TRUE
  MayCancel = TRUE
  MayCorrupt = TRUE
  PacedTasks = {"T_MQTT", "T_SUSPEND"}
INVARIANTS
  RemainingCountsMissing
  MarkedBlocksAreOfTheFile
  SuccessMeansComplete
  BlocksAreFoundInTheBitmap
PROPERTIES
  ImplementsDownloads
  DownloadCompletes
  KeepsPolling
  BuffersAreFreed
CHECK_DEADLOCK FALSE
