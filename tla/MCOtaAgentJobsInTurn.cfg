SPECIFICATION Spec
CONSTANTS
  JobQueue <- JobsInTurn
  BLOCK_SIZE = 3
  CONFIG_MAX_FILE_SIZE = 8
  UINT32_RANGE = 16
  MaxMessages = 3
  MaxBuffers = 2
  Free = Free
  NUM_OF_BLOCKS_REQUESTED = 1
  BitsPerByte = 2
  MaxInFlight = 1
  MayLose = TRUE
  MayCancel = TRUE
  MayCorrupt = FALSE
  PacedTasks = {"T_MQTT"}
INVARIANTS
  SuccessMeansComplete
  MarkedBlocksAreOfTheFile
  WriteInBounds
  BuffersAreReferenced
  NeverOutOfBuffers
  AssertsOnlyNearTheLimit
CHECK_DEADLOCK FALSE
