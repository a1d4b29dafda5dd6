SPECIFICATION Spec
CONSTANTS
  JobQueue <- OneOtaJob
  BLOCK_SIZE = 3
  CONFIG_MAX_FILE_SIZE = 8
  UINT32_RANGE = 16
  MaxMessages = 3
  MaxBuffers = 2
  Free = Free
  NUM_OF_BLOCKS_REQUESTED = 1
  BitsPerByte = 2
  MaxInFlight = 2
  MayLose = FALSE
  MayCancel = FALSE
  MayCorrupt = FALSE
  PacedTasks = {"T_MQTT"}
PROPERTIES
  ResumedOnlyByResume
CHECK_DEADLOCK FALSE
