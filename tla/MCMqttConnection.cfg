SPECIFICATION ConnectionFairSpec
CONSTANTS
  MayLose = TRUE
  UINT32_RANGE = 4
  MILLISECONDS_PER_SECOND = 3
  NANOSECONDS_PER_MILLISECOND = 2
  PacketBytes = 3
  MaxPackets = 3
  TimeCycle = 8
  MQTT_SEND_TIMEOUT_MS = 2
INVARIANTS
  ConnectionTypeOK
  PacketsContiguous
  SslExclusive
  ExitsOnlyWhenLost
PROPERTIES
  GivesUpWhenDue
  SendsEnd
  LossIsNoticed
CHECK_DEADLOCK FALSE
