SPECIFICATION TlsFairSpec
CONSTANTS
  Descriptors = {3, 4}
  MaxAddresses = 3
INVARIANTS
  TlsTypeOK
  NoSocketOutOfReach
  SessionIsOnTheSocket
  DisconnectReleasesAll
PROPERTIES
  ImplementsChannel
  ConnectReturns
