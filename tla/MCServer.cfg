SPECIFICATION FairSpec
CONSTANTS
  MaxClients = 2
  MaxRequests = 7
  MaxSends = 2
  MaxBuffers = 3
  MaxPackets = 2
  SqEntries = 3
  Packets <- MCPackets
CHECK_DEADLOCK FALSE
INVARIANTS Ownership OneRecvPerClient AlwaysAccepting ClientsCannotStop
  ListNeverDangles QuietUnlessSendFailed
PROPERTIES BuffersLost DataIsConsumed
