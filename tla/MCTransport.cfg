SPECIFICATION FairSpec
CONSTANTS
  MaxPacket = 2
  CommandLengths <- MCCommandLengths
  AnswerLengths <- MCAnswerLengths
  BufferSizes <- MCBufferSizes
  MaxRequests = 2
  MaxFaults = 3
  MaxInits = 1
INVARIANTS
  TransportTypeOK
  Usable
  WholeAnswer
  ExecutesWhole
  ExecutesOnce
  Drained
PROPERTIES
  ImplementsExchange
CHECK_DEADLOCK FALSE
