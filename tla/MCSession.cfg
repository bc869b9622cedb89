SPECIFICATION FairSpec
CONSTANTS
  SeqSize = 6
  PRL_SEQUENCE_THRESHOLD = 3
  PRL_TRANS_REPEAT = 1
  FirstNumbers <- MCFirstNumbers
  Asks <- MCAsks
  StoreConfigured <- MCStoreConfigured
  MaxRequests = 2
  MaxOpens = 2
  MaxCloses = 1
  MaxFaults = 2
  MaxStrange = 1
INVARIANTS
  SessionTypeOK
  Usable
  NumbersUsedOnce
  GenuineAnswer
  
  ExecutesOnce
PROPERTIES
  ImplementsExchange
CHECK_DEADLOCK FALSE
