SPECIFICATION Spec
CONSTANTS
  MAX_REGISTRATIONS = 3
  MAX_SESSIONS = 1
  Round = 5
  MaxChunks = 1
  Commands = {"data", "session"}
  StoreMayFail = FALSE
INVARIANTS
  SessionsSound
PROPERTIES
  LockFifo
CHECK_DEADLOCK FALSE
