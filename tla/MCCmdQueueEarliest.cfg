SPECIFICATION Spec
CONSTANTS
  MAX_REGISTRATIONS = 3
  MAX_SESSIONS = 1
  Round = 5
  MaxChunks = 1
  Commands = {"data", "session"}
  StoreMayFail = FALSE
PROPERTIES
  EarliestFirst
CHECK_DEADLOCK FALSE
