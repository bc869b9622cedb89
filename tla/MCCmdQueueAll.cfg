SPECIFICATION FairSpec
CONSTANTS
  MAX_REGISTRATIONS = 2
  MAX_SESSIONS = 1
  Round = 3
  MaxChunks = 1
  Commands = {"session", "data", "start", "continue", "final", "open", "close", "hibernate"}
  StoreMayFail = TRUE
INVARIANTS
  CmdTypeOK
  OneActivity
  OneAnswer
PROPERTIES
  StrictSequence
  Served
CHECK_DEADLOCK FALSE
