SPECIFICATION FairSpec
CONSTANTS
  p1 = p1
  NoPayload = NoPayload
  Payload <- MCPayload
  Answers <- MCDamagedAnswers
  DL_TRANS_REPEAT = 1
PROPERTY
  ExitTimeoutHonoured
