SPECIFICATION FairSpec
CONSTANTS
  p1 = p1
  NoPayload = NoPayload
  Payload <- MCPayload
  Answers <- MCAnswers
  DL_TRANS_REPEAT = 2
INVARIANTS
  TypeOK
  CallsNeverRefused
  NoLostWakeup
  IdleWhenAnswered
  ExpectedCompletion
PROPERTY
  AnsweredUnlessFlooded
