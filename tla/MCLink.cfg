SPECIFICATION LinkSpec
CONSTANTS
  MaxRequests = 3
  NoPayload = 0
  Payload <- MCPayload
  Answers <- MCAnswers
  DL_TRANS_REPEAT = 1
  MaxNoise = 2
  MaxFatal = 1
  MaxAnswers = 2
  MaxRepeats = 1
INVARIANTS
  NoFalseSuccess
  TakenOnce
PROPERTIES
  AnswerNotLost
  AnswersInOrder
