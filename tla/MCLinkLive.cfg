SPECIFICATION LinkFairSpec
CONSTANTS
  MaxRequests = 2
  NoPayload = 0
  Payload <- MCPayload
  Answers <- MCAnswers
  DL_TRANS_REPEAT = 1
  MaxNoise = 2
  MaxFatal = 1
  MaxAnswers = 1
  MaxRepeats = 1
PROPERTIES
  Answered
  ImplementsTransfer
