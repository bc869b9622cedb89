SPECIFICATION LinkSpec
CONSTANTS
  MaxRequests = 1
  NoPayload = 0
  Payload <- MCPayload
  Answers <- MCAnswers
  DL_TRANS_REPEAT = 1
  MaxNoise = 2
  MaxFatal = 0
  MaxAnswers = 1
  MaxRepeats = 0
INVARIANT
  TakenWhole
