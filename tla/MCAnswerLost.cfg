SPECIFICATION Spec
CONSTANTS
  Terminals <- MCTerminals
  Calls <- MCOneRequest
  AckKinds <- MCAckKinds
  Answers <- MCAnswers
  SyncMax = 3
  QueueMax = 1
  PostMax = 1
  MaxLate = 1
  None = None
INVARIANT AnswerReturned
CHECK_DEADLOCK FALSE
