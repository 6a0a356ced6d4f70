SPECIFICATION Spec
CONSTANTS
  Terminals <- MCTerminals
  Calls <- MCCalls
  AckKinds <- MCAckKinds
  Answers <- MCAnswers
  SyncMax = 3
  QueueMax = 1
  PostMax = 2
  MaxLate = 2
  None = None
INVARIANT ConfirmedKept
CHECK_DEADLOCK FALSE
