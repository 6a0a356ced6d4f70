SPECIFICATION Spec
CONSTANTS
  Terminals <- MCTerminals
  Calls <- MCCalls
  AckKinds <- MCAckKinds
  Answers <- MCAnswers
  SyncMax = 3
  QueueMax = 2
  PostMax = 2
  MaxLate = 2
  None = None
INVARIANTS PostsOrdered RetransmissionBound ConfirmedArrived
PROPERTIES ConfirmedIsFinal DeliversAtLeastOnce
CHECK_DEADLOCK FALSE
