SPECIFICATION MCSpec
CONSTANTS
  Terminals <- MCTerminals
  Calls <- MCCalls
  AckKinds <- MCAckKinds
  Answers <- MCAnswers
  SyncMax = 5
  QueueMax = 1
  PostMax = 1
  MaxLate = 1
  None = None
ACTION_CONSTRAINTS OneScenario InOrder
INVARIANTS TypeOK OwnAnswer WaitListSound SendTrueArrived
PROPERTY SendsReturn
CHECK_DEADLOCK FALSE
