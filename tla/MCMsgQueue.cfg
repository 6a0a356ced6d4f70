SPECIFICATION Spec
CONSTANTS
  Handlers = {"h1", "h2", "h3"}
  Requests = {1, 2, 3}
  QueueMax = 2
  SemMax = 3
  Sizes = {1, 3}
  First <- MCTwo
  None = None
INVARIANTS TypeOK NoLostWakeup HandledOnce
PROPERTIES RequestsServed CloseEnds
CHECK_DEADLOCK FALSE
