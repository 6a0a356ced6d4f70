SPECIFICATION Spec
CONSTANTS
  Handlers = {"h1", "h2", "h3"}
  Requests = {1}
  QueueMax = 1
  SemMax = 3
  Sizes = {1}
  First <- MCThree
  None = None
PROPERTY ShrinkEnds
CHECK_DEADLOCK FALSE
