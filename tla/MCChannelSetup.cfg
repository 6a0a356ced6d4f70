SPECIFICATION Spec
CONSTANTS
  Clients = {"a", "b"}
  Calls <- MCCalls
  Sites <- MCSites
ACTION_CONSTRAINT OneScenario
INVARIANTS TypeOK SetUpOnce SameRoute WaitsSound OwnConfirmation
PROPERTIES NotAlone CallsEnd
CHECK_DEADLOCK FALSE
