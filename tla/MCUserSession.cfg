SPECIFICATION MCSpec
CONSTANTS
  Users = {"u"}
  Devices = {"d1", "d2"}
  NetMax = 1
  Handlers = 2
  MaxCookie = 2
  MaxLogin = 2
  CountMax = 2
  None = None
INVARIANTS TypeOK OneLogin ZeroCookieRaced
PROPERTIES SupersededLearns GoneGoesOffline CountSettles
CHECK_DEADLOCK FALSE
