SPECIFICATION Spec
CONSTANTS
  Clients = {"a", "b"}
  Calls <- MCOneCall
  Sites <- MCOpenSites
INVARIANT PeerKnown
CHECK_DEADLOCK FALSE
