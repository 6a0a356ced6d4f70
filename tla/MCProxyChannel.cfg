SPECIFICATION Spec
CONSTANTS
  Channels <- MCChannels
  Tcp <- MCTcp
  NThreads = 2
  Idle = 1
INVARIANTS ListedOnce ConnectedTogether NoNullPeer
CHECK_DEADLOCK FALSE
PROPERTY OrphansEnd
