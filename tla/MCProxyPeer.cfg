SPECIFICATION Spec
CONSTANTS
  Channels <- MCChannels
  Tcp <- MCTcp
  NThreads = 2
  Idle = 1
INVARIANT NoFreedPeer
CHECK_DEADLOCK FALSE
