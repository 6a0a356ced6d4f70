SPECIFICATION Spec
CONSTANTS
  Senders = {"server", "peer"}
  BigMessages <- MCBigMessages
  Unit = 2
  MaxAge = 0
  MaxSends <- MCSends
  MaxLives <- MCLives
  Messages <- MCMessages
  Size <- MCSize
  Header = 2
  QueueMax = 2
  BufSize = 4
  WireMax = 5
  RequestMax = 1
INVARIANTS DeliveredWhole NoneLeftComplete OneSessionEach ReceivedInOrder NoneLeftInBuffer
PROPERTIES SessionsEnd AcceptedArrives
CHECK_DEADLOCK FALSE
