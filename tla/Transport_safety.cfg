SPECIFICATION Spec
CONSTANTS
  Conn = {c1, c2}
  EventCap = 1
  QueueLen = 2
  MaxPlayers = 2
  MaxTicks = 1
SYMMETRY Symmetry
INVARIANTS
  TypeOK
  NoSendOnClosed
  FramesDelivered
  SessionsAgree
CHECK_DEADLOCK FALSE
