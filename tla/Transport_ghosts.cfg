SPECIFICATION Spec
CONSTANTS
  Conn = {c1, c2}
  EventCap = 1
  QueueLen = 1
  MaxPlayers = 2
  MaxTicks = 0
SYMMETRY Symmetry
INVARIANT NoGhosts
CHECK_DEADLOCK FALSE
