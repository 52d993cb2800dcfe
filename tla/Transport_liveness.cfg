SPECIFICATION FairSpec
CONSTANTS
  Conn = {c1, c2}
  EventCap = 1
  QueueLen = 1
  MaxPlayers = 1
  MaxTicks = 0
PROPERTIES
  HubNeverStalls
  JoinAnswered
  BothHalvesEnd
  ImplementsConnections
CHECK_DEADLOCK FALSE
