SPECIFICATION Spec
CONSTANTS
  short = short
  long = long
  overlong = overlong
  Bases = {short, long, overlong}
  BaseLen <- MCBaseLen
  MaxNameLen = 4
  MaxPlayers = 6
  RingLen = 2
  BaseDelay = 1
  MaxDelay = 4
  MaxConns = 3
  MaxFaults = 2
  MaxOthers = 2
  None = None
INVARIANT PickedNameTerminal
CHECK_DEADLOCK FALSE
