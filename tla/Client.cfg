SPECIFICATION Spec
CONSTANTS
  Bases = {"short", "long", "overlong"}
  BaseLen <- MCBaseLen
  MaxNameLen = 4
  MaxPlayers = 3
  RingLen = 2
  BaseDelay = 1
  MaxDelay = 4
  MaxConns = 3
  MaxFaults = 2
  MaxOthers = 2
  None = None
  Weight = 5
  JumpReject = 25
  JumpsBeforeResync = 4
  Offsets = {0, 26, 60}
  Jitter = 2
  Deviations <- MCDeviations
  TicksReject = 1
  TicksBeforeResync = 3
  Countdown = 9
  Results = 4
  RaceTicks = 4
  SnapEvery = 2
  Second = 3
  GoFlash = 2
  Settings <- MCSettings
  MaxSettings = 2
  Calm = 20
INVARIANTS
  TypeOK
  OneConnection
  Settles
PROPERTY BackInGame
CHECK_DEADLOCK FALSE
