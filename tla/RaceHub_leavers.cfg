SPECIFICATION Spec
CONSTANTS
  Conn = {c1, c2, c3}
  Base <- MCBase
  Requests <- MCRequests
  Bird = {b1}
  ThemeCount = 2
  MaxPlayers = 3
  FlapRateLimit = 1
  MaxRaceTicks = 2
  Countdown = 1
  Results = 1
  MaxRaces = 2
SYMMETRY Symmetry
INVARIANT LeaversMarked
