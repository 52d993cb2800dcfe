SPECIFICATION Spec
CONSTANTS
  Names = {1, 2}
  Birds = {"red", "blue"}
  MaxTop = 1
  MaxScore = 2
  MaxRaces = 2
  None = None
  Torn = Torn
  Ids = {1, 2}
  Gravity = 1
  FlapImpulse <- MCFlapImpulse
  TerminalVel = 3
  BirdX = 5
  BirdRadius = 1
  PipeWidth = 4
  PipeGap = 8
  PipeSpacing = 9
  ScrollSpeed = 2
  FirstPipeX = 9
  GapYMin = 5
  GapYMax = 9
  MaxGapDelta = 2
  GroundY = 14
  CeilingY = 1
  SpawnY = 7
  ViewMaxW = 10
  RampEveryTicks = 4
  RampNum = 3
  RampDen = 2
  RampSpeedCap = 3
  RampGapShrink = 2
  RampGapFloor = 6
  MaxRaceTicks = 11
  Draws = {5, 9}
  ChanCap = 2
  RingLen = 3
  SnapGap = 2
  MaxSnaps = 5
  MaxNow = 6
  MaxBack = 1
  Limit = 24
  MaxTitle = 24
  MaxURL = 12
  MaxSummary = 28
  NotYet = NotYet
  SkelDirs <- MCSkelDirs
  SkelFiles <- MCSkelFiles
  Own <- MCOwn
  CopyPaths <- MCCopyPaths
  MaxImage = 1
  MaxEdits = 2
  Missing = Missing
  Dir = Dir
  Ours = Ours
  Theirs = Theirs
  Broken = Broken
  Mine = Mine
INVARIANTS
  TypeOK
  FileCurrent
  FairRanking
  FramesFaithful
  CutsInside
PROPERTIES
  ImplementsAtomicStore
  FairCourse
  KeptOrFollowed
CHECK_DEADLOCK FALSE
