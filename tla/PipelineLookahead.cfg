SPECIFICATION Spec
CONSTANTS
  SwingN = 1
  AtrLookback = 2
  BodyRangeMin = 60
  BodyAtrMin = 90
  WickToBodyMax = 35
  LegGapMax = 1
  MinDepth = 1
  MinGap = 1
  MaxRun = 2
  ObLookback = 2
  TakenLookback = 6
  FvgLookback = 3
  SlOffset = 1
  MinRR = 15
  MinTpDistance = 1
  FallbackR = 3
  FixedR = 2
  TpStrategy = "nearest_pool"
  RequireInsideOte = FALSE
  MssLookback = 3
  SilverBullet = {3, 4, 6}
  WickToBodyMin = 100
  LookForward = 1
  GraceBars = 2
  Tolerance = 1
  MinCluster = 2
  Openings <- MCOpenings
  Shapes <- MCShapes
  MaxBars = 12
INVARIANT
  ActionableOnItsBar
CHECK_DEADLOCK FALSE
