SPECIFICATION MarketSpec
CONSTANTS
  CME = CME
  OHLCV = OHLCV
  L2 = L2
  HourMinutes = 1
  DayMinutes = 4
  BreakHour = 2
  Outrights = {"H", "M"}
  UnitsPerMinute = 4
  TrainPercent = 25
  EmbargoBars = 1
  Days = {0, 1}
  Timeframes = {1, 2, 4}
  FoldCounts = {2, 3}
  Here = Here
  There = There
  Sources <- MCSources
  MaxRows <- MCMaxRows
  FeedRows <- MCFeedRows
INVARIANTS
  AnswersAreOneVersion
  RollsLookNoFurther
  EachBarTestedOnce
  ResampleComposes
  GapsAreExact
