SPECIFICATION Spec
CONSTANTS
  DailyLossLimitPct = 12
  MaxTradesPerDay = 8
  MaxConsecutiveLosses = 1
  RiskPct = 8
  MinQuantity = 1
  MaxQuantity = 1
  TickValue = 1
  AllowedWindows = {"silver_bullet_am", "silver_bullet_pm"}
  Times <- MCTimes
  StampOffset <- MCOffset
  WindowMinutes = 600
  Prices = {8, 12}
  SignalBatches <- MCBatches
  EquityReadings = {30, NaN}
  NaN = NaN
  MaxCommands = 1
  MaxLate = 1
PROPERTIES
  StreakStopsEntries
\* The process ends.
CHECK_DEADLOCK FALSE
