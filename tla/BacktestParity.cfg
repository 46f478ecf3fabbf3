SPECIFICATION ParitySpec
CONSTANTS
  DailyLossLimitPct = 12
  MaxTradesPerDay = 2
  MaxConsecutiveLosses = 2
  RiskPct = 8
  MinQuantity = 1
  MaxQuantity = 2
  TickValue = 1
  AllowedWindows = {"london_kz", "ny_am_kz", "ny_pm_kz", "silver_bullet_am", "silver_bullet_pm"}
  Stamps <- MCStamps
  Candles <- MCCandles
  SignalBatches <- MCBatches
  MaxBatch = 2
  StartingEquity = 50
  Commission = 1
  SlippageTicks = 1
  EnforceKillzones = TRUE
  EnforceMidnightFilter = TRUE
  EnforceForceFlat = TRUE
INVARIANTS
  MirrorsEngine
\* The engine returns after the last bar.
CHECK_DEADLOCK FALSE
