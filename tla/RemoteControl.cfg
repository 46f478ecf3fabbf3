SPECIFICATION FairSpec
CONSTANTS
  Messages = {"pause", "stop", "restart", "hello"}
  MaxUpdates = 2
  MaxConsecutiveCrashes = 2
  CrashWindow = 2
INVARIANTS
  CrashBudget
PROPERTIES
  EachUpdateOnce
  StaleOnlyUnskipped
  MessagesArrive
  RestartRelaunches
\* Everything stops once the supervisor has exited.
CHECK_DEADLOCK FALSE
