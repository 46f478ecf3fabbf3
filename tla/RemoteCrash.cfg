SPECIFICATION Spec
CONSTANTS
  Messages = {"pause", "stop", "restart", "hello"}
  MaxUpdates = 2
  MaxConsecutiveCrashes = 2
  CrashWindow = 2
INVARIANTS
  CrashIsRelaunched
\* Everything stops once the supervisor has exited.
CHECK_DEADLOCK FALSE
