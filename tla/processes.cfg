\* Four slots (SOS and three processes) and four processes over time, so that
\* slots are used again and the counter wraps while slots are taken.
CONSTANTS
  MAX_RUNNING_PROCESS = 4
  StatusMax = {2}
  STATUS_FIT = 3
  SOS_PROCESS_WAIT = 11
  MaxBirths = 4
SPECIFICATION Spec
INVARIANTS
  WaitForMatchesThreads
  NobodyWaitsForTheDead
  InitializedMeansProgram
PROPERTIES
  WokenByExit
  ExitWakesAllWaiters
CHECK_DEADLOCK FALSE
