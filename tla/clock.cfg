\* Sleeps from none at all to longer than timer 0 can count, t1 and t2 may be
\* deleted, and the time stamp register wraps while threads sleep. A microsecond
\* is long enough for several deletions, as it is on the machine.
CONSTANTS
  Thread = {t1, t2, t3}
  Mortal = {t1, t2}
  SleepMs = {0, 1, 2, 6}
  MS = 2
  SLACK = 1
  TICKS = 4
  USECS = 1
  TS_WRAP = 20
  T0_WRAP = 32
  INT_WRAP = 256
  U64_WRAP = 1024
  MaxTicks = 23
SPECIFICATION Spec
INVARIANTS
  AlarmQueueSound
  AlarmOnItsWay
  NobodyWakesEarly
  HighCountsWraps
CHECK_DEADLOCK FALSE
