\* Two calls that the init thread waits for, the two of io_init that it does not wait
\* for and one of the root thread, over a network that loses, repeats and reorders
\* packets; nfs_timeout is called as the library asks.
CONSTANTS
  MountCalls = 2
  BootCalls = 2
  TimeoutCalled = TRUE
  RESEND = 0
  MaxCalls = 5
SPECIFICATION FairSpec
INVARIANTS
  WaitsForItsOwnAnswer
PROPERTIES
  LosesRacingCallsOnly
  EveryCallAnswered
CHECK_DEADLOCK FALSE
