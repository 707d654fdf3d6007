\* Nobody calls nfs_timeout, as in this system.
CONSTANTS
  MountCalls = 0
  BootCalls = 0
  TimeoutCalled = FALSE
  RESEND = 1
  MaxCalls = 1
SPECIFICATION FairSpec
PROPERTY
  EveryCallAnswered
CHECK_DEADLOCK FALSE
