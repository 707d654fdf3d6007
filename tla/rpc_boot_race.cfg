\* The calls of the boot as the system makes them.
CONSTANTS
  MountCalls = 2
  BootCalls = 2
  TimeoutCalled = FALSE
  RESEND = 0
  MaxCalls = 4
SPECIFICATION Spec
PROPERTY
  ImplementsCalls
CHECK_DEADLOCK FALSE
