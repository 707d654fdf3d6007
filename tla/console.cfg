\* Two slots whose processes open, close and read the console, with reads shorter
\* and longer than what is there, and are deleted; a third process uses a slot
\* again; a buffer of two characters fills, wraps and overflows.
CONSTANTS
  Pid = {1, 2}
  PROCESS_MAX_FILES = 2
  SIZE = 3
  ReadLen = {1, 3}
  MaxChars = 5
  MaxBirths = 3
SPECIFICATION Spec
INVARIANTS
  ReaderInv
  NoLineWithheld
PROPERTIES
  ImplementsFifo
  OverflowWakes
CHECK_DEADLOCK FALSE
