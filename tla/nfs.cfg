\* Two processes open, read, write and close files; p1 may be deleted in the
\* middle of it and its slot used again, p2 creates files until the cache is full.
CONSTANTS
  Pid = {p1, p2}
  Mortal = {p1}
  Creator = {p2}
  Name = {f, g}
  Existing = {}
  ReadOnly = {}
  Mode = {{"r", "w"}}
  PROCESS_MAX_FILES = 2
  DIR_CACHE_SIZE = 2
  MaxHandle = 3
  MaxBirths = 3
SPECIFICATION FairSpec
INVARIANTS
  TablesSound
  AnswersReachCaller
  TokensLive
PROPERTY
  CallsReturn
CHECK_DEADLOCK FALSE
