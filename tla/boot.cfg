\* A directory of two pages and just enough room for it and one file more. Two
\* processes, each with a file of its own to write, read both.
CONSTANTS
  Filename = {".", "..", "swap", "console", "sosh", "a", "new"}
  Pages <- TwoPages
  Ends = {}
  DIR_CACHE_SIZE = 5
  u1 = u1
  u2 = u2
  User = {u1, u2}
  Writer <- OneWriter
  Opener <- OneOpener
  Amount = {1, 2}
  MaxBytes = 2
SPECIFICATION SpecData
INVARIANTS
  CacheSound
  SizesExact
  StreamsIntact
PROPERTY
  CacheFilled
CHECK_DEADLOCK FALSE
