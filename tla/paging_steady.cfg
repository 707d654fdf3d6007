\* Two running processes that only fault, with more pages than frames and as many
\* frames as processes.
SPECIFICATION FairSpec
CONSTANTS
  a = a b = b a1 = a1 a2 = a2 at = at b1 = b1 bi = bi
  f1 = f1 f2 = f2 s1 = s1 s2 = s2
  Proc = {a, b}
  Page = {a1, a2, b1}
  owner <- MCOwner
  Ipc = {}
  Heap = {}
  StackTop = {}
  Frame = {f1, f2}
  Slot = {s1, s2}
  Batches = 2
  Val = {0, 1}
  Zero = 0
  Torn = Torn
  None = None
  Booted = {a, b}
  Startable = {}
  Killable = {}
  Flushers = {}
INVARIANTS
  ReadsSeeLastWrite
  CleanPagesHaveImage
  AlwaysAPageToEvict
PROPERTIES
  StoppedThreadsRestart
