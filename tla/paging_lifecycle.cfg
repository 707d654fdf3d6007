\* Processes are created, loaded, started, flushed and deleted while they page;
\* bi is IPC memory, a1 the heap that start_process frees.
SPECIFICATION Spec
CONSTANTS
  a = a b = b a1 = a1 a2 = a2 at = at b1 = b1 bi = bi
  f1 = f1 f2 = f2 s1 = s1 s2 = s2
  Proc = {a, b}
  Page = {a1, a2, b1, bi}
  owner <- MCOwner
  Ipc = {bi}
  Heap = {a1}
  StackTop = {}
  Frame = {f1, f2}
  Slot = {s1, s2}
  Batches = 2
  Val = {0}
  Zero = 0
  Torn = Torn
  None = None
  Booted = {b}
  Startable = {a}
  Killable = {a}
  Flushers = {b}
SYMMETRY MCSymmetry
INVARIANTS
  FrameIsolation
  FrameConservation
  QueuesMatchTables
  SwapEntriesExclusive
PROPERTIES
  SwapImageStable
  EntriesReturned
