\* The memory a process loaded before start_process may be lost.
SPECIFICATION Spec
CONSTANTS
  a = a b = b a1 = a1 a2 = a2 at = at b1 = b1 bi = bi
  f1 = f1 f2 = f2 s1 = s1 s2 = s2
  Proc = {a, b}
  Page = {a1, a2, b1}
  owner <- MCOwner
  Ipc = {}
  Heap = {}
  StackTop = {}
  Frame = {f1, f2}
  Slot = {s1, s2}
  Batches = 1
  Val = {0, 1}
  Zero = 0
  Torn = Torn
  None = None
  Booted = {b}
  Startable = {a}
  Killable = {}
  Flushers = {}
SYMMETRY MCSymmetry
INVARIANTS
  ReadsSeeLastWrite
