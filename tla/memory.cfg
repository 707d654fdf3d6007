\* Areas inside, across, next to and around one another, in any order. Heaps of six
\* units in three chunks, when a map leaves enough memory, and five frames in three
\* chars, four of them usable, when it leaves all.
CONSTANTS
  Grain = 5
  Top = 3
  MaxDescs = 3
  Maps <- MCMaps
  Request = {0, 2, 3}
  HEADER = 2
  CHUNK = 2
  base = 100
  HEAP_SIZE = 7
  ONE_MEG = 3
  WORD = 64
  DriverSize = {1, 2}
  frame_count = 5
  limit = 4
  BITS_PER_CHAR = 2
SPECIFICATION MCSpec
INVARIANTS
  InsideConventional
  AreasRemoved
  HeapSound
  MemoryDivided
PROPERTIES
  ImplementsHeap
  ImplementsPool
CHECK_DEADLOCK FALSE
