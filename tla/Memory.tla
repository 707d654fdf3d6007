------------------------------- MODULE Memory -------------------------------
(***************************************************************************)
(* How main (src/sos/main.c) divides the memory that sos_find_memory has   *)
(* chosen: the heap of malloc at the bottom, the network driver's megabyte *)
(* at the top (sos_malloc in src/sos/libsos.c), the frames in between.     *)
(* Composes BootMemory with Malloc. Addresses count units of the heap.     *)
(***************************************************************************)
EXTENDS BootMemory, Malloc

CONSTANTS
  HEAP_SIZE,    \* units given to malloc
  ONE_MEG,      \* units given to sos_malloc
  WORD,         \* values of a machine word
  DriverSize    \* sizes that the network driver asks sos_malloc for

ASSUME DivisionAssumption ==
  /\ {HEAP_SIZE, ONE_MEG, WORD} \subseteq Nat \ {0}
  /\ DriverSize \subseteq Nat

VARIABLES
  frames,                          \* the range given to frame_init
  sSosMemoryBot, sSosMemoryTop,
  areas,                           \* what sos_malloc has returned (history)
  up                               \* "no", "yes", or "failed": main's progress

driver  == <<sSosMemoryBot, sSosMemoryTop, areas>>
allVars == <<vars, heap, driver, frames, up>>

\* Mutant: the frames begin where the heap begins.
FramesFromLow(low, high) == [low |-> low, high |-> high]

\* The range that main gives to frame_init.
FramesAbove(low, high) == [low |-> low + HEAP_SIZE, high |-> high]

\* The end of sos_find_memory, and main up to the assertion low < high of frame_init.
main ==
  LET high == (mem_top - ONE_MEG) % WORD
      f    == FramesAbove(mem_bot, high)
  IN
  /\ loop = "done" /\ up = "no"
  /\ sSosMemoryTop' = mem_top /\ sSosMemoryBot' = high
  /\ malloc_init(mem_bot, mem_bot + HEAP_SIZE)
  /\ frames' = f
  /\ up' = IF f.low < f.high THEN "yes" ELSE "failed"
  /\ UNCHANGED <<vars, areas>>

\* Mutant: what is left is compared with nothing.
FitsAlways(size) == TRUE

Fits(size) == (sSosMemoryBot + size) % WORD < sSosMemoryTop

\* sos_malloc that does not return 0
sos_malloc(size) ==
  /\ up = "yes"
  /\ Fits(size)
  /\ areas' = areas \cup {[low |-> sSosMemoryBot, high |-> sSosMemoryBot + size]}
  /\ sSosMemoryBot' = (sSosMemoryBot + size) % WORD
  /\ UNCHANGED <<vars, heap, sSosMemoryTop, frames, up>>

-----------------------------------------------------------------------------
InitMemory ==
  /\ Init
  /\ NoHeap
  /\ frames = [low |-> 0, high |-> 0]
  /\ sSosMemoryBot = 0 /\ sSosMemoryTop = 0
  /\ areas = {}
  /\ up = "no"

NextMemory ==
  \/ Next /\ UNCHANGED <<heap, driver, frames, up>>
  \/ main
  \/ up = "yes" /\ HeapNext /\ UNCHANGED <<vars, driver, frames, up>>
  \/ \E size \in DriverSize : sos_malloc(size)

SpecMemory == InitMemory /\ [][NextMemory]_allVars

-----------------------------------------------------------------------------
\* The heap, the frames and the driver's areas are parts of the range chosen, and no
\* two of them overlap (main.c: main; libsos.c: sos_find_memory, sos_malloc). The top of
\* the range is at least a megabyte, or high would wrap.
MemoryDivided ==
  up = "yes" /\ mem_top >= ONE_MEG =>
    /\ mem_bot <= start /\ bss <= frames.low
    /\ \A b \in DOMAIN held : mem_bot <= b /\ b + list.size[b] <= frames.low
    /\ \A a \in areas : frames.high <= a.low /\ a.high <= mem_top
    /\ \A a, b \in areas : a # b => a.high <= b.low \/ b.high <= a.low

\* malloc and free give their callers memory of their own (Heap).
Abstract == INSTANCE Heap WITH
  blocks <- {[at |-> b, units |-> list.size[b]] : b \in DOMAIN held},
  area   <- [low |-> start, high |-> top]

ImplementsHeap == Abstract!Spec
=============================================================================
