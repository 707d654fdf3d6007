----------------------------- MODULE BootMemory -----------------------------
(***************************************************************************)
(* sos_find_memory (src/sos/libsos.c): which memory the frame table is     *)
(* given. One loop over the kernel's memory descriptors chooses a block of *)
(* conventional memory, a second one cuts the other areas out of it,       *)
(* keeping the larger of the two sides.                                    *)
(***************************************************************************)
EXTENDS Integers, Sequences

CONSTANT Maps   \* the memory maps the kernel may describe

\* A descriptor of the area from low up to, and without, high: what memdesc_info
\* returns, with its assertion high > low.
Desc == {d \in [low : Nat, high : Nat, type : {"conventional", "other", "virtual"}] :
           d.low < d.high}

ASSUME MapsAssumption == Maps \subseteq Seq(Desc)

VARIABLES
  memory,    \* the descriptors
  loop,      \* "find", "remove" or "done"
  i,         \* the next descriptor of the loop
  mem_bot,
  mem_top

vars == <<memory, loop, i, mem_bot, mem_top>>

maxsize == 0   \* it is set here and never again

Init ==
  /\ memory \in Maps
  /\ loop = "find"
  /\ i = 1
  /\ mem_bot = 0 /\ mem_top = 0

-----------------------------------------------------------------------------
\* Mutant: every block is taken.
TakenAny(d) == d.high - d.low > maxsize

Taken(d) == d.type = "conventional" /\ d.high - d.low > maxsize

\* The first loop
find ==
  /\ loop = "find"
  /\ i <= Len(memory)
  /\ IF Taken(memory[i])
     THEN mem_bot' = memory[i].low /\ mem_top' = memory[i].high
     ELSE UNCHANGED <<mem_bot, mem_top>>
  /\ i' = i + 1
  /\ UNCHANGED <<memory, loop>>

size_bot(d) == IF mem_bot <= d.low /\ d.low < mem_top THEN d.low - mem_bot ELSE 0

size_top(d) == IF mem_bot < d.high /\ d.high <= mem_top THEN mem_top - d.high ELSE 0

\* Mutant: the area itself is kept at the top.
CutShort(d) ==
  IF size_bot(d) > size_top(d) THEN mem_top' = d.high /\ UNCHANGED mem_bot
  ELSE IF size_top(d) > 0 THEN mem_bot' = d.high /\ UNCHANGED mem_top
  ELSE UNCHANGED <<mem_bot, mem_top>>

Cut(d) ==
  IF size_bot(d) > size_top(d) THEN mem_top' = d.low /\ UNCHANGED mem_bot
  ELSE IF size_top(d) > 0 THEN mem_bot' = d.high /\ UNCHANGED mem_top
  ELSE UNCHANGED <<mem_bot, mem_top>>

\* The second loop
remove ==
  /\ loop = "remove"
  /\ i <= Len(memory)
  /\ IF memory[i].type = "other" THEN Cut(memory[i]) ELSE UNCHANGED <<mem_bot, mem_top>>
  /\ i' = i + 1
  /\ UNCHANGED <<memory, loop>>

\* The end of a loop
EndLoop ==
  /\ loop # "done"
  /\ i > Len(memory)
  /\ loop' = IF loop = "find" THEN "remove" ELSE "done"
  /\ i' = 1
  /\ UNCHANGED <<memory, mem_bot, mem_top>>

Next == find \/ remove \/ EndLoop

Spec == Init /\ [][Next]_vars

-----------------------------------------------------------------------------
\* Types of the loops' variables.
TypeOK ==
  /\ memory \in Seq(Desc)
  /\ loop \in {"find", "remove", "done"}
  /\ i \in Nat \ {0}
  /\ mem_bot \in Nat /\ mem_top \in Nat

\* The range is inside one block of conventional memory and is never empty once
\* a block was found, whatever is cut out of it (sos_find_memory).
InsideConventional ==
  \/ mem_bot = 0 /\ mem_top = 0
  \/ /\ mem_bot < mem_top
     /\ \E n \in 1 .. Len(memory) :
          /\ memory[n].type = "conventional"
          /\ memory[n].low <= mem_bot /\ mem_top <= memory[n].high

\* The descriptors that the second loop has dealt with.
Removed == IF loop = "find" THEN {}
           ELSE IF loop = "remove" THEN {n \in 1 .. Len(memory) : n < i}
           ELSE 1 .. Len(memory)

\* No area that is not conventional is left in the range, whatever order they
\* come in and however they overlap, unless it covers all of the range
\* (libsos.c: "Now remove dedicated areas of physical memory from the range").
AreasRemoved ==
  \A n \in Removed : memory[n].type = "other" =>
    \/ memory[n].high <= mem_bot \/ mem_top <= memory[n].low
    \/ memory[n].low <= mem_bot /\ mem_top <= memory[n].high
=============================================================================
