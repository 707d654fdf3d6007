-------------------------------- MODULE Heap --------------------------------
(***************************************************************************)
(* What the server may expect of malloc and free: memory of its own. Each  *)
(* block lies in the area given to the allocator and apart from all blocks *)
(* that have not been freed.                                               *)
(***************************************************************************)
EXTENDS Integers

VARIABLES
  blocks,   \* the blocks in use, each a record [at, units]
  area      \* the addresses [low, high) of the allocator

Apart(b, c) == b.at + b.units <= c.at \/ c.at + c.units <= b.at

Inside(b) == area.low <= b.at /\ b.at + b.units <= area.high

Init == blocks = {}

\* The allocator is given its area before it has given out any of it.
Start == blocks = {} /\ blocks' = {}

Malloc ==
  /\ \E b \in blocks' \ blocks :
       /\ blocks' = blocks \cup {b}
       /\ b.units > 0 /\ Inside(b)
       /\ \A c \in blocks : Apart(b, c)
  /\ UNCHANGED area

Free ==
  /\ \E b \in blocks : blocks' = blocks \ {b}
  /\ UNCHANGED area

Next == Start \/ Malloc \/ Free

Spec == Init /\ [][Next]_<<blocks, area>>
=============================================================================
