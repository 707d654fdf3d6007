------------------------------ MODULE MCPaging ------------------------------
(* Small instances of Paging: two processes a and b and their pages.        *)
EXTENDS Paging, TLC

CONSTANTS a, b,        \* processes
          a1, a2, at,  \* pages of a: two ordinary ones and the stack top
          b1, bi,      \* pages of b: an ordinary one and IPC memory
          f1, f2, s1, s2

MCOwner == [pg \in Page |-> IF pg \in {a1, a2, at} THEN a ELSE b]

\* frames and swap entries are interchangeable
MCSymmetry == Permutations(Frame) \cup Permutations(Slot)
=============================================================================
