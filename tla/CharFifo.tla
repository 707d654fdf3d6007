------------------------------ MODULE CharFifo ------------------------------
(***************************************************************************)
(* What the console input promises: a queue of characters that holds       *)
(* Capacity of them, drops what comes when it is full, and hands out every *)
(* character it took, once and in order.                                   *)
(***************************************************************************)
EXTENDS Naturals, Sequences

CONSTANTS Char, Capacity

VARIABLES
  chars,   \* characters taken in and not yet handed out
  taken    \* characters handed out, in order

vars == <<chars, taken>>

Init == chars = <<>> /\ taken = <<>>

\* Hand out the first n characters of queue q.
Take(q, n) ==
  /\ taken' = taken \o SubSeq(q, 1, n)
  /\ chars' = SubSeq(q, n + 1, Len(q))

\* A character arrives, and n characters may go out in the same step.
Put(c) ==
  /\ Len(chars) < Capacity
  /\ \E n \in 0 .. Len(chars) + 1 : Take(Append(chars, c), n)

\* Characters go out; one that arrives at a full queue is lost.
Get == \E n \in 1 .. Len(chars) : Take(chars, n)

Next == Get \/ \E c \in Char : Put(c)

Spec == Init /\ [][Next]_vars
=============================================================================
