------------------------------ MODULE RpcCalls ------------------------------
(***************************************************************************)
(* What the users of the RPC transport rely on: each call is outstanding   *)
(* from when it is made until its function is called with the answer, and  *)
(* that happens once. A call that is made while the answer to an earlier   *)
(* one comes in may be forgotten, and never has an answer.                 *)
(***************************************************************************)
EXTENDS Naturals

CONSTANTS
  Call,    \* the calls that may be made
  Racing   \* those that may be forgotten while they are made

VARIABLES
  made,          \* the calls made so far
  outstanding,   \* those whose answer is awaited
  done           \* those that were answered

Init == made = {} /\ outstanding = {} /\ done = {}

Make(c) ==
  /\ c \notin made
  /\ made' = made \cup {c}
  /\ outstanding' = outstanding \cup {c}
  /\ UNCHANGED done

Answer(c) ==
  /\ c \in outstanding
  /\ outstanding' = outstanding \ {c}
  /\ done' = done \cup {c}
  /\ UNCHANGED made

Forget(c) ==
  /\ c \in Racing \ made
  /\ made' = made \cup {c}
  /\ UNCHANGED <<outstanding, done>>

Next == \E c \in Call : Make(c) \/ Answer(c) \/ Forget(c)

Spec == Init /\ [][Next]_<<made, outstanding, done>>
=============================================================================
