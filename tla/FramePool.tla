----------------------------- MODULE FramePool -----------------------------
(***************************************************************************)
(* What the frame table promises to the pager: a pool of frames.  A frame  *)
(* is handed out to one client at a time, and one that nobody holds can be *)
(* handed out again.  Paging uses the frame table through this contract    *)
(* only (its variable free is avail here).                                 *)
(***************************************************************************)
CONSTANT Frame

VARIABLES avail,  \* frames that can be handed out
          taken   \* frames handed out and not yet returned

poolVars == <<avail, taken>>

PoolInit == avail \subseteq Frame /\ taken = {}

Alloc(f) == f \in avail /\ avail' = avail \ {f} /\ taken' = taken \cup {f}

Free(f) == f \in taken /\ avail' = avail \cup {f} /\ taken' = taken \ {f}

PoolNext == \E f \in Frame : Alloc(f) \/ Free(f)

PoolSpec == PoolInit /\ [][PoolNext]_poolVars
=============================================================================
