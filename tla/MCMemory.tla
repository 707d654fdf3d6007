------------------------------ MODULE MCMemory ------------------------------
(***************************************************************************)
(* The memory of the server and its frame table. Memory maps have up to    *)
(* MaxDescs descriptors whose ends are multiples of Grain. Virtual areas,  *)
(* which the code skips, are left out of the longest maps.                 *)
(*                                                                         *)
(* Composes Memory with Frames: the frame table is set up over the range   *)
(* that main gives it, a page being one unit. From then on the parts share *)
(* no state, so that a behaviour follows only one of them, the heap and    *)
(* the driver's memory or the frames.                                      *)
(***************************************************************************)
EXTENDS Memory, Frames

CONSTANTS Grain, Top, MaxDescs   \* bounds: the addresses and the descriptors

VARIABLE followed   \* the part that is followed: "heap" or "frames"

End == {Grain * k : k \in 0 .. Top}

MCDesc == {d \in [low : End, high : End, type : {"conventional", "other", "virtual"}] :
             d.low < d.high}

Physical == {d \in MCDesc : d.type # "virtual"}

MCMaps == UNION {[1 .. n -> MCDesc] : n \in 0 .. MaxDescs - 1} \cup [1 .. MaxDescs -> Physical]

MCInit == InitMemory /\ frame_init /\ followed \in {"heap", "frames"}

\* frame_count is the number of pages between low and high.
FramesUp == up = "yes" /\ frames.high - frames.low = frame_count

MCNext ==
  \/ up # "yes" /\ NextMemory /\ UNCHANGED <<framesVars, followed>>
  \/ up = "yes" /\ followed = "heap" /\ NextMemory /\ UNCHANGED <<framesVars, followed>>
  \/ FramesUp /\ followed = "frames" /\ FramesNext /\ UNCHANGED <<allVars, followed>>

MCSpec == MCInit /\ [][MCNext]_<<allVars, framesVars, followed>>
=============================================================================
