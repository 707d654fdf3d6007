------------------------------- MODULE Frames -------------------------------
(***************************************************************************)
(* The frame table (mm/frames.c): a stack of free frames in an array, and  *)
(* a bitfield of the frames in use, kept in chars.  Frame number k stands  *)
(* for the address start + k * PAGESIZE; the addresses of all frames are   *)
(* different from 0, which frame_alloc returns when there is none.         *)
(***************************************************************************)
EXTENDS Naturals, FiniteSets

CONSTANTS
  frame_count,   \* frames between low and high
  limit,         \* frames left on the stack: SWAP_FRAMES_LIMIT under SWAP_TEST
  BITS_PER_CHAR

ASSUME FramesAssumption ==
  /\ frame_count \in Nat \ {0}
  /\ limit \in 1 .. frame_count
  /\ BITS_PER_CHAR \in Nat \ {0}

VARIABLES
  stack,        \* the array at frame_stack_start, stale entries included
  stack_count,
  bitfield,     \* per char the numbers of the bits that are 1
  handed_out    \* history: frames a client got and has not yet freed

framesVars == <<stack, stack_count, bitfield, handed_out>>

Frame == 0 .. frame_count - 1

\* bit_field_size is frame_count / 8 + 1
Chars == 0 .. frame_count \div BITS_PER_CHAR

FramesTypeOK ==
  /\ stack \in [Frame -> Frame]
  /\ stack_count \in 0 .. frame_count
  /\ bitfield \in [Chars -> SUBSET (0 .. BITS_PER_CHAR - 1)]
  /\ handed_out \subseteq Frame

\* mutant: the bit next to it
bitfield_get_next(frame) ==
  (frame + 1) % BITS_PER_CHAR \in bitfield[frame \div BITS_PER_CHAR]

bitfield_get(frame) == frame % BITS_PER_CHAR \in bitfield[frame \div BITS_PER_CHAR]

bitfield_set(frame, bit) ==
  bitfield' = [bitfield EXCEPT ![frame \div BITS_PER_CHAR] =
                 IF bit THEN @ \cup {frame % BITS_PER_CHAR} ELSE @ \ {frame % BITS_PER_CHAR}]

\* only stack_count < frame_count entries were allocated: writing further is outside
\* the array (and, stack being a function on Frame, would not be recorded)
frame_stack_add(frame) ==
  /\ stack' = [stack EXCEPT ![stack_count] = frame]
  /\ stack_count' = stack_count + 1

\* frame_init pushes the frames in reverse order, then drops all above the limit
frame_init ==
  /\ stack = [k \in Frame |-> frame_count - 1 - k]
  /\ stack_count = limit
  /\ bitfield = [c \in Chars |-> {}]
  /\ handed_out = {}

\* (with an empty stack it returns NULL and changes nothing)
frame_alloc ==
  /\ stack_count >= 1
  /\ stack_count' = stack_count - 1
  /\ bitfield_set(stack[stack_count - 1], TRUE)
  /\ handed_out' = handed_out \cup {stack[stack_count - 1]}
  /\ UNCHANGED stack

\* freeing a frame that is free already prints a warning and does nothing
frame_free(frame) ==
  /\ bitfield_get(frame)
  /\ frame_stack_add(frame)
  /\ bitfield_set(frame, FALSE)
  /\ handed_out' = handed_out \ {frame}

frame_free_warning(frame) == ~bitfield_get(frame) /\ UNCHANGED framesVars

FramesNext ==
  \/ frame_alloc
  \/ \E frame \in Frame : frame_free(frame) \/ frame_free_warning(frame)

FramesSpec == frame_init /\ [][FramesNext]_framesVars

-----------------------------------------------------------------------------
Stacked == {stack[k] : k \in 0 .. stack_count - 1}

\* The stack never holds a frame twice, nor one that a client holds: frame_alloc
\* never hands out a frame that is in use, although frame_free may be called for
\* frames that are free already.
NoFrameTwice ==
  /\ \A k, j \in 0 .. stack_count - 1 : stack[k] = stack[j] => k = j
  /\ Stacked \cap handed_out = {}

\* The bit of a frame is set exactly while a client holds it, for all frames of a
\* char, so that frame_free accepts what frame_alloc returned and nothing else.
BitsMatchHolders == \A frame \in Frame : bitfield_get(frame) <=> frame \in handed_out

\* No frame is lost: what is not handed out is on the stack, which therefore never grows
\* past the array malloc'ed for it.
NoFrameLost == stack_count + Cardinality(handed_out) = limit

\* The frame table implements the pool of frames.
Pool == INSTANCE FramePool WITH avail <- Stacked, taken <- handed_out

ImplementsPool == Pool!PoolSpec
=============================================================================
