------------------------------- MODULE Paging -------------------------------
(***************************************************************************)
(* Demand paging in the SOS server: the pager (mm/pager.c), the swapper    *)
(* (mm/swapper.c), the frame table as its clients see it (mm/frames.c) and *)
(* the parts of process creation, start and deletion that touch memory     *)
(* (process.c).                                                            *)
(*                                                                         *)
(* The server is one thread that takes one IPC message or one NFS reply at *)
(* a time and runs its handler to the end, so every handler is one atomic  *)
(* action here.  What interleaves is: the page faults and system calls of  *)
(* the user processes (each a single thread, blocked until it is replied   *)
(* to) and the replies to the NFS requests that move a page to or from the *)
(* swap file, BATCH_SIZE bytes at a time.                                  *)
(*                                                                         *)
(* A Page is a pair <thread id, page aligned virtual address>; thread ids  *)
(* are reused by later processes (process.c:204), hence so are Pages.      *)
(***************************************************************************)
EXTENDS Naturals, FiniteSets

CONSTANTS
  Proc,       \* the slots of the process table, i.e. the user thread ids
  Page,       \* every <thread id, virtual page> of interest
  owner,      \* the process whose address space a page belongs to
  Ipc,        \* the pages at ipc_memory_start, never swapped
  Heap,       \* the pages between HEAP_START and HEAP_END
  StackTop,   \* the pages at STACK_TOP itself, outside pager_unmap_all
  Frame,      \* physical frames managed by frames.c
  Slot,       \* page sized entries of the swap file (MAX_SWAP_ENTRIES)
  Batches,    \* NFS requests per page, PAGESIZE / BATCH_SIZE
  Val,        \* what a page can contain
  Zero,       \* the contents of a zeroed frame
  Torn,       \* a page of which only some batches were transferred
  None,       \* NULL, the nil thread, swap offset -1, "not mapped"
  Booted,     \* processes that run from the beginning
  Startable,  \* processes whose program loads (otherwise only delete_process follows)
  Killable,   \* processes that may be deleted (by anybody, for any reason)
  Flushers    \* processes that call sos_debug_flush (SOS_UNMAP_ALL)

ASSUME PageAssumption ==
  /\ owner \in [Page -> Proc]
  /\ Ipc \subseteq Page /\ Heap \subseteq Page /\ StackTop \subseteq Page
  /\ Booted \subseteq Proc /\ Startable \subseteq Proc
  /\ Killable \subseteq Proc /\ Flushers \subseteq Proc
  /\ Ipc \cap Heap = {}

ASSUME StoreAssumption ==
  /\ Frame \cap Slot = {}
  /\ None \notin Frame \cup Slot \cup Proc \cup (Page \X {"r", "w"})
  /\ Batches \in Nat \ {0}
  /\ Zero \in Val /\ Torn \notin Val

VARIABLES
  free,       \* frames on the frame stack (frames.c)
  pte,        \* page table entry: NULL, a frame, or an offset in the swap file
  dirty,      \* pages whose entry has the dirty bit (0x2)
  hw,         \* the L4 mapping of a page; mapped means referenced
  writable,   \* pages whose L4 mapping allows writing
  active,     \* items of active_pages_head
  before,     \* their order: <<i, j>> when i is nearer to the head
  swapping,   \* items of swapping_pages_head
  swap_used,  \* swap_bitfield
  mem,        \* contents of the frames
  disk,       \* contents of the swap file
  state,      \* process table: "free", "loading" (the initializer runs), "running"
  blocked,    \* threads stopped in a page fault, waiting for the reply
  want,       \* the access a thread faulted on and has yet to repeat
  shadow,     \* history: what the process last put in a page
  panic       \* why the server stopped, or "no"

frameVars  == <<free, mem>>
tableVars  == <<pte, dirty>>
hwVars     == <<hw, writable>>
queueVars  == <<active, before, swapping>>
threadVars == <<state, blocked, want>>
vars == <<free, pte, dirty, hw, writable, active, before, swapping, swap_used,
          mem, disk, state, blocked, want, shadow, panic>>

Access == {"r", "w"}

ActiveItem == [page : Page, slot : Slot \cup {None}]

SwapItem == [page : Page, slot : Slot, dir : {"out", "in"}, to_swap : 0 .. Batches,
             initiator : Proc \cup {None}, process_deleted : BOOLEAN,
             data : Val \cup {Torn}]

TypeOK ==
  /\ free \subseteq Frame
  /\ pte \in [Page -> Frame \cup Slot \cup {None}]
  /\ dirty \subseteq Page
  /\ hw \in [Page -> Frame \cup {None}]
  /\ writable \subseteq Page
  /\ active \subseteq ActiveItem
  /\ before \subseteq active \X active
  /\ swapping \subseteq SwapItem
  /\ swap_used \subseteq Slot
  /\ mem \in [Frame -> Val \cup {Torn}]
  /\ disk \in [Slot -> Val \cup {Torn}]
  /\ state \in [Proc -> {"free", "loading", "running"}]
  /\ blocked \subseteq Proc
  /\ want \in [Proc -> (Page \X Access) \cup {None}]
  /\ shadow \in [Page -> Val]
  /\ panic \in {"no", "no_page", "no_swap", "io"}

Pages(p) == {pg \in Page : owner[pg] = p}

Resident(pg) == pte[pg] \in Frame

SwappedOut(pg) == pte[pg] \in Slot

\* process_init, frame_init and swap_init
Init ==
  /\ free = Frame
  /\ pte = [pg \in Page |-> None]
  /\ dirty = {}
  /\ hw = [pg \in Page |-> None]
  /\ writable = {}
  /\ active = {} /\ before = {} /\ swapping = {}
  /\ swap_used = {}
  /\ mem = [f \in Frame |-> Zero]
  /\ disk = [s \in Slot |-> Zero]
  /\ state = [p \in Proc |-> IF p \in Booted THEN "running" ELSE "free"]
  /\ blocked = {}
  /\ want = [p \in Proc |-> None]
  /\ shadow = [pg \in Page |-> Zero]
  /\ panic = "no"

-----------------------------------------------------------------------------
(***************************************************************************)
(* The queue of active pages.                                              *)
(***************************************************************************)

\* L4_GetStatus: a page counts as referenced while it is mapped
is_referenced(pg) == hw[pg] # None

Older(i) == {j \in active : <<j, i>> \in before}

\* TAILQ_INSERT_TAIL on a queue q ordered by b
TailInsert(q, b, i) == b \cup (q \X {i})

\* what remains of the order b when only the items of q stay queued
OrderOn(q, b) == b \cap (q \X q)

\* The page second_chance_select returns: walking from the head it stops at the
\* first unreferenced page, or, every page having been dereferenced on the way,
\* at the head again.
second_chance_select(v) ==
  /\ v \in active
  /\ \/ ~is_referenced(v.page) /\ \A j \in Older(v) : is_referenced(j.page)
     \/ (\A j \in active : is_referenced(j.page)) /\ Older(v) = {}

\* the items it dereferenced and sent to the tail before it returned v
Passed(v) == IF is_referenced(v.page) THEN active ELSE Older(v)

\* the queue it leaves: the items passed once are now behind all the others
QueueWithout(v) == active \ {v}

OrderWithout(v) ==
  {o \in QueueWithout(v) \X QueueWithout(v) :
     IF (o[1] \in Older(v)) = (o[2] \in Older(v)) THEN o \in before ELSE o[2] \in Older(v)}

HwWithout(v) == [pg \in Page |-> IF \E j \in Passed(v) : j.page = pg THEN None ELSE hw[pg]]

WritableWithout(v) == {pg \in writable : \A j \in Passed(v) : j.page # pg}

\* mutant: the bitfield is not consulted
SwapEntryAny(v) == IF v.slot # None THEN {v.slot} ELSE Slot

\* the swap entry swap_out gives a page: the one it already has, else a free one
SwapEntryFor(v) == IF v.slot # None THEN {v.slot} ELSE Slot \ swap_used

-----------------------------------------------------------------------------
(***************************************************************************)
(* User threads between two messages to the server.                        *)
(***************************************************************************)

\* p runs user code, and once its fault has been replied to repeats the access
MayAccess(p, pg, a) ==
  /\ panic = "no"
  /\ state[p] # "free" /\ p \notin blocked
  /\ want[p] \in {None, <<pg, a>>}

\* a read the mapping allows; only the repeated access of a fault changes state
UserRead(p, pg) ==
  /\ MayAccess(p, pg, "r") /\ want[p] # None
  /\ hw[pg] # None
  /\ want' = [want EXCEPT ![p] = None]
  /\ UNCHANGED <<frameVars, tableVars, hwVars, queueVars, swap_used, disk,
                 state, blocked, shadow, panic>>

\* a write the mapping allows goes straight to the frame
UserWrite(p, pg, x) ==
  /\ MayAccess(p, pg, "w")
  /\ hw[pg] # None /\ pg \in writable
  /\ mem' = [mem EXCEPT ![hw[pg]] = x]
  /\ shadow' = [shadow EXCEPT ![pg] = x]
  /\ want' = [want EXCEPT ![p] = None]
  /\ UNCHANGED <<free, tableVars, hwVars, queueVars, swap_used, disk, state,
                 blocked, panic>>

-----------------------------------------------------------------------------
(***************************************************************************)
(* Page faults: pager, virtual_mapping, allocate_new_frame and swap_out.   *)
(***************************************************************************)

\* L4 sends a fault when the mapping does not allow the access.  The first fault
\* on an unmapped page is always a read fault, a write then faults once more.
PageFault(p, pg, a) ==
  /\ MayAccess(p, pg, a)
  /\ hw[pg] = None \/ (a = "w" /\ pg \notin writable)
  /\ want' = [want EXCEPT ![p] = <<pg, a>>]

\* shared IPC memory is left out of the queue of active pages
Swappable(pg) == pg \notin Ipc

\* mutant: a write fault does not mark the page dirty
DirtyNever(pg) == dirty

\* the dirty bits once pg is mapped: mark_dirty follows the rights asked for, and
\* those are for writing only when pg was mapped already
DirtyMapped(pg) == IF hw[pg] = None THEN dirty ELSE dirty \cup {pg}

\* the page has a frame: map it with the rights of the fault; a page mapped for
\* writing is dirty from now on
MapResident(p, pg, a) ==
  /\ PageFault(p, pg, a)
  /\ Resident(pg)
  /\ hw' = [hw EXCEPT ![pg] = pte[pg]]
  /\ writable' = IF hw[pg] = None THEN writable \ {pg} ELSE writable \cup {pg}
  /\ dirty' = DirtyMapped(pg)
  /\ UNCHANGED <<frameVars, pte, queueVars, swap_used, disk, state, blocked,
                 shadow, panic>>

\* What allocate_new_frame has changed when it returns a frame: nothing but the
\* frame stack, or the eviction of a clean page v whose image is in swap entry s.
NoEviction ==
  [pte |-> pte, hw |-> hw, writable |-> writable, active |-> active,
   before |-> before, used |-> swap_used]

CleanEviction(v, s) ==
  [pte |-> [pte EXCEPT ![v.page] = s], hw |-> HwWithout(v),
   writable |-> WritableWithout(v), active |-> QueueWithout(v),
   before |-> OrderWithout(v), used |-> swap_used \cup {s}]

\* virtual_mapping, first reference, with the zeroed frame f
FirstReference(p, pg, f, e) ==
  /\ pte[pg] = None
  /\ pte' = [e.pte EXCEPT ![pg] = f]
  /\ mem' = [mem EXCEPT ![f] = Zero]
  /\ hw' = [e.hw EXCEPT ![pg] = f]
  /\ writable' = e.writable \ {pg}
  /\ swap_used' = e.used
  /\ shadow' = [shadow EXCEPT ![pg] = Zero]
  /\ LET i == [page |-> pg, slot |-> None]
     IN  IF Swappable(pg)
           THEN /\ active' = e.active \cup {i}
                /\ before' = TailInsert(e.active, e.before, i)
                /\ dirty' = dirty \cup {pg}
           ELSE active' = e.active /\ before' = e.before /\ dirty' = dirty
  /\ UNCHANGED <<swapping, disk, state, blocked, panic>>

\* virtual_mapping, swapped page: the frame f is reserved and swap_in sends the
\* first read; the thread gets no reply.  (The initiator field of such an item is
\* left uninitialized by create_page_queue_item and never used.)
SwapIn(p, pg, f, e) ==
  /\ SwappedOut(pg)
  /\ pte' = [e.pte EXCEPT ![pg] = f]
  /\ dirty' = dirty \ {pg}
  /\ mem' = [mem EXCEPT ![f] = Zero]
  /\ swapping' = swapping \cup
       {[page |-> pg, slot |-> pte[pg], dir |-> "in", to_swap |-> 0,
         initiator |-> None, process_deleted |-> FALSE, data |-> Torn]}
  /\ blocked' = blocked \cup {p}
  /\ hw' = e.hw /\ writable' = e.writable /\ swap_used' = e.used
  /\ active' = e.active /\ before' = e.before
  /\ UNCHANGED <<disk, state, shadow, panic>>

\* a free frame is left
FaultWithFreeFrame(p, pg, a) ==
  /\ PageFault(p, pg, a)
  /\ ~Resident(pg)
  /\ \E f \in free :
       /\ free' = free \ {f}
       /\ FirstReference(p, pg, f, NoEviction) \/ SwapIn(p, pg, f, NoEviction)

\* no frame is left and second_chance_select returns v, for which swap_out finds
\* the swap entry s
Evicting(p, pg, a, v, s) ==
  /\ PageFault(p, pg, a)
  /\ ~Resident(pg) /\ free = {}
  /\ second_chance_select(v)
  /\ s \in SwapEntryFor(v)

\* the victim is clean: its frame is freed and handed out again at once
FaultEvictingClean(p, pg, a, v, s) ==
  /\ Evicting(p, pg, a, v, s)
  /\ v.page \notin dirty
  /\ \/ FirstReference(p, pg, pte[v.page], CleanEviction(v, s))
     \/ SwapIn(p, pg, pte[v.page], CleanEviction(v, s))
  /\ UNCHANGED free

\* the victim is dirty: write it to the swap file, the thread gets no reply; the
\* data of every write request is copied when the request is made
FaultSwappingOut(p, pg, a, v, s) ==
  /\ Evicting(p, pg, a, v, s)
  /\ v.page \in dirty
  /\ swap_used' = swap_used \cup {s}
  /\ swapping' = swapping \cup
       {[page |-> v.page, slot |-> s, dir |-> "out", to_swap |-> Batches,
         initiator |-> p, process_deleted |-> FALSE, data |-> mem[pte[v.page]]]}
  /\ active' = QueueWithout(v) /\ before' = OrderWithout(v)
  /\ hw' = HwWithout(v) /\ writable' = WritableWithout(v)
  /\ blocked' = blocked \cup {p}
  /\ UNCHANGED <<frameVars, tableVars, disk, state, shadow, panic>>

\* NO_PAGE_AVAILABLE and OUT_OF_SWAP_SPACE end in the kernel debugger
FaultOutOfFrames(p, pg, a) ==
  /\ PageFault(p, pg, a)
  /\ ~Resident(pg) /\ free = {} /\ active = {}
  /\ panic' = "no_page"
  /\ UNCHANGED <<frameVars, tableVars, hwVars, queueVars, swap_used, disk, state,
                 blocked, shadow>>

FaultOutOfSwap(p, pg, a, v) ==
  /\ PageFault(p, pg, a)
  /\ ~Resident(pg) /\ free = {}
  /\ second_chance_select(v) /\ SwapEntryFor(v) = {}
  /\ active' = QueueWithout(v) /\ before' = OrderWithout(v)
  /\ hw' = HwWithout(v) /\ writable' = WritableWithout(v)
  /\ panic' = "no_swap"
  /\ UNCHANGED <<frameVars, tableVars, swapping, swap_used, disk, state, blocked,
                 shadow>>

pager(p, pg, a) ==
  \/ MapResident(p, pg, a)
  \/ FaultWithFreeFrame(p, pg, a)
  \/ FaultOutOfFrames(p, pg, a)
  \/ \E v \in active :
       \/ \E s \in Slot : FaultEvictingClean(p, pg, a, v, s)
       \/ \E s \in Slot : FaultSwappingOut(p, pg, a, v, s)
       \/ FaultOutOfSwap(p, pg, a, v)

-----------------------------------------------------------------------------
(***************************************************************************)
(* Replies of the NFS server to the requests on the swap file.             *)
(***************************************************************************)

\* mutant: the thread is not restarted
ReplyLost(t) == blocked' = blocked

\* send_ipc_reply to the thread t, if there is one
Reply(t) == blocked' = blocked \ {t}

\* mutant: no frame_free
ReleaseNothing(i) ==
  /\ free' = free
  /\ pte' = [pte EXCEPT ![i.page] = i.slot]
  /\ dirty' = dirty \ {i.page}

\* frame_free and mark_swapped, which clears the dirty bit with the address
ReleaseFrame(i) ==
  /\ free' = free \cup {pte[i.page]}
  /\ pte' = [pte EXCEPT ![i.page] = i.slot]
  /\ dirty' = dirty \ {i.page}

\* mutant: the item is dropped
RequeueNot(i) == UNCHANGED <<active, before>>

\* TAILQ_INSERT_TAIL of the item on the queue of active pages
Requeue(i) ==
  LET item == [page |-> i.page, slot |-> i.slot]
  IN  /\ active' = active \cup {item}
      /\ before' = TailInsert(active, before, item)

\* mutant: the mapping is not looked at
UntouchedAlways(i) == TRUE

\* what the callback takes for "not referenced in the mean time"
Untouched(i) == ~is_referenced(i.page)

\* one of the writes of item i has reached the swap file, others are outstanding
SwapWriteBatch(i) ==
  /\ i.to_swap > 1
  /\ disk' = [disk EXCEPT ![i.slot] = Torn]
  /\ swapping' = (swapping \ {i}) \cup {[i EXCEPT !.to_swap = @ - 1]}
  /\ UNCHANGED <<free, pte, dirty, active, before, blocked>>

\* the last one, and nobody referenced the page meanwhile: it is swapped out and
\* its frame is free, unless the page has been given up
SwapWriteDone(i) ==
  /\ i.to_swap = 1 /\ Untouched(i)
  /\ disk' = [disk EXCEPT ![i.slot] = i.data]
  /\ IF i.process_deleted
       THEN UNCHANGED <<free, pte, dirty, blocked>>
       ELSE ReleaseFrame(i) /\ Reply(i.initiator)
  /\ swapping' = swapping \ {i}
  /\ UNCHANGED <<active, before>>

\* the last one, but the page was mapped again: it stays in memory
SwapWriteAbandoned(i) ==
  /\ i.to_swap = 1 /\ ~Untouched(i)
  /\ disk' = [disk EXCEPT ![i.slot] = i.data]
  /\ swapping' = swapping \ {i}
  /\ Reply(i.initiator)
  /\ IF i.process_deleted THEN UNCHANGED <<active, before>> ELSE Requeue(i)
  /\ UNCHANGED <<free, pte, dirty>>

swap_write_callback(i) ==
  /\ panic = "no"
  /\ i \in swapping /\ i.dir = "out"
  /\ SwapWriteBatch(i) \/ SwapWriteDone(i) \/ SwapWriteAbandoned(i)
  /\ UNCHANGED <<hwVars, swap_used, mem, state, want, shadow, panic>>

\* the page was given up while it was read
SwapReadCancelled(i) ==
  /\ i.process_deleted
  /\ swapping' = swapping \ {i}
  /\ UNCHANGED <<active, before, mem, blocked>>

\* what a transfer has produced when the batches so far gave a and the next gives b
Mix(first, a, b) == IF first \/ a = b THEN b ELSE Torn

SwapReadBatch(i) ==
  /\ ~i.process_deleted /\ i.to_swap + 1 < Batches
  /\ mem' = [mem EXCEPT ![pte[i.page]] = Torn]
  /\ swapping' = (swapping \ {i}) \cup
       {[i EXCEPT !.to_swap = @ + 1, !.data = Mix(i.to_swap = 0, @, disk[i.slot])]}
  /\ UNCHANGED <<active, before, blocked>>

SwapReadDone(i) ==
  /\ ~i.process_deleted /\ i.to_swap + 1 = Batches
  /\ mem' = [mem EXCEPT ![pte[i.page]] = Mix(i.to_swap = 0, i.data, disk[i.slot])]
  /\ swapping' = swapping \ {i}
  /\ Requeue(i)
  /\ Reply(owner[i.page])

swap_read_callback(i) ==
  /\ panic = "no"
  /\ i \in swapping /\ i.dir = "in"
  /\ SwapReadCancelled(i) \/ SwapReadBatch(i) \/ SwapReadDone(i)
  /\ UNCHANGED <<free, tableVars, hwVars, swap_used, disk, state, want, shadow,
                 panic>>

\* a request on the swap file fails: both callbacks end in assert(FALSE); only a
\* read of a page given up ignores its status
SwapError(i) ==
  /\ panic = "no"
  /\ i \in swapping /\ ~(i.dir = "in" /\ i.process_deleted)
  /\ panic' = "io"
  /\ swapping' = IF i.dir = "out" THEN swapping \ {i} ELSE swapping
  /\ UNCHANGED <<frameVars, tableVars, hwVars, active, before, swap_used, disk,
                 threadVars, shadow>>

-----------------------------------------------------------------------------
(***************************************************************************)
(* System calls that change a whole address space.                         *)
(***************************************************************************)

\* pager_unmap_range(tid, 0, STACK_TOP), without the page that starts there
pager_unmap_all(p) ==
  LET gone == {pg \in Pages(p) \ StackTop : Resident(pg)}
  IN  /\ hw' = [pg \in Page |-> IF pg \in gone THEN None ELSE hw[pg]]
      /\ writable' = writable \ gone

\* Mutant: the entries of pages in memory are forgotten.
EntriesOfSwapped(range, mine) == {pte[pg] : pg \in range}

\* The swap entries that are freed with the pages in range and their queue items:
\* those of the pages swapped out, and those that pages in memory have kept.
EntriesOf(range, mine) == {pte[pg] : pg \in range} \cup {i.slot : i \in mine}

\* frees frames, swap entries and queue items of the pages in range, and cancels
\* what is being transferred: items of these pages are marked, and items (of any
\* page in nilled) that were to wake up p wake up nobody
pager_free(p, range, nilled) ==
  LET mine == {i \in active : i.page \in range}
      Cancel(i) == [i EXCEPT !.process_deleted = @ \/ i.page \in range,
                             !.initiator = IF @ = p /\ i.page \in nilled THEN None ELSE @]
  IN  /\ free' = free \cup {pte[pg] : pg \in {g \in range : Resident(g)}}
      /\ swap_used' = swap_used \ EntriesOf(range, mine)
      /\ pte' = [pg \in Page |-> IF pg \in range THEN None ELSE pte[pg]]
      /\ dirty' = dirty \ range
      /\ active' = active \ mine
      /\ before' = OrderOn(active \ mine, before)
      /\ swapping' = {Cancel(i) : i \in swapping}

\* create_process: a free table entry starts to run the initializer
create_process(p) ==
  /\ panic = "no"
  /\ state[p] = "free"
  /\ state' = [state EXCEPT ![p] = "loading"]
  /\ UNCHANGED <<frameVars, tableVars, hwVars, queueVars, swap_used, disk, blocked,
                 want, shadow, panic>>

\* start_process: the initializer has loaded the program through its heap
start_process(p) ==
  /\ panic = "no"
  /\ p \in Startable /\ state[p] = "loading" /\ p \notin blocked /\ want[p] = None
  /\ pager_unmap_all(p)
  /\ pager_free(p, Pages(p) \cap Heap, Heap)
  /\ state' = [state EXCEPT ![p] = "running"]
  /\ UNCHANGED <<mem, disk, blocked, want, shadow, panic>>

\* delete_process: called by any process, by p itself, by the pager when p makes
\* an access it has no right to, or when p could not load its program
delete_process(p) ==
  /\ panic = "no"
  /\ p \in Killable /\ state[p] # "free"
  /\ pager_unmap_all(p)
  /\ pager_free(p, Pages(p), Page)
  /\ state' = [state EXCEPT ![p] = "free"]
  /\ blocked' = blocked \ {p}
  /\ want' = [want EXCEPT ![p] = None]
  /\ UNCHANGED <<mem, disk, shadow, panic>>

\* sos_debug_flush: a message without reply
debug_flush(p) ==
  /\ panic = "no"
  /\ p \in Flushers /\ state[p] # "free" /\ p \notin blocked /\ want[p] = None
  /\ pager_unmap_all(p)
  /\ UNCHANGED <<frameVars, tableVars, queueVars, swap_used, disk, threadVars,
                 shadow, panic>>

\* L4_KDB_Enter or a failed assertion: the machine stands still
Halted == panic # "no" /\ UNCHANGED vars

User(p) ==
  \E pg \in Pages(p) :
    \/ UserRead(p, pg)
    \/ \E x \in Val : UserWrite(p, pg, x)

Fault(p) == \E pg \in Pages(p), a \in Access : pager(p, pg, a)

NfsReply == \E i \in swapping : swap_write_callback(i) \/ swap_read_callback(i)

Syscall(p) == create_process(p) \/ start_process(p) \/ delete_process(p) \/ debug_flush(p)

Next ==
  \/ \E p \in Proc : User(p) \/ Fault(p) \/ Syscall(p)
  \/ NfsReply
  \/ \E i \in swapping : SwapError(i)
  \/ Halted

Spec == Init /\ [][Next]_vars

\* The server is back in its loop after every handler, and every outstanding request
\* gets its callback if the NFS layer sends again what is lost (RpcTransport).
\* (No two items in transfer share a swap entry.)
NfsAnswers(s) ==
  \E i \in swapping : i.slot = s /\ (swap_write_callback(i) \/ swap_read_callback(i))

Fairness == \A s \in Slot : WF_vars(NfsAnswers(s))

FairSpec == Spec /\ Fairness

-----------------------------------------------------------------------------
(***************************************************************************)
(* Properties.                                                             *)
(***************************************************************************)

\* items in transfer whose page has not been given up
Live == {i \in swapping : ~i.process_deleted}

\* The frame a process reaches through the mapping of one of its pages is in use
\* and belongs to that page alone: it is neither on the frame stack nor named by
\* the page table entry or the mapping of any other page, whatever was evicted,
\* freed or reused in between (pager.c, swapper.c, frame_free).
FrameIsolation ==
  \A a \in Page : is_referenced(a) =>
    /\ hw[a] \notin free
    /\ \A b \in Page \ {a} : hw[b] # hw[a] /\ pte[b] # hw[a]

\* The mapping of a page, if any, is to the frame its page table entry names.
MappingsAgree == \A pg \in Page : is_referenced(pg) => hw[pg] = pte[pg]

\* No frame is lost or owned twice: every frame is either on the frame stack or
\* in exactly one page table entry (frame_free in pager_free_all, pager_free_range,
\* swap_out and swap_write_callback is called exactly when the entry is cleared).
FrameConservation ==
  /\ \A f \in free, pg \in Page : pte[pg] # f
  /\ \A f \in Frame \ free : \E pg \in Page : pte[pg] = f
  /\ \A a, b \in Page : Resident(a) /\ pte[a] = pte[b] => a = b

\* What check_pager_invariants (pager.c:699-770, commented out) tries to check,
\* with the pages in transfer taken into account: a page that is neither in memory
\* nor IPC memory has no queue item, a page in memory has exactly one, in one of
\* the two queues (a server that stopped may just have dropped it); items of pages
\* given up do not count.
QueuesMatchTables ==
  /\ \A i \in active : Resident(i.page) /\ i.page \notin Ipc
  /\ \A i \in Live : Resident(i.page) /\ i.page \notin Ipc
  /\ panic = "no" => \A pg \in Page \ Ipc : Resident(pg) =>
       \/ \E i \in active : i.page = pg
       \/ \E i \in Live : i.page = pg
  /\ \A i, j \in active : i.page = j.page => i = j
  /\ \A i, j \in Live : i.page = j.page => i = j
  /\ \A i \in active, j \in Live : i.page # j.page

\* IPC memory, which the server itself reads and writes by physical address, is
\* never swapped out (pager.c:342).
IpcNeverSwapped == \A pg \in Ipc : ~SwappedOut(pg)

\* A swap entry is held by one page table entry, one queue item or one transfer
\* (a cancelled one too) at a time, and is marked used while it is: no two pages
\* are ever written to the same place of the swap file, and swap_free never meets
\* a cleared bit (its assertion).
SwapEntriesExclusive ==
  /\ \A pg \in Page : SwappedOut(pg) =>
       /\ pte[pg] \in swap_used
       /\ \A b \in Page \ {pg} : pte[b] # pte[pg]
       /\ \A i \in active \cup swapping : i.slot # pte[pg]
  /\ \A i \in active : i.slot # None =>
       /\ i.slot \in swap_used
       /\ \A j \in active : j.slot = i.slot => j = i
       /\ \A j \in swapping : j.slot # i.slot
  /\ \A i \in swapping :
       /\ i.slot \in swap_used
       /\ \A j \in swapping : j.slot = i.slot => j = i

\* Who holds swap entry s: a page that is swapped out, or an item of a queue.
Held(s) == (\E pg \in Page : pte[pg] = s) \/ (\E i \in active \cup swapping : i.slot = s)

\* The swap file does not fill up with what nobody uses: when the last page or queue
\* item lets go of its entry the bit is cleared in the same step, by whichever of
\* pager_free_all, pager_free_range and the callbacks it is. The one exception is a
\* transfer of a page given up meanwhile, whose entry no code returns
\* (swapper.c: swap_free and its callers).
EntriesReturned ==
  [][\A s \in swap_used : Held(s) /\ ~Held(s)' =>
       \/ s \notin swap_used'
       \/ \E i \in swapping : i.slot = s /\ i.process_deleted
       \/ panic' # "no"]_vars

\* A process reads from its pages what it last wrote there, and zeros from a page
\* it never wrote, through any number of evictions and transfers.
ReadsSeeLastWrite ==
  \A pg \in Page : is_referenced(pg) => mem[hw[pg]] = shadow[pg]

\* A page in memory that is not dirty has its contents in the swap file, so that
\* swap_out may drop it without a write; and a page mapped for writing is dirty.
CleanPagesHaveImage ==
  /\ \A i \in active : i.page \notin dirty =>
       i.slot # None /\ disk[i.slot] = mem[pte[i.page]]
  /\ \A pg \in Page : is_referenced(pg) /\ pg \in writable => pg \in dirty

\* While a page is swapped out nothing changes its image in the swap file: not the
\* late writes of a page given up, nor those of a page that used the entry before.
SwapImageStable ==
  [][\A pg \in Page : SwappedOut(pg) /\ pte'[pg] = pte[pg]
                        => disk'[pte[pg]] = disk[pte[pg]]]_vars

\* Every thread the pager left without a reply is restarted, when every request on
\* the swap file is answered (pager.c:430: "the thread will be started again once
\* swapping is completed (see swap_write_callback)").
StoppedThreadsRestart ==
  \A p \in Proc : p \in blocked ~> (p \notin blocked \/ panic # "no")

\* The server never runs out of pages to evict, although pages in transfer are not
\* in the queue: each process waits for one transfer at most, so as many frames as
\* processes, besides the IPC memory, are enough (allocate_new_frame).
AlwaysAPageToEvict == panic # "no_page"
=============================================================================
