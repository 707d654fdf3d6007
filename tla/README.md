# TLA+ models of the SOS server

SOS (`src/src/sos`) is an operating system personality: one user level server above the
L4 microkernel on an NSLU2. User programs reach it by IPC, with page faults and
system calls. What it keeps lies behind an NFS server (the files, and the swap file),
a timer device, and a console whose characters travel over UDP.

Paths below are relative to the repository; `sos/` stands for `src/sos/`, `nfs/` for
`src/libs/nfs/src/`, `clock/` for `src/libs/clock/src/`.

## 1. How the system runs

The root thread runs `syscall_loop` (`sos/main.c`): it takes one message (a page
fault, a system call or an interrupt), runs its handler to the end, and replies, or
does not. A handler that has to wait for something (the swap file, NFS, a line of
input, the clock, the end of a process) returns 0 and leaves its caller blocked; a
later callback answers it with `send_ipc_reply`. Callbacks run when an interrupt
brings an NFS answer or a character, one at a time as well. A second thread, init,
runs beside it while the system boots.

So handlers do not interleave with one another, and each is one action of its model;
what is hard is that one operation is split between a handler and its callbacks.
Between the two any process may fault, make calls or be deleted, its slot and with it
its thread id may belong to another process (`register_process` gives every process
of a slot the same thread id), and what the handler looked at may have changed. Only
while the system boots do two threads share data, without locks.

## 2. Inventory

| component | state | operations | what is hard | what makes it correct |
|---|---|---|---|---|
| demand paging: `sos/mm/pager.c`, `swapper.c` | page tables, L4 mappings, queue of active pages, queue of pages in transfer, swap bitfield, swap file | page fault, second chance eviction, swap out, swap in, unmap, free, flush | transfers of eight requests each, during which the page is used, given up, or its owner replaced; being referenced is read off the mapping | a process reaches its own frames only and reads what it wrote; no frame or swap entry is lost or shared; a stopped thread goes on |
| frame table: `sos/mm/frames.c` | stack array, bitfield in chars | `frame_alloc`, `frame_free` | double frees, bits that share a char | a pool of frames: none handed out twice |
| process table: `sos/process.c` | `ptable`, allocation counter | create, start, delete, wait, status, id | waits answered by later deletions; slots used again | every wait is answered by the exit it is for; no slot is taken twice |
| clock: `clock/clock.c` | time stamp, alarm queue, timer 0 | sleep, two interrupts, deletion of a sleeper | registers that wrap, an interrupt message that waits while the queue changes | everyone wakes, and not too early |
| files on NFS: `sos/io/io.c`, `io_nfs.c` | file tables, `file_table_entry` blocks, file cache, calls under way | open, create, read, write, close, their callbacks, creation and deletion of processes | callbacks that hold pointers to what a deletion frees | no callback touches freed memory or answers somebody else; every call returns |
| console input: `sos/io/io_serial.c`, `sos/datastructures/circular_buffer.c` | circular buffer, the reader | interrupt per character, open, read, close, deletion | wrap and overflow of the buffer, lines that come before, during and between reads | a bounded queue of characters; no complete line is withheld; one reader |
| RPC transport: `nfs/transport.c` | queue of calls, transaction ids | call, answer, resend, synchronous call at boot | packets lost, repeated, reordered; two threads on one queue | each call is answered, once, and with its own answer |
| file contents: `sos/io/io_nfs.c`, `io.c` | contents, positions, cached sizes | read, write, open, close and their callbacks, while the boot may go on | the answer, not the request, moves position and size; calls are refused or short | streams without gap or repetition; `stat` reports the size of the file |
| boot: `sos/main.c`, `io.c`, `io_nfs.c` | file cache, `file_cache_initialized` | `io_init`, answers to readdir, lookup and create | two threads, answers in any order | the console is entry 0; the cache is filled |
| choice and division of memory: `sos/libsos.c`, `main.c` | `mem_bot`, `mem_top`, the ranges of heap, frames and driver | the loops of `sos_find_memory`, `main`, `sos_malloc` | areas that overlap in any way | what each part gets is free memory, and its own |
| malloc: `src/libs/c/src/malloc.c`, `sys-l4_rootserver/sys_morecore.c` | the list of free blocks, the rest of the heap | `malloc`, `free`, `morecore`, `__malloc_init` | splitting and joining of blocks over long sequences, the end of the heap | a block handed out is in the heap and nobody else's |

Interactions. `pager` takes frames from the frame table and sends its transfers as
NFS calls; NFS calls go through the transport; `delete_process` calls into paging
(`pager_unmap_all`, `pager_free_all`), files and console (descriptors) and clock
(`remove_timers`); `register_process` gives each process its console descriptor;
`io_init` fills the cache that `open_file` reads. Each module models the part of
creation and deletion that touches its state, so `create_process`/`register_process`
and `delete_process` are actions of five of them.

`PROJECT.json` lists every component, the ones without a model too, and the hazards
with the lines where they bite.

## 3. Modules

`Paging` (with `MCPaging`, `PagingProofs`). A `Page` is a pair of thread id and
virtual page; `owner` gives its process. `pte`, `dirty` are the page tables, `hw`,
`writable` the L4 mappings (mapped means referenced), `active`/`before` the queue of
active pages with its order, `swapping` the pages in transfer, with the number of
requests outstanding, the thread to wake and the mark `process_deleted`. A user
access (`UserRead`, `UserWrite`) that is not mapped becomes `pager`, split into the
cases that the code tells apart: page in memory, frame free, clean page evicted,
page sent to the swap file, nothing to evict, no swap entry. `swap_write_callback`
and `swap_read_callback` take one answer each; `start_process`, `delete_process` and
`debug_flush` change a whole address space. `shadow` is a history variable. A frame or
swap entry is a model value, the contents of a page one value of `Val`, or `Torn` when
only some batches have been transferred.

`Frames`, `FramePool` (checked in `MCMemory`, proofs in `MemoryProofs`). The stack array
and the bitfield in chars. `FramePool` is what clients may rely on: a set of available and
a set of taken frames. `Paging` uses the table in that abstract form.

`Processes` (with `ProcessesProofs`). One action per system call and per refusal.
`sent` holds the replies of the last step, `birth` numbers processes so that two in
one slot can be told apart. `sos_task_new` starts the thread or fails (7.7).

`Clock` (with `ClockProofs`). Time in ticks; the widths of registers and integers are constants, so that
small numbers meet the boundaries. An interrupt is a status bit and a message that
may wait while system calls are served. A sleep that `register_timer` refuses (no memory,
or before `start_timer`) changes nothing.

`NfsFiles` (with `NfsFilesProofs`). `heap` holds the `file_table_entry` blocks; `malloc` hands out
any that is free, one freed just now included; `calls` the NFS calls without an answer, with the token
their callback will get; `stray` records answers that went to the wrong thread. That
each call is called back once at most is what `RpcTransport` shows.

`Console`, `CharFifo` (with `ConsoleProofs`). Characters are numbered as they arrive. `CharFifo` is a bounded
queue that drops what arrives when it is full.

`RpcTransport` (with `RpcTransportProofs`). The network is the set of calls and the set of
answers it holds; a packet may be lost, and one that is delivered may stay, to be
delivered again, any number of times and in any order. `add_to_queue` of the init thread
is two steps, finding the tail and linking the item, because it can be preempted by the
root thread. `RpcCalls` is what callers may rely on: a call that is made is outstanding
until it is answered, and that happens once. Calls in `Racing` may be forgotten while they
are made. Callers expect it with no such call (`ImplementsCalls`, which is false: 7.14);
what holds is that only the calls which `io_init` makes while another of its own is under
way are such calls (`LosesRacingCallsOnly`).

`FileCacheBoot`. The directory is a sequence of answers to readdir; every answer of NFS
may be an error. `swap_fd` is the set of the root process's descriptors of the swap file:
`io_init` stores one, and `nfs_create_callback` opens another (7.15). `Ends` are the
answers whose last cookie is negative as an `int`, which ends the listing (7.21).

`FileData` (with `MCFileData`, and `FileDataProofs` for both) extends `FileCacheBoot` with the time after: the shell
runs, processes open, create, read, write and close files while lookups of the boot may
still be outstanding. A write carries new, numbered bytes; the NFS server does or
refuses it in a step of its own, and the callback moves position and size. `put` and
`got` (what a process was told it wrote, and was given to read) and `past` are history.
`create_nfs` and `write_nfs` are as in the code and ask nobody; who opens a file that is
not in the cache, and who writes, is up to the processes, in `Use`: `Opener` and `Writer`.

`BootMemory`. The loops of `sos_find_memory`, one descriptor
per step.

`Malloc`, `Heap`. The circular list of free blocks as a function from each block to the
next, with the sizes in the headers; `malloc`'s first fit from `freep`, the split at
the tail of a block, the joining of neighbours in `free`, and `morecore`, which frees
what it takes. `Heap` is what callers rely on: blocks inside the heap and apart from
one another. Each call is one step.

`Memory` (with `MCMemory`, `MemoryProofs`) composes `BootMemory` and `Malloc`: `main`
divides the chosen range into heap, frames and the driver's memory, `__malloc_init` and
`sos_malloc` work in theirs. `MCMemory` adds `Frames` over the range in the middle; as the
parts share no state once they are set up, a behaviour follows the heap and the driver's
memory, or the frames (`followed`). `MemoryProofs` also has the proofs about `Frames`, the owner
of the part in the middle; the names of the two models are kept apart for that
(`frame_init` for the initial state of `Frames`, `FramesNext`, `FramesSpec`).

Definitions named in a comment as mutants are wrong on purpose: each changes one
definition like a plausible mistake would, and makes a property of a run fail when it
takes that definition's place.

## 4. Runs

Each is started with `tlc -config <run>.cfg <module>`; the largest takes about two
minutes.

| run | module | bounds | what it shows |
|---|---|---|---|
| `paging_lifecycle` | MCPaging | 2 processes, 4 pages (one IPC, one heap), 2 frames, 2 swap entries, 2 requests per page | tables, mappings, queues, frames and swap entries agree through creation, start, deletion, flush and reuse; late writes never change an image in use; an entry that loses its page is returned (but for 7.4) |
| `paging_steady` | MCPaging | 2 processes, 3 pages, 2 frames, 2 entries, 2 requests, 2 values | reads see the last write, clean pages may be dropped, there is always a page to evict, stopped threads go on |
| `paging_lost_update` | MCPaging | 2 processes, 3 pages, 1 request | violation: see 7.1 |
| `processes` | Processes | 4 slots, 4 processes over time | waits, exits and the loader flag are exact |
| `clock` | Clock | 3 threads, sleeps of 0 to 12 microseconds, 4 ticks each, 23 ticks, registers of 20 and 32 values | the queue is exact and sorted, the timer runs for its head, nobody wakes early, a wrap counts once |
| `nfs` | NfsFiles | 2 slots, 3 processes over time, 2 files in a cache of 2, 3 blocks | tokens stay alive, answers reach their callers, calls return |
| `console` | Console | 2 slots, 3 processes, buffer of 3 (2 characters), 5 characters, reads of 1 and 3 | the buffer is a bounded queue; readers are woken and the console has one reader |
| `rpc` | RpcTransport | 5 calls: 2 of the mount, 2 of `io_init`, 1 of the root thread | no call is lost or answered twice but for the second of `io_init`, a thread in `rpc_call` goes on with its own answer only, and calls are answered if `nfs_timeout` is called |
| `rpc_boot_race` | RpcTransport | 4 calls: 2 of the mount, 2 of `io_init` | violation: see 7.14 |
| `rpc_never_resent` | RpcTransport | 1 call | violation: see 7.2 |
| `boot` | MCFileData | 2 answers to readdir, 4 files with the one that is created, 2 processes, 2 bytes written, reads and writes of 1 or 2 | the console is first, nothing twice if a file has one creator, the cache is filled in the end; streams are intact and sizes exact |
| `memory` | MCMemory | all maps of up to 3 areas with ends at multiples of 5 up to 15, heap of 3 chunks of 2 units, requests of 0 to 3 units, 5 frames in 3 chars, limit 4 | the range is conventional memory without the other areas, it is divided without overlap, the free list is sound, `malloc` implements `Heap`, and the frame table `FramePool`, double frees included |

Why the bounds are enough to be interesting: more pages than frames and two requests
per page let a page be touched, given up or reused in the middle of a transfer; two
processes are a victim and a bystander, and a slot that is used again meets what its
last process left behind. Every slot count leaves room for one process fewer than is
created. The clock's widths let the time stamp wrap and a sleep exceed timer 0 within
23 ticks; four ticks make a microsecond, so that several calls fit into one. The file
cache of `nfs` holds the console and one file, so that it gets full. The console buffer wraps and overflows. The calls of `rpc` are those
of the boot, in number and order, and one of the time after. Three areas are a block of memory and two areas that
overlap each other and it. Three chunks of heap hold a block between two others, which
is joined with either, both or none when it is freed, and run out. Two bytes are
enough for a write at a position that is not 0, a read that is short, one at the end, and
one of a file that grows; a second process reads what the first writes.

Constants also say what the environment is allowed to do, where the code does not
cope with more (section 7): `StackTop = {}` (no page at `STACK_TOP` is used),
`Killable = {}` in the liveness run of paging, `Creator` and `Mortal` disjoint (the
process that creates a file is not deleted), `Writer` (one process writes each file),
`Opener` (a file that is not in the directory is created by its writer alone, one that is
there is not opened before it is in the cache; `OneCreator`), `Ends = {}`,
`0 \notin ReadLen`, and as many frames besides IPC memory as processes. The properties of the clock about wake-up
times are stated up to the first wrap of the time stamp.

Deadlock is not checked where the system may stop for good: bounded numbers of
processes, ticks, characters or calls, a boot or a loop that ends, an assertion that
failed. It is checked in `paging_*` (a stopped server loops in `Halted`).

Fairness.
- `paging_steady` and `nfs`: every NFS call is answered in the end (weak fairness of
  the answers per swap entry, and per process). The root thread is always back in its
  loop. On a network that loses packets, this needs calls to be sent again, which
  the library can do and this system does not (7.2): the liveness results are about a
  network without loss, or a system in which 7.2 is repaired.
- `rpc`: strong fairness of service and reception of the first call in the queue (a packet
  sent again and again gets through; the others become the first), weak fairness of `nfs_timeout` when `TimeoutCalled`, and of the
  init thread, which the kernel schedules.
- `boot`: weak fairness of the init thread and its answers together, since the thread
  runs and answers come; none of the processes.

## 5. Theorems

TLAPS checks the proofs, for every value of the constants that satisfies the named
assumptions.

Each module has an inductive invariant of which the properties are parts or
consequences; TLC checked it on the instance of the run before it was proved.

`PagingProofs`, assuming `StackTop = {}` (7.6). `TypeSafety`, `ProcessIsolation`,
`FramesConserved`, `QueuesConsistent`, `SwapEntriesSafe` come from `Inv`, their
conjunction with `MappingsAgree` (a mapping is to the frame the page table names) and
`IpcNeverSwapped`; none is inductive alone. Evicting the page of a queue item frees the
right frame only because a queued page is in memory and its frame is nobody else's;
freeing an address space returns swap entries that are marked only because entries are
exclusive; isolation follows from `MappingsAgree` and `FrameConservation`. `NextInv`
has one lemma per kind of step, and under it a step per conjunct. On top of `Inv`:

- `ImagesStable` and `EntriesSafe`, action properties (`SwapImageStable`,
  `EntriesReturned`), follow from `Inv` alone.
- `CleanPagesSafe`. `ImageInv` adds to `CleanPagesHaveImage` that a page in transfer to
  the swap file is still dirty, and that what was read of a page so far is its image.
- `ReadsSafe`, assuming `Startable = {}` and `Flushers = {}`. `ReadInv` says where
  the contents of each page are; `WaitInv`, that the thread a transfer restarts is
  stopped and waits for that transfer alone, so that nobody touches a page while it is
  read. Without the assumptions it is false: 7.1.
- `EvictionPossible`, assuming `Killable = {}` (7.3), finite sets, and as many frames as
  processes and pages of IPC memory. Were all frames in transfer or IPC memory, each
  transfer would have a waiting thread of its own (`LiveAwaited`, `WaitInv`), and the
  thread that faults is none of them.

The steps are described once by effect predicates (`Granted`, `SentOut`, `Given`, ...),
which the proofs of all these invariants share.

`ProcessesProofs`: `WaitersExact`, `NoForgottenWaiter`, `LoaderFlagExact` and the action
properties `PidsAreFresh`, `ExitsAreNoticed`, `WakeupsAreExits`. `Inv` conjoins the type
invariant and the three state properties: deletion keeps `NobodyWaitsForTheDead` because
`wait_for` names every blocked thread, and `wait_for` is exact because only free slots
are taken (`AllocatedSlotIsFree`).

`ClockProofs`: `AlarmQueueStaysSound` and `WrapsAreCounted` hold for all widths and
frequencies. `NobodyIsWokenEarly` and `AnAlarmIsOnItsWay` assume `SleepsFit` (no sleep
overflows an `int`, 7.9) and `WordsFit` (one wrap of the register and the longest sleep
fit 63 bits; with the numbers of the machine, 64 s and 36 minutes). `HighInv` counts
the wrap whose interrupt still waits; `WakeInv` says that until the first wrap no alarm
expires before its owner asked to wake, and that none is so far away that the signed
difference in `timer0_irq` turns over. `TimerNotLate` is the arithmetic: conversion to
ticks and back, the control bits and the width of timer 0 can only make it early. That
the alarms which ring are a prefix of the queue, and that a new alarm has a place in it,
rest on the least element of a set of numbers (`LeastMember`).

`NfsFilesProofs`, assuming `Creator \cap Mortal = {}` (7.10): `TokensStayLive`,
`AnswersReachTheirCaller`, `TablesStaySound`. In `Inv` a call under way names the
`birth` of its process, and `awaits_callback` of the block it will be called back with
tells two cases apart (`IoCallsSound`): the process still runs, is blocked in that call
and has the handle in its table (`CallerWaits`), or no running process has that birth
(`CallerGone`). Each thread has the one call it is blocked in (`OneCallEach`,
`BlockedHasOne`, `ReadyHasNoCall`); a handle in the table of a running process has that
process as its owner (`TablesOwned`). `BlockedHasOne` is stated for a server that runs: with the cache
full, `nfs_create_callback` fails its assertion and answers nobody (7.12).

`ConsoleProofs`: `ReaderStaysExact`, the refinement `BufferImplementsFifo` and, assuming
`0 \notin ReadLen` (7.13), `LinesAreDelivered` and `OverflowDoesWake`. The lemmas about
the circular buffer (`CopiedIs`, `BetweenIs`, `FullCounts`, `BufferRead`,
`BufferWritten`) turn the two positions, read modulo the size, into a sequence that
writes extend and reads shorten; `Inv` adds that the overflow flag says that the buffer
is full, and that descriptor 0 does not read.

`RpcTransportProofs`: `AnswersAreOwn` and the refinement `TransportLosesRacingCallsOnly`,
for any number of calls of each kind. `Inv` says that the queue has no transaction id
twice, that an id is queued or answered but not both, and that while the init thread
makes its synchronous calls, one by one, nothing else is in the queue (`OneAtATime`):
that is why linking their items in two steps does no harm. `TailIsLast` is why a call of
`io_init` that races with an answer harms no other: an item that was found to be the last
still is, or has left the queue and takes the new one with it.

`MemoryProofs`: `RangeInsideConventional`, `RangeWithoutAreas` (`CutNarrows`: cutting one
area leaves a part of the range that is not empty, so what was removed before stays
removed); `HeapStaysSound`, the refinement `MallocImplementsHeap`, and
`PartsDoNotOverlap`. `HeapInv` describes the free list as a cycle that visits its blocks
in order of address and tiles the heap together with the blocks in use; `malloc` and
`free` are followed through three operations on it, a block that leaves, one that is
linked in and two that are merged. Two conditions are named. `BaseOutside`: the list's
own block is not in the heap, which is so when the memory map lists the server's image
among its areas. `NoWrap`: conventional memory ends low enough for the sums of addresses
in `sos_malloc` to fit a machine word.

The frame table, also in `MemoryProofs`: `FrameTableSafety`, `NoFrameHandedOutTwice` and
the refinement `FrameTableImplementsPool`. `FramesInv` adds to `NoFrameTwice` that bits are exact
(`BitsMatchHolders`, so that a double free is recognised) and that stacked and held
frames add up to the limit (`NoFrameLost`, so that the stack stays in its array). The
lemmas `BitOfFrame` and `BitfieldSet` say that changing one frame's bit leaves the
others of its char alone.

`FileDataProofs`, assuming `NoConsoleFile` (no file of the directory is named console,
7.20): `CacheStaysSound` for the boot alone, and, assuming `OneCreator` (7.12),
`CacheStaysSoundInUse`, `SizesStayExact`, `StreamsStayIntact` for the boot and the
processes together, and `NoFileForgotten` (assuming `Ends = {}` too, 7.21), the safety
part of `CacheFilled`: when the init thread is through, nothing is outstanding and
no assertion failed, every file is in the cache or was refused.
The directory, the size of the cache, the processes, the files and the amounts are
arbitrary. `CacheInv` is why no name is entered twice: a name that a call under way may
still enter is not in the cache (`EnteredOnce`), a call that creates a file is its
creator's and so the only one (`CallIs`), one readdir is under way at a time and
what it has yet to list was neither looked up nor entered (`ListedOnce`); and every file
is in the cache, refused, being looked up, or on a page that is yet to be listed
(`Accounted`). `DataInv` relates what a process was told to what the server has. The
positions of a descriptor are the lengths of `put` and `got`; a call under way begins
there, and from the moment the server has done it until the callback its bytes are in
the file behind them (`StreamSound`, `WriteSound`, `ReadSound`). The cached size is
behind only between those two moments (`FileSound`), which is why one writer per file is
needed; a file that is created is empty until it is in the cache, which is why its size
is 0 then. What one process does leaves the streams of the others alone because the
bytes a file ever held only grow (`OthersKeep`). The lemmas `OverwrittenIs`, `BytesIs` and
`RememberedIs` say what a write, a read and the history are at each position.

Only model-checked: the liveness properties `StoppedThreadsRestart`, `CallsReturn`,
`EveryCallAnswered` and `CacheFilled` (fairness and `ENABLED` are out of the prover's
reach); and what recursive or folded computations over data return for every input,
which would need induction.

## 6. Not modelled

The server and its own libraries are about 2% of the repository, which contains the L4 kernel and
its libraries, lwIP, the IXP400 drivers with their microcode, the C library and the
build tools. The models cover most of the server and the libraries it was written with
(`src/sos`, `src/libs/clock`, `src/libs/nfs`'s transport, the allocator), and leave the
rest alone: it is third-party code that this system uses unchanged.

- Packet encoding and decoding (`nfsrpc.c`, `addtobuf`, `getdata`), what the waiting
  thread reads through `call_pbuf`, `init_transport`'s question for the time of day.
- `stat` and `getdirent`, which only read the cache (what `stat` would say is the subject
  of `SizesExact`); a position beyond the end of a file, which these calls cannot reach.
- `write_serial` (keeps no state), the serial library, network start-up.
- `stop_timer` (no caller in the server), the split of the time stamp into two words.
  `sos/timer.c`, a second sleep for server threads: nothing starts its thread.
  `sos_usleep` (`libsos.c`) is a sleep call like that of a user process.
- Access rights as a function of addresses, the one to one mappings of the
  initializer, the size counter of a process.
- `calloc` and `realloc`, made of `malloc` and `free`; two threads inside `malloc`.
- The loop and table of system calls: they keep no state, and their effect is that
  handlers run one at a time.
- User programs and tests. IPC, thread control and mapping appear as far as the server
  uses them.

## 7. Known disagreements

Where the code does not do what its comments or callers expect. Items 1, 2 and 14 have
runs of their own; others are seen by the change of a constant that is named, and the
rest show in the modelled actions or were found by reading.

1. Paging, lost update (`paging_lost_update`). `swap_write_callback`
   (`swapper.c:195`) asks whether a mapping exists to know whether the page was
   touched during its transfer. `start_process` unmaps everything, so a page written
   meanwhile looks untouched, and its old image is kept.
2. RPC, no resend (`rpc_never_resent`). `nfs_timeout` has no caller; a lost packet
   leaves its process blocked for ever. If it were called each 100 ms, `timeout++ > 5`
   would send again after 700 ms, not the 500 ms of its comment.
3. Paging, a thread that waits for the frame of another process's page is never
   restarted when that process is deleted during the transfer: with `Killable = {a}` in
   `paging_steady`, `StoppedThreadsRestart` fails.
4. Paging, the swap entry of a page given up during its transfer to the swap file is
   never returned: neither the callbacks nor `pager_free_all` free it. `EntriesReturned`
   excepts it.
5. Paging, no page to evict: with a page of IPC memory (`Ipc = {bi}`, `bi` in `Page`) in
   `paging_steady`, two frames are not enough, `AlwaysAPageToEvict` fails.
6. Paging, the page at `STACK_TOP`: the access check uses `<=`, the unmap loop `<`.
   With `StackTop = {at}` and `at` in `Page` in `paging_lifecycle`, `FrameIsolation`
   fails.
7. Processes: the reply to a wait for a process that is gone passes `SOS_PROCESS_WAIT`,
   the number of the system call, as the number of words. `process_status` counts
   before it compares, so that a maximum of 0 is no limit. When L4 refuses a thread or
   its space, `sos_task_new` returns -1, -2 or -3 (`libsos.c:303`), and `create_process`
   answers with the pid of that, 255, which is outside the table; the slot stays active,
   with no thread that runs, until someone deletes it.
8. Clock: the handler of timer 0 asserts that there is an alarm, which a sleeper
   deleted, or a shorter sleep served meanwhile, makes false (`timer0_irq_asserts`).
   Both handlers clear status bits with `|=`, so that the first clears the other's too.
   `remove_timers` reads through NULL when the queue becomes empty. `clock.h:29`
   promises an implicit `stop_timer` of a second `start_timer`, which asserts instead.
   `max(expiration_time - get_time_stamp(), 1)` (`clock.c:304`) is computed without
   sign: when two alarms at the head of the queue are deleted in the microsecond after
   they were due, the third, due at the same time, is set off up to 64 s too late.
   `AlarmOnItsWay` excepts overdue alarms; without `get_time_stamp <=
   Head(queue).expiration_time` it fails in `clock`.
9. Clock: between the wrap of the time stamp and its interrupt the time goes back by
   64 s, and a sleep begun then ends early. `sleep_time * 1000` overflows `int`: with
   `INT_WRAP = 16` in `clock`, `NobodyWakesEarly` fails.
10. Files: the answer to a file creation goes to whoever has the thread id by then:
    with `Creator = {p1}` in `nfs`, `AnswersReachCaller` fails.
11. Files: `awaits_callback` is never reset after a callback, so that a deletion does not
    free the block of a descriptor that was ever read or written; for descriptor 0 it
    is not initialised.
12. Files and boot: one file more than `DIR_CACHE_SIZE` fails an assertion, in a
    callback: with `DIR_CACHE_SIZE = 3` in `boot`, `CacheFilled` fails. `open_file` creates
    every name that is not in the cache (`io.c:251`): a file opened while its lookup of
    the boot is outstanding is truncated, and then entered twice; one that two processes
    create at the same time is entered twice. With `Opener <- OpensEarly`, or with
    `Opener <- BothCreate`, and `DIR_CACHE_SIZE = 6` in `boot`, `CacheSound` fails.
13. Console: a read of 0 bytes blocks, and nothing wakes it: with 0 in `ReadLen`,
    `NoLineWithheld` fails.
14. RPC, a call lost at boot (`rpc_boot_race`): the queue is changed by two threads
    without a lock. `io_init` sends the creation of the swap file and the first readdir
    without waiting (`io.c:200`, `io.c:207`); if the answer to the first comes while
    `add_to_queue` has found it to be the last item, the second is linked behind an item
    that has left the queue, its answer is dropped, and the boot waits for ever in
    `io_init`. `my_recv` keeps the buffer of answers to no call; `call_pbuf` is
    read by one thread and freed by another.
15. Boot: `file_cache_initialized` is set by the last answer to readdir, while lookups
    may still be under way, so that the shell may not be found; the swap file is not
    waited for at all. `create_nfs` is told `L4_nilthread`, whose `get_process` is slot 0
    of the table, the server: `nfs_create_callback` opens the swap file for it once more,
    and its second descriptor is never used; if it comes before `io.c:204` it has slot
    `SWAP_FD`, and is overwritten and lost.
16. Memory: `sos_find_memory` never updates `maxsize`, so that it takes the last block of
    conventional memory, not the biggest. With less than `ONE_MEG` above address 0 its
    subtraction wraps.
17. Files: the cached size is that of the last answer. When two processes write one file
    and their answers are handled in the other order, or a writer is deleted in its call
    (the callback then skips the size), `stat` reports an old size until the next write.
18. RPC: `time_recv` sends to the init thread with `L4_Send`, which waits for it. A time
    packet that comes late, while init is about to call the root thread in `sos_usleep`,
    leaves both threads sending; or it ends that sleep early, and the reply to the sleep
    is what the next `rpc_call` takes for its answer, as it waits for any message.
19. malloc: `__malloc_top` is the last byte, not the first behind, so that `morecore` never
    hands out the last chunk of the heap. There is no lock (`THREAD_SAFE` is not defined,
    `src/libs/c/SConstruct:15`), though the init and the root thread both allocate while
    the system boots. `__malloc_check` expects `base` above the heap.
20. Boot: `nfs_readdir_callback` skips `.`, `..` and `swap` (`io_nfs.c:289`), but not
    `console`: a file of that name in the directory is entered beside the console, and
    `find_file` never reaches it. The theorems about the cache have `NoConsoleFile` for
    that. `find_file` (`io.c:115`) looks at all `DIR_CACHE_SIZE` entries, and reads the
    name of those that are still empty through NULL.
21. Boot: cookies of readdir are opaque, and `next_cookie > 0` (`io_nfs.c:316`) compares
    them as `int`: after one with its top bit set nothing more is listed. With
    `Ends = {1}` in `boot`, `CacheFilled` fails.

## 8. Plan

Done: the modules, runs and theorems above, in the order paging, frames, processes,
clock, files, console, transport, boot, then memory and malloc, file contents and the
abstract specification of calls. Every safety property of the passing runs has its
theorem. To do:

1. Models: access rights and the layout of the address space (`sos/mm/pager.c`, the
   rights of each region, the initializer's mappings); the size counter of processes;
   the question for the time of day; the contents of `call_pbuf`.
2. Composition: `NfsFiles` above `RpcCalls`, `Paging` above `FramePool` as an instance.
