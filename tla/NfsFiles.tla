------------------------------ MODULE NfsFiles ------------------------------
(***************************************************************************)
(* File descriptors and files on NFS: src/sos/io/io.c, src/sos/io/io_nfs.c *)
(* and the part of src/sos/process.c that sets up and takes down the file  *)
(* table of a process.                                                     *)
(*                                                                         *)
(* read, write and the creation of a file end in a callback of the NFS     *)
(* library, which gets a pointer (the token) to a file_table_entry or a    *)
(* file_info. Between the call and the callback the process may be         *)
(* deleted, its slot and thread id taken by another process, and freed     *)
(* memory handed out again. The library calls back once per call, in any   *)
(* order (RpcTransport); an answer may be an error.                        *)
(***************************************************************************)
EXTENDS Integers, FiniteSets, Sequences, SequencesExt

CONSTANTS
  Pid,                \* slots of the process table for user processes
  Mortal,             \* those whose process may be deleted
  Creator,            \* those whose process opens files that do not exist
  Name,               \* file names, without the console
  Existing,           \* names that are in the file cache from the start
  ReadOnly,           \* names whose file may not be written
  Mode,               \* modes of open that are tried
  PROCESS_MAX_FILES,
  DIR_CACHE_SIZE,
  MaxHandle,          \* bound: file_table_entry blocks on the heap
  MaxBirths           \* bound: processes ever created

ASSUME FilesAssumption ==
  /\ Mortal \subseteq Pid /\ Creator \subseteq Pid
  /\ Existing \subseteq Name /\ ReadOnly \subseteq Name
  /\ IsFiniteSet(Existing) /\ Cardinality(Existing) < DIR_CACHE_SIZE
  /\ Mode \subseteq {{"r"}, {"w"}, {"r", "w"}}
  /\ {PROCESS_MAX_FILES, DIR_CACHE_SIZE, MaxHandle} \subseteq Nat \ {0}
  /\ MaxBirths \in Nat

Fd      == 0 .. PROCESS_MAX_FILES - 1
Handle  == 1 .. MaxHandle
Null    == 0
Console == "console"

VARIABLES
  active,     \* ptable[p].is_active
  filetable,  \* ptable[p].filetable: a handle, or Null, for each descriptor
  heap,       \* the file_table_entry at each address, or Free
  cache,      \* file_cache: the names in the order of their insertion
  calls,      \* calls of the NFS library that have not been answered
  thread,     \* "none", "ready", or the call that thread p is blocked in
  birth,      \* serial number of the process in slot p (ghost)
  births,     \* processes created so far
  stray,      \* calls whose answer went to a thread not blocked in it (ghost)
  panic       \* file_cache_insert failed its assertion

process == <<active, birth, births>>
vars    == <<active, filetable, heap, cache, calls, thread, birth, births, stray, panic>>

file_table_entry ==
  [file : Name \cup {Console}, owner : Pid, mode : SUBSET {"r", "w"},
   awaits_callback : BOOLEAN, of : Nat]

Free == [file |-> "free"]
Allocated(h) == heap[h] # Free

-----------------------------------------------------------------------------
\* malloc of a file_table_entry: a block that is free, one freed just now perhaps. Which
\* of them the list hands out is in Malloc, and that it is free in Heap.
FreshHandle(h) == ~Allocated(h)

\* create_file_descriptor; the ghost "of" is the process it is made for.
create_file_descriptor(n, p, mode) ==
  [file |-> n, owner |-> p, mode |-> mode, awaits_callback |-> FALSE, of |-> birth[p]]

\* find_free_file_slot
FreeFds(p) == {fd \in Fd : filetable[p][fd] = Null}
find_free_file_slot(p) ==
  CHOOSE fd \in FreeFds(p) : \A other \in FreeFds(p) : fd <= other

find_file(n) == \E i \in 1 .. Len(cache) : cache[i] = n

Permits(n) == IF n \in ReadOnly THEN {"r"} ELSE {"r", "w"}

can_access(p, fd, right) ==
  filetable[p][fd] # Null /\ right \in heap[filetable[p][fd]].mode

\* A reply of kind k to thread p, meant for the process with serial number b.
\* It ends whatever call the thread is blocked in.
Replied(p) == IF thread[p] = "none" THEN thread ELSE [thread EXCEPT ![p] = "ready"]
StrayWith(p, k, b) ==
  IF thread[p] = k /\ birth[p] = b THEN stray ELSE stray \cup {k}

Runs(p) == ~panic /\ active[p] /\ thread[p] = "ready"

-----------------------------------------------------------------------------
\* open_nfs: a descriptor for the process in slot p if it has one free and the
\* file may be opened like that. The reply is its number, or -1.
open_nfs(n, p, mode) ==
  IF FreeFds(p) # {} /\ mode \subseteq Permits(n)
  THEN \E h \in Handle :
         /\ FreshHandle(h)
         /\ heap' = [heap EXCEPT ![h] = create_file_descriptor(n, p, mode)]
         /\ filetable' = [filetable EXCEPT ![p][find_free_file_slot(p)] = h]
  ELSE UNCHANGED <<heap, filetable>>

\* open_file of a file in the cache
open_file(p, n, mode) ==
  /\ Runs(p)
  /\ find_file(n)
  /\ open_nfs(n, p, mode)
  /\ UNCHANGED <<process, cache, calls, thread, stray, panic>>

\* open_file and create_nfs of a file that is not in the cache. The file_info
\* carries the mode and, in its reader field, the thread id.
create_nfs(p, n, mode) ==
  /\ Runs(p)
  /\ p \in Creator
  /\ ~find_file(n)
  /\ calls' = calls \cup {[kind |-> "open", reader |-> p, name |-> n, mode |-> mode,
                           of |-> birth[p]]}
  /\ thread' = [thread EXCEPT ![p] = "open"]
  /\ UNCHANGED <<process, filetable, heap, cache, stray, panic>>

\* Mutant: the callback never answers.
ReaderGone(c) == FALSE

\* What nfs_create_callback checks before it answers the thread id.
ReaderThere(c) == active[c.reader]

\* nfs_create_callback, with nfs_set_status and file_cache_insert
nfs_create_callback(c) ==
  /\ ~panic
  /\ c.kind = "open"
  /\ calls' = calls \ {c}
  /\ IF Len(cache) >= DIR_CACHE_SIZE
     THEN /\ panic' = TRUE
          /\ UNCHANGED <<filetable, heap, cache, thread, stray>>
     ELSE /\ cache' = Append(cache, c.name)
          /\ panic' = panic
          /\ IF ReaderThere(c)
             THEN /\ open_nfs(c.name, c.reader, c.mode)
                  /\ stray' = StrayWith(c.reader, "open", c.of)
                  /\ thread' = Replied(c.reader)
             ELSE UNCHANGED <<filetable, heap, thread, stray>>
  /\ UNCHANGED process

CreateFails(c) ==
  /\ ~panic
  /\ c.kind = "open"
  /\ calls' = calls \ {c}
  /\ IF ReaderThere(c)
     THEN thread' = Replied(c.reader) /\ stray' = StrayWith(c.reader, "open", c.of)
     ELSE UNCHANGED <<thread, stray>>
  /\ UNCHANGED <<process, filetable, heap, cache, panic>>

-----------------------------------------------------------------------------
\* read_nfs and write_nfs: the token is the handle, and it awaits the callback.
StartIo(p, fd, kind) ==
  LET h == filetable[p][fd] IN
  /\ calls' = calls \cup {[kind |-> kind, token |-> h, of |-> birth[p]]}
  /\ heap' = [heap EXCEPT ![h].awaits_callback = TRUE]
  /\ thread' = [thread EXCEPT ![p] = kind]
  /\ UNCHANGED <<process, filetable, cache, stray, panic>>

read_file(p, fd) ==
  /\ Runs(p)
  /\ can_access(p, fd, "r")
  /\ StartIo(p, fd, "read")

\* Writing to the console ends at once (Console).
write_file(p, fd) ==
  /\ Runs(p)
  /\ can_access(p, fd, "w")
  /\ heap[filetable[p][fd]].file # Console
  /\ StartIo(p, fd, "write")

\* The process was killed in the mean time (see delete_process).
Killed(h) == ~heap[h].awaits_callback

\* nfs_read_callback and nfs_write_callback, whatever the status.
IoCallback(c) ==
  LET h == c.token IN
  /\ ~panic
  /\ calls' = calls \ {c}
  /\ IF Killed(h)
     THEN /\ heap' = [heap EXCEPT ![h] = Free]
          /\ UNCHANGED <<thread, stray>>
     ELSE /\ thread' = Replied(heap[h].owner)
          /\ stray' = StrayWith(heap[h].owner, c.kind, c.of)
          /\ UNCHANGED heap
  /\ UNCHANGED <<process, filetable, cache, panic>>

nfs_read_callback(c) == c.kind = "read" /\ IoCallback(c)

nfs_write_callback(c) == c.kind = "write" /\ IoCallback(c)

\* Mutant: the handle is freed but the descriptor is kept.
close_file_keeps(p, fd) ==
  /\ Runs(p)
  /\ filetable[p][fd] # Null
  /\ heap' = [heap EXCEPT ![filetable[p][fd]] = Free]
  /\ UNCHANGED <<process, filetable, cache, calls, thread, stray, panic>>

close_file(p, fd) ==
  /\ Runs(p)
  /\ filetable[p][fd] # Null
  /\ heap' = [heap EXCEPT ![filetable[p][fd]] = Free]
  /\ filetable' = [filetable EXCEPT ![p][fd] = Null]
  /\ UNCHANGED <<process, cache, calls, thread, stray, panic>>

-----------------------------------------------------------------------------
\* register_process: an empty file table but for descriptor 0, the console. Its
\* awaits_callback is never set: it is whatever the memory held.
register_process(p) ==
  /\ ~panic
  /\ ~active[p]
  /\ births < MaxBirths
  /\ births' = births + 1
  /\ birth' = [birth EXCEPT ![p] = births + 1]
  /\ active' = [active EXCEPT ![p] = TRUE]
  /\ thread' = [thread EXCEPT ![p] = "ready"]
  /\ \E h \in Handle, junk \in BOOLEAN :
       /\ FreshHandle(h)
       /\ heap' = [heap EXCEPT ![h] = [file |-> Console, owner |-> p, mode |-> {"w"},
                                       awaits_callback |-> junk, of |-> births + 1]]
       /\ filetable' = [filetable EXCEPT ![p] = [fd \in Fd |-> IF fd = 0 THEN h ELSE Null]]
  /\ UNCHANGED <<cache, calls, stray, panic>>

\* Mutant: deletion frees every handle, pending callback or not.
HeapAfterDeleteAll(p) ==
  [h \in Handle |-> IF \E fd \in Fd : filetable[p][fd] = h THEN Free ELSE heap[h]]

\* Mutant: deletion leaves a handle that awaits a callback as it is.
HeapAfterDeleteKept(p) ==
  [h \in Handle |->
     IF \E fd \in Fd : filetable[p][fd] = h
     THEN IF heap[h].awaits_callback THEN heap[h] ELSE Free
     ELSE heap[h]]

\* The handles after delete_process: freed, or marked for their callback.
HeapAfterDelete(p) ==
  [h \in Handle |->
     IF \E fd \in Fd : filetable[p][fd] = h
     THEN IF heap[h].awaits_callback
          THEN [heap[h] EXCEPT !.awaits_callback = FALSE] ELSE Free
     ELSE heap[h]]

\* delete_process of p, by any process, itself included. Only descriptors whose
\* handle is freed are cleared; the table is not used again before
\* register_process clears it.
delete_process(p) ==
  /\ ~panic
  /\ p \in Mortal /\ active[p]
  /\ heap' = HeapAfterDelete(p)
  /\ filetable' = [filetable EXCEPT ![p] =
       [fd \in Fd |-> IF filetable[p][fd] # Null /\ heap[filetable[p][fd]].awaits_callback
                      THEN filetable[p][fd] ELSE Null]]
  /\ active' = [active EXCEPT ![p] = FALSE]
  /\ thread' = [thread EXCEPT ![p] = "none"]
  /\ UNCHANGED <<birth, births, cache, calls, stray, panic>>

-----------------------------------------------------------------------------
\* io_init has filled the cache: the console first, then the files on NFS.
Init ==
  /\ active = [p \in Pid |-> FALSE]
  /\ filetable = [p \in Pid |-> [fd \in Fd |-> Null]]
  /\ heap = [h \in Handle |-> Free]
  /\ cache = <<Console>> \o SetToSeq(Existing)
  /\ calls = {}
  /\ thread = [p \in Pid |-> "none"]
  /\ birth = [p \in Pid |-> 0]
  /\ births = 0
  /\ stray = {}
  /\ panic = FALSE

Answer(c) ==
  \/ nfs_read_callback(c)
  \/ nfs_write_callback(c)
  \/ nfs_create_callback(c)
  \/ CreateFails(c)

Next ==
  \/ \E c \in calls : Answer(c)
  \/ \E p \in Pid : register_process(p) \/ delete_process(p)
  \/ \E p \in Pid, n \in Name, mode \in Mode : open_file(p, n, mode) \/ create_nfs(p, n, mode)
  \/ \E p \in Pid, fd \in Fd : read_file(p, fd) \/ write_file(p, fd) \/ close_file(p, fd)

Spec == Init /\ [][Next]_vars

\* Every call of the NFS library is answered in the end. This is an assumption on
\* the network: nothing in the system repeats a call that is lost (RpcTransport,
\* run rpc_never_resent). A process has one call at a time.
FairSpec == Spec /\ \A b \in 1 .. MaxBirths : WF_vars(\E c \in calls : c.of = b /\ Answer(c))

-----------------------------------------------------------------------------
\* Types of the tables, the heap, the outstanding calls and the ghosts.
TypeOK ==
  /\ active \in [Pid -> BOOLEAN]
  /\ filetable \in [Pid -> [Fd -> Handle \cup {Null}]]
  /\ heap \in [Handle -> file_table_entry \cup {Free}]
  /\ cache \in Seq(Name \cup {Console}) /\ Len(cache) <= DIR_CACHE_SIZE
  /\ thread \in [Pid -> {"none", "ready", "read", "write", "open"}]
  /\ birth \in [Pid -> 0 .. births] /\ births \in Nat
  /\ stray \subseteq {"read", "write", "open"} /\ panic \in BOOLEAN

\* No callback touches freed memory: the token of an outstanding read or write
\* is a live handle, and still the one of the process that called, also after
\* that process was deleted (process.c: "since we pass around this pointer for
\* the write back calls we cannot free it yet").
TokensLive ==
  \A c \in calls : c.kind \in {"read", "write"} =>
    Allocated(c.token) /\ heap[c.token].of = c.of

\* An answer of NFS to a read, a write or the creation of a file reaches the process
\* that called, blocked in that call, and nobody else: not the next process with
\* its thread id, nor one blocked in another call (process.c: "no future callback
\* function will call this thread anymore").
AnswersReachCaller == stray = {}

\* Unless the server has stopped, a blocked thread has one outstanding call of its
\* own, so an answer is on its way (syscall.txt: "otherwise the user thread will wait until it receives a
\* reply message forever").
BlockedHasCall ==
  ~panic => \A p \in Pid : thread[p] \in {"read", "write", "open"} =>
    Cardinality({c \in calls : c.kind = thread[p] /\ c.of = birth[p]}) = 1

\* The descriptors of running processes are backed by live handles of their
\* own process, and no two share one.
DescriptorsSound ==
  \A p \in Pid, fd \in Fd : active[p] /\ filetable[p][fd] # Null =>
    /\ Allocated(filetable[p][fd])
    /\ heap[filetable[p][fd]].of = birth[p]
    /\ \A other \in Fd : filetable[p][other] = filetable[p][fd] => other = fd

\* Through every open, close, deletion and reuse of a slot, descriptors name live
\* handles of their own process, and whoever is blocked has a call to be answered
\* (io.c, io_nfs.c, process.c).
TablesSound == TypeOK /\ DescriptorsSound /\ BlockedHasCall

\* Every blocked call returns, or its process is deleted, or the server has
\* stopped because the file cache is full.
CallsReturn ==
  \A p \in Pid : thread[p] \in {"read", "write", "open"} ~> (thread[p] \in {"ready", "none"} \/ panic)
=============================================================================
