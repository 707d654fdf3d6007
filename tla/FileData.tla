------------------------------ MODULE FileData ------------------------------
(***************************************************************************)
(* The contents of files, the positions of open files and the sizes that   *)
(* stat reports (src/sos/io/io.c, io_nfs.c), on top of FileCacheBoot: once *)
(* the shell runs, user processes open, create, read, write and close      *)
(* files, while lookups of the boot may still be outstanding.              *)
(*                                                                         *)
(* A process has one file open at a time; descriptors, deletion and reuse  *)
(* of handles are in NfsFiles.                                             *)
(***************************************************************************)
EXTENDS FileCacheBoot

CONSTANTS
  User,       \* user processes
  Writer,     \* for each file in use, the process that writes it
  Opener,     \* for each file in use, who opens it although it is not in the cache
  Amount,     \* numbers of bytes that are read or written in one call
  MaxBytes    \* bound: bytes ever written

Name    == DOMAIN Writer
Created == Name \ Files   \* those that are not in the directory
NoFile  == "none"
Idle    == [kind |-> "none"]

ASSUME DataAssumption ==
  /\ Name \subseteq Filename /\ Created \cap (Ignored \cup {"console"}) = {}
  /\ Writer \in [Name -> User] /\ Opener \in [Name -> SUBSET User]
  /\ L4_nilthread \notin User
  /\ Amount \subseteq Nat /\ MaxBytes \in Nat

\* A file is created by its writer, and nobody opens a file of the directory before it has
\* been looked up. The code does not see to that; without it, one name is entered twice.
OneCreator == \A n \in Name : Opener[n] \subseteq IF n \in Created THEN {Writer[n]} ELSE {}

VARIABLES
  disk,      \* the bytes of each file, on the NFS server
  past,      \* for each file and position, the bytes it ever held (history)
  st_size,   \* status.st_size of each file in the cache
  handle,    \* the file_table_entry of each process
  io,        \* the call of the NFS library that each process waits for
  bytes      \* bytes written so far; the next one has this number

data    == <<disk, past, st_size, handle, io, bytes>>
allVars == <<vars, data>>

-----------------------------------------------------------------------------
\* create_file_descriptor. The ghosts put and got are what the process has been
\* told it wrote and what it was given to read, through this descriptor.
create_file_descriptor(n) ==
  [file |-> n, write_position |-> 0, read_position |-> 0, put |-> <<>>, got |-> <<>>]

Closed == [file |-> NoFile]

Ready(u) == ~halted /\ shell = "started" /\ io[u] = Idle

\* open_file of a file in the cache
open_file(u, n) ==
  /\ Ready(u) /\ handle[u] = Closed
  /\ n \in Cached
  /\ handle' = [handle EXCEPT ![u] = create_file_descriptor(n)]
  /\ UNCHANGED <<vars, disk, past, st_size, io, bytes>>

\* open_file of a file that is not in the cache, and create_nfs
create_nfs(u, n) ==
  /\ Ready(u) /\ handle[u] = Closed
  /\ n \notin Cached
  /\ pending' = pending \cup {<<"create", n, u>>}
  /\ io' = [io EXCEPT ![u] = [kind |-> "create", file |-> n]]
  /\ UNCHANGED <<file_cache, file_cache_initialized, failed, init, swap_fd, shell, halted,
                 disk, past, st_size, handle, bytes>>

\* nfs_create_callback for a process. The server has made the file empty (sat.size = 0),
\* and the answer has its attributes. An assertion that fails in file_cache_insert leaves
\* the process without an answer.
nfs_create_callback(u, ok) ==
  LET n == io[u].file IN
  /\ ~halted
  /\ io[u].kind = "create"
  /\ nfs_set_status(<<"create", n, u>>, ok)
  /\ disk' = IF ok THEN [disk EXCEPT ![n] = <<>>] ELSE disk
  /\ st_size' = IF ok THEN [st_size EXCEPT ![n] = 0] ELSE st_size
  /\ IF halted' THEN UNCHANGED <<handle, io>>
     ELSE /\ handle' = IF ok THEN [handle EXCEPT ![u] = create_file_descriptor(n)] ELSE handle
          /\ io' = [io EXCEPT ![u] = Idle]
  /\ UNCHANGED <<swap_fd, past, bytes>>

close_file(u) ==
  /\ Ready(u) /\ handle[u] # Closed
  /\ handle' = [handle EXCEPT ![u] = Closed]
  /\ UNCHANGED <<vars, disk, past, st_size, io, bytes>>

-----------------------------------------------------------------------------
\* write_file and write_nfs: count new bytes for the write position
write_nfs(u, count) ==
  /\ Ready(u) /\ handle[u] # Closed
  /\ bytes + count <= MaxBytes
  /\ bytes' = bytes + count
  /\ io' = [io EXCEPT ![u] = [kind |-> "write", state |-> "sent",
                              at |-> handle[u].write_position,
                              bytes |-> [k \in 1 .. count |-> bytes + k]]]
  /\ UNCHANGED <<vars, disk, past, st_size, handle>>

read_nfs(u, count) ==
  /\ Ready(u) /\ handle[u] # Closed
  /\ io' = [io EXCEPT ![u] = [kind |-> "read", state |-> "sent",
                              at |-> handle[u].read_position, count |-> count]]
  /\ UNCHANGED <<vars, disk, past, st_size, handle, bytes>>

\* The bytes of file f after a write of b at position at
Overwritten(f, at, b) ==
  SubSeq(f, 1, at) \o b \o SubSeq(f, at + Len(b) + 1, Len(f))

Remembered(p, at, b) ==
  [k \in 1 .. Max({Len(p), at + Len(b)}) |->
     (IF k <= Len(p) THEN p[k] ELSE {}) \cup (IF k - at \in DOMAIN b THEN {b[k - at]} ELSE {})]

\* The NFS server writes the bytes; its answer has the new size.
ServeWrite(u) ==
  LET n == handle[u].file IN
  /\ io[u].kind = "write" /\ io[u].state = "sent"
  /\ disk' = [disk EXCEPT ![n] = Overwritten(@, io[u].at, io[u].bytes)]
  /\ past' = [past EXCEPT ![n] = Remembered(@, io[u].at, io[u].bytes)]
  /\ io' = [io EXCEPT ![u] = [kind |-> "write", state |-> "ok",
                              bytes |-> @.bytes, size |-> Len(disk'[n])]]
  /\ UNCHANGED <<vars, st_size, handle, bytes>>

Bytes(f, at, count) == SubSeq(f, at + 1, Min({at + count, Len(f)}))

\* The NFS server reads what there is.
ServeRead(u) ==
  /\ io[u].kind = "read" /\ io[u].state = "sent"
  /\ io' = [io EXCEPT ![u] = [kind |-> "read", state |-> "ok", count |-> @.count,
               bytes |-> Bytes(disk[handle[u].file], @.at, @.count)]]
  /\ UNCHANGED <<vars, disk, past, st_size, handle, bytes>>

\* The NFS server refuses a read or a write; nothing is written.
Refuse(u) ==
  /\ io[u].kind \in {"read", "write"} /\ io[u].state = "sent"
  /\ io' = [io EXCEPT ![u] = [kind |-> @.kind, state |-> "error"]]
  /\ UNCHANGED <<vars, disk, past, st_size, handle, bytes>>

-----------------------------------------------------------------------------
\* Mutant: the size is where the writer is.
new_size_position(u) == handle[u].write_position + Len(io[u].bytes)

new_size(u) == io[u].size

\* nfs_write_callback with NFS_OK: the process is told that all was written.
nfs_write_callback(u) ==
  /\ ~halted
  /\ io[u].kind = "write" /\ io[u].state = "ok"
  /\ handle' = [handle EXCEPT ![u].write_position = @ + Len(io[u].bytes),
                              ![u].put = @ \o io[u].bytes]
  /\ st_size' = [st_size EXCEPT ![handle[u].file] = new_size(u)]
  /\ io' = [io EXCEPT ![u] = Idle]
  /\ UNCHANGED <<vars, disk, past, bytes>>

\* Mutant: as many as were asked for.
bytes_read_asked(u) == io[u].count

bytes_read(u) == Len(io[u].bytes)

nfs_read_callback(u) ==
  /\ ~halted
  /\ io[u].kind = "read" /\ io[u].state = "ok"
  /\ handle' = [handle EXCEPT ![u].read_position = @ + bytes_read(u),
                              ![u].got = @ \o io[u].bytes]
  /\ io' = [io EXCEPT ![u] = Idle]
  /\ UNCHANGED <<vars, disk, past, st_size, bytes>>

\* Both callbacks with another status: the process is told, and may try again.
IoFails(u) ==
  /\ ~halted
  /\ io[u].kind \in {"read", "write"} /\ io[u].state = "error"
  /\ io' = [io EXCEPT ![u] = Idle]
  /\ UNCHANGED <<vars, disk, past, st_size, handle, bytes>>

-----------------------------------------------------------------------------
InitData ==
  /\ Init
  /\ disk = [n \in Name |-> IF n \in Files THEN <<0, 0>> ELSE <<>>]
  /\ past = [n \in Name |-> IF n \in Files THEN <<{0}, {0}>> ELSE <<>>]
  /\ st_size = [n \in Name |-> 0]
  /\ handle = [u \in User |-> Closed]
  /\ io = [u \in User |-> Idle]
  /\ bytes = 0

\* The answer to a lookup brings the size.
BootAnswer(call, ok) ==
  /\ call[1] = "create" => call[3] = L4_nilthread
  /\ Answer(call, ok)
  /\ st_size' = IF call[1] = "lookup" /\ ok /\ call[2] \in Name
                THEN [st_size EXCEPT ![call[2]] = Len(disk[call[2]])] ELSE st_size
  /\ UNCHANGED <<disk, past, handle, io, bytes>>

Boot ==
  /\ ~halted
  /\ \/ InitThread /\ UNCHANGED data
     \/ \E call \in pending, ok \in BOOLEAN : BootAnswer(call, ok)

MayWrite(u) == handle[u] # Closed /\ Writer[handle[u].file] = u

\* What a process does, as far as Opener and Writer let it, and what becomes of it.
Use(u) ==
  \/ \E n \in Name : open_file(u, n) \/ (u \in Opener[n] /\ create_nfs(u, n))
  \/ \E ok \in BOOLEAN : nfs_create_callback(u, ok)
  \/ \E count \in Amount : (MayWrite(u) /\ write_nfs(u, count)) \/ read_nfs(u, count)
  \/ ServeWrite(u) \/ ServeRead(u) \/ Refuse(u)
  \/ nfs_write_callback(u) \/ nfs_read_callback(u) \/ IoFails(u)
  \/ close_file(u)

\* Fairness as in FileCacheBoot: the init thread runs, and its calls are answered.
SpecData ==
  /\ InitData /\ [][Boot \/ \E u \in User : Use(u)]_allVars
  /\ WF_allVars(Boot)

-----------------------------------------------------------------------------
\* Between the calls of its writer, the size that stat reports of a file is its size on
\* the server, whatever was refused, overwritten or read meanwhile (io_nfs.c: "We also
\* update the size and access time in the file_cache").
SizesExact ==
  \A n \in Cached \cap Name :
    io[Writer[n]].kind # "write" => st_size[n] = Len(disk[n])

\* What a process was told it has written through a descriptor is what the file begins
\* with, and each byte it was given to read was in the file at the place where it is in
\* the stream it has read: no gap, no repetition, whichever calls were refused or short
\* (io.h: "current read position in file (to handle multiple read calls)").
StreamsIntact ==
  \A u \in User : handle[u] # Closed =>
    LET h == handle[u] IN
    /\ io[u].kind # "write" => h.put = Bytes(disk[h.file], 0, Len(h.put))
    /\ Len(h.got) <= Len(past[h.file])
    /\ \A k \in 1 .. Len(h.got) : h.got[k] \in past[h.file][k]
=============================================================================
