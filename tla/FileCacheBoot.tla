--------------------------- MODULE FileCacheBoot ----------------------------
(***************************************************************************)
(* How the file cache is filled when the system boots (src/sos/io/io.c,    *)
(* io_nfs.c, main.c). The init thread enters the console, sends the        *)
(* creation of the swap file and the first readdir, waits until            *)
(* file_cache_initialized is set, and starts the shell. The root thread    *)
(* handles the answers: each readdir answer sends one lookup per file and  *)
(* the next readdir, each lookup answer enters its file in the cache.      *)
(***************************************************************************)
EXTENDS Integers, Sequences, FiniteSets, SequencesExt

CONSTANTS
  Filename,        \* what a file can be called, with room in file_info.filename
  Pages,           \* the directory, as a sequence of sets of names, one per answer;
                   \* the answer after them is empty
  Ends,            \* the answers whose last cookie has its top bit set
  DIR_CACHE_SIZE

ASSUME BootAssumption ==
  /\ DIR_CACHE_SIZE \in Nat \ {0}
  /\ Pages \in Seq(SUBSET Filename)
  /\ Ends \subseteq 1 .. Len(Pages)
  /\ {".", "..", "swap", "console", "sosh"} \subseteq Filename
  /\ \A i, j \in 1 .. Len(Pages) : i # j => Pages[i] \cap Pages[j] = {}

SWAP_FD      == 1
L4_nilthread == "L4_nilthread"

Ignored == {".", "..", "swap"}
Files   == (UNION {Pages[i] : i \in 1 .. Len(Pages)}) \ Ignored

VARIABLES
  file_cache,              \* the names in the cache, in order
  file_cache_initialized,
  pending,                 \* NFS calls that wait for their answer
  failed,                  \* names that NFS refused to list, look up or create
  init,                    \* where the init thread is
  swap_fd,                 \* the root process's descriptors of the swap file
  shell,                   \* "none", "started", or "missing" if it was not found
  halted                   \* an assertion has failed

vars == <<file_cache, file_cache_initialized, pending, failed, init, swap_fd, shell, halted>>

Cached == Range(file_cache)

-----------------------------------------------------------------------------
\* file_cache_insert, with its assertion
file_cache_insert(name) ==
  IF Len(file_cache) < DIR_CACHE_SIZE
  THEN file_cache' = Append(file_cache, name) /\ UNCHANGED halted
  ELSE halted' = TRUE /\ UNCHANGED file_cache

-----------------------------------------------------------------------------
\* Mutant: the calls are sent before the console is entered.
io_init_late_console ==
  \/ /\ init = "start"
     /\ init' = "console"
     /\ pending' = pending \cup {<<"create", "swap", L4_nilthread>>}
     /\ UNCHANGED <<file_cache, swap_fd, halted>>
  \/ /\ init = "console"
     /\ file_cache_insert("console")
     /\ swap_fd' = swap_fd \cup {SWAP_FD}
     /\ init' = "readdir"
     /\ UNCHANGED pending
  \/ /\ init = "readdir"
     /\ pending' = pending \cup {<<"readdir", 1>>}
     /\ init' = "wait"
     /\ UNCHANGED <<file_cache, swap_fd, halted>>

\* io_init up to its loop: the console, create_nfs for the swap file, the
\* descriptor of the swap file, and the first nfs_readdir.
io_init ==
  \/ /\ init = "start"
     /\ file_cache_insert("console")
     /\ init' = "create"
     /\ UNCHANGED <<pending, swap_fd>>
  \/ /\ init = "create"
     /\ pending' = pending \cup {<<"create", "swap", L4_nilthread>>}
     /\ init' = "descriptor"
     /\ UNCHANGED <<file_cache, swap_fd, halted>>
  \/ /\ init = "descriptor"
     /\ swap_fd' = swap_fd \cup {SWAP_FD}
     /\ init' = "readdir"
     /\ UNCHANGED <<file_cache, pending, halted>>
  \/ /\ init = "readdir"
     /\ pending' = pending \cup {<<"readdir", 1>>}
     /\ init' = "wait"
     /\ UNCHANGED <<file_cache, swap_fd, halted>>

\* The init thread leaves the loop and calls create_process("sosh").
StartShell ==
  /\ init = "wait"
  /\ file_cache_initialized
  /\ init' = "done"
  /\ shell' = IF "sosh" \in Cached THEN "started" ELSE "missing"
  /\ UNCHANGED <<file_cache, file_cache_initialized, pending, failed, swap_fd, halted>>

-----------------------------------------------------------------------------
\* nfs_set_status, the callback of nfs_lookup, which nfs_create_callback calls too
nfs_set_status(call, ok) ==
  /\ call \in pending
  /\ call[1] \in {"create", "lookup"}
  /\ pending' = pending \ {call}
  /\ IF ok THEN file_cache_insert(call[2]) /\ UNCHANGED failed
     ELSE failed' = failed \cup {call[2]} /\ UNCHANGED <<file_cache, halted>>
  /\ UNCHANGED <<file_cache_initialized, init, shell>>

\* open_nfs, called by nfs_create_callback for the swap file: get_process(L4_nilthread) is
\* the root process, which gets a descriptor in its first free slot (the console has slot
\* 0). If io_init has yet to store its own there, this one is lost.
open_nfs_swap == swap_fd' = swap_fd \cup {IF SWAP_FD \in swap_fd THEN SWAP_FD + 1 ELSE SWAP_FD}

Page(n) == IF n <= Len(Pages) THEN Pages[n] ELSE {}

\* Mutant: a page after the first is skipped.
LookedUpFirst(n) == IF n = 1 THEN Page(n) \ Ignored ELSE {}

LookedUp(n) == Page(n) \ Ignored

\* nfs_readdir_cb and nfs_readdir_callback. The next cookie is that of the last
\* entry (getentries_readdir), so there is a next answer unless this one has no
\* entries or is an error, or the cookie, as an int, is not above 0.
nfs_readdir_callback(n, ok) ==
  /\ <<"readdir", n>> \in pending
  /\ IF ok /\ Page(n) # {}
     THEN /\ pending' = (pending \ {<<"readdir", n>>})
                          \cup {<<"lookup", name>> : name \in LookedUp(n)}
                          \cup {<<"readdir", m + 1>> : m \in {n} \ Ends}
          /\ file_cache_initialized' = (n \in Ends)
          /\ UNCHANGED failed
     ELSE /\ pending' = pending \ {<<"readdir", n>>}
          /\ file_cache_initialized' = TRUE
          /\ failed' = failed \cup UNION {Page(m) \ Ignored : m \in n .. Len(Pages)}
  /\ UNCHANGED <<file_cache, init, swap_fd, shell, halted>>

-----------------------------------------------------------------------------
Init ==
  /\ file_cache = <<>>
  /\ file_cache_initialized = FALSE
  /\ pending = {} /\ failed = {}
  /\ init = "start"
  /\ swap_fd = {}
  /\ shell = "none"
  /\ halted = FALSE

InitThread ==
  \/ io_init /\ UNCHANGED <<file_cache_initialized, failed, shell>>
  \/ StartShell

Answer(call, ok) ==
  \/ nfs_set_status(call, ok)
     /\ IF call[1] = "create" /\ ok /\ ~halted' THEN open_nfs_swap ELSE UNCHANGED swap_fd
  \/ call[1] = "readdir" /\ nfs_readdir_callback(call[2], ok)

Next == ~halted /\ (InitThread \/ \E call \in pending, ok \in BOOLEAN : Answer(call, ok))

\* The init thread runs, and the NFS server answers every call.
Spec ==
  /\ Init /\ [][Next]_vars
  /\ WF_vars(Next)

-----------------------------------------------------------------------------
\* Types of the boot's state.
TypeOK ==
  /\ file_cache \in Seq(Filename) /\ Len(file_cache) <= DIR_CACHE_SIZE
  /\ file_cache_initialized \in BOOLEAN /\ halted \in BOOLEAN
  /\ swap_fd \subseteq {SWAP_FD, SWAP_FD + 1}
  /\ \A call \in pending :
       \/ call[1] = "create" /\ call[2] \in Filename
       \/ call[1] = "lookup" /\ call[2] \in Files
       \/ call[1] = "readdir" /\ call[2] \in 1 .. Len(Pages) + 1
  /\ shell \in {"none", "started", "missing"}

\* The console is entry 0 of the cache, where register_process and the interrupt
\* handler look for it, and nothing is in the cache twice: the swap file is not
\* found by readdir too (io_nfs.c: "else ignore ., .., swap").
CacheSound ==
  /\ TypeOK
  /\ file_cache # <<>> => file_cache[1] = "console"
  /\ \A i, j \in 1 .. Len(file_cache) : file_cache[i] = file_cache[j] => i = j

\* In the end the shell was looked for, and every file of every page is in the
\* cache that NFS did not refuse (nfs_readdir_callback: "This handler will set up
\* the file_cache cache of our root server").
CacheFilled == <>[](shell # "none" /\ (Files \cup {"console", "swap"}) \ failed \subseteq Cached)
=============================================================================
