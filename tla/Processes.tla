----------------------------- MODULE Processes -----------------------------
(***************************************************************************)
(* The process table of SOS (src/sos/process.c): creation, the start of a  *)
(* loaded program, deletion, process_wait and process_status.              *)
(*                                                                         *)
(* The handlers run one at a time in syscall_loop, so each is one action.  *)
(* What makes them hard is that a process_wait is answered by a later      *)
(* deletion, and that between the two any slot of the table may be freed   *)
(* and taken again under the same thread id: register_process always sets  *)
(* version 1, so a pid and a thread id are the same thing here.            *)
(***************************************************************************)
EXTENDS Integers, FiniteSets, Sequences

CONSTANTS
  MAX_RUNNING_PROCESS,  \* slots of ptable; slot 0 is SOS itself
  StatusMax,            \* the "max" arguments of process_status that are tried
  STATUS_FIT,           \* PAGESIZE / sizeof(process_t)
  SOS_PROCESS_WAIT,     \* the number of the system call (syscalls.h)
  MaxBirths             \* bound: processes ever registered

ASSUME ConstantsAssumption ==
  /\ MAX_RUNNING_PROCESS \in Nat /\ MAX_RUNNING_PROCESS >= 2
  /\ StatusMax \subseteq Nat /\ STATUS_FIT \in Nat \ {0}
  /\ SOS_PROCESS_WAIT \in Nat
  /\ MaxBirths \in Nat

Pid == 0 .. MAX_RUNNING_PROCESS - 1
AnyThread == -1                      \* L4_anythread, and the pid -1
NilThread == -2                      \* L4_nilthread
BadPid    == MAX_RUNNING_PROCESS     \* a pid outside the table

VARIABLES
  is_active,    \* ptable[p].is_active
  initialized,  \* ptable[p].initialized
  wait_for,     \* ptable[p].wait_for
  next_task,    \* the allocation counter
  thread,       \* L4's state of thread p: "none", "inactive" (it was not started),
                \* "ready" or blocked in "wait"
  image,        \* what thread p executes: the initializer, the program or nothing
  birth,        \* serial number of the process in slot p
  births,       \* processes registered so far
  awaited,      \* birth of the process that p asked to wait for
  sent          \* replies the last step sent: [to, call, asked, words, w0]

table  == <<is_active, initialized, wait_for, next_task>>
kernel == <<thread, image>>
ghost  == <<birth, births, awaited>>
vars   == <<table, kernel, ghost, sent>>

-----------------------------------------------------------------------------
\* set_ipc_reply(msg, args, ...): the reply has "args" words, and they are the
\* words passed after that argument (words read past them are arbitrary).
set_ipc_reply(to, call, asked, args, words) ==
  [to |-> to, call |-> call, asked |-> asked, words |-> args, w0 |-> Head(words)]

\* IPC_SET_ERROR(e): one word, the error.
IPC_SET_ERROR(to, call, asked, e) == set_ipc_reply(to, call, asked, 1, <<e>>)

-----------------------------------------------------------------------------
\* allocate_process_entry: p is the slot it returns, and the counter it leaves.
FreeSlots == {i \in 1 .. MAX_RUNNING_PROCESS - 1 : ~is_active[i]}

NextIsFree == next_task < MAX_RUNNING_PROCESS /\ ~is_active[next_task]

SearchFinds(p) == p \in FreeSlots /\ \A i \in FreeSlots : p <= i

allocate_process_entry(p) ==
  IF NextIsFree THEN p = next_task ELSE SearchFinds(p)

TableFull == ~NextIsFree /\ FreeSlots = {}

NextTaskAfter ==
  IF NextIsFree THEN next_task + 1
  ELSE IF next_task = MAX_RUNNING_PROCESS THEN 2 ELSE next_task

\* Mutant: register_process leaves the wait_for of the slot's last user.
RegisteredWaitForKept(p) == wait_for

\* What register_process writes into wait_for of the slot it takes.
RegisteredWaitFor(p) == [wait_for EXCEPT ![p] = NilThread]

\* Mutant: register_process leaves "initialized" of the slot's last user.
RegisterNoReset(p) ==
  /\ is_active' = [is_active EXCEPT ![p] = TRUE]
  /\ initialized' = initialized
  /\ wait_for' = RegisteredWaitFor(p)
  /\ birth' = [birth EXCEPT ![p] = births + 1]
  /\ births' = births + 1

register_process(p) ==
  /\ is_active' = [is_active EXCEPT ![p] = TRUE]
  /\ initialized' = [initialized EXCEPT ![p] = FALSE]
  /\ wait_for' = RegisteredWaitFor(p)
  /\ birth' = [birth EXCEPT ![p] = births + 1]
  /\ births' = births + 1

\* L4_Start_SpIp: thread p runs the given code from its start.
StartThread(p, code) ==
  /\ thread' = [thread EXCEPT ![p] = "ready"]
  /\ image' = [image EXCEPT ![p] = code]

\* sos_task_new: the thread is created, gets its space and is started, or L4 refuses one
\* of the three and sos_task_new gives up where it is.
sos_task_new(p, started) ==
  IF started THEN StartThread(p, "initializer")
  ELSE /\ thread' = [thread EXCEPT ![p] = "inactive"]
       /\ image' = [image EXCEPT ![p] = "none"]

\* The pid of what sos_task_new returns; -1, -2 and -3 are thread ids outside the table.
NewPid(p, started) == IF started THEN p ELSE BadPid

Calls(p) == is_active[p] /\ thread[p] = "ready" /\ p # 0

\* create_process refuses a name that is not in the file cache, not executable
\* or too large, before it looks at the table.
CreateRefused(c) ==
  /\ Calls(c)
  /\ sent' = {IPC_SET_ERROR(c, "create", 0, -1)}
  /\ UNCHANGED <<table, kernel, ghost>>

CreateFull(c) ==
  /\ Calls(c)
  /\ TableFull
  /\ next_task' = NextTaskAfter
  /\ sent' = {IPC_SET_ERROR(c, "create", 0, -2)}
  /\ UNCHANGED <<is_active, initialized, wait_for, kernel, ghost>>

\* The caller is an active process, or (c = 0) init_thread at boot, which starts
\* the shell and receives no reply. The slot stays taken if the thread was not started.
create_process(c, p, started) ==
  /\ births < MaxBirths
  /\ IF c = 0 THEN births = 0 ELSE Calls(c)
  /\ allocate_process_entry(p)
  /\ next_task' = NextTaskAfter
  /\ register_process(p)
  /\ sos_task_new(p, started)
  /\ sent' = IF c = 0 THEN {} ELSE {set_ipc_reply(c, "create", 0, 1, <<NewPid(p, started)>>)}
  /\ UNCHANGED awaited

\* Mutant: waiters on any thread are forgotten.
WokenNamed(active, finished) ==
  {p \in Pid : active[p] /\ wait_for[p] = finished}

\* Mutant: every waiter is woken, whoever it waits for.
WokenAll(active, finished) ==
  {p \in Pid : active[p] /\ wait_for[p] # NilThread}

-----------------------------------------------------------------------------
\* wait_wakeup(finished): everyone that is woken when "finished" goes.
Woken(active, finished) ==
  {p \in Pid : active[p] /\ wait_for[p] \in {finished, AnyThread}}

\* The part of delete_process that is about the table: memory is modelled in
\* Paging, files in NfsFiles and Console, timers in Clock.
DeleteProcess(d) ==
  LET active == [is_active EXCEPT ![d] = FALSE]
      woken  == Woken(active, d)
  IN
  /\ is_active' = active
  /\ wait_for' = [p \in Pid |-> IF p \in woken THEN NilThread ELSE wait_for[p]]
  /\ thread' = [p \in Pid |-> IF p = d THEN "none"
                              ELSE IF p \in woken THEN "ready" ELSE thread[p]]
  /\ awaited' = [p \in Pid |-> IF p \in woken \cup {d} THEN 0 ELSE awaited[p]]
  /\ UNCHANGED <<initialized, next_task, image, birth, births>>

WakeReplies(d) ==
  {set_ipc_reply(p, "wait", wait_for[p], 1, <<d>>) :
     p \in Woken([is_active EXCEPT ![d] = FALSE], d)}

delete_process(c, d) ==
  /\ Calls(c)
  /\ d >= 1 /\ is_active[d]
  /\ DeleteProcess(d)
  /\ sent' = WakeReplies(d) \cup
             (IF c = d THEN {} ELSE {set_ipc_reply(c, "delete", d, 1, <<d>>)})

DeleteRefused(c, d) ==
  /\ Calls(c)
  /\ d >= 1 => ~is_active[d]
  /\ sent' = {IPC_SET_ERROR(c, "delete", d, -1)}
  /\ UNCHANGED <<table, kernel, ghost>>

-----------------------------------------------------------------------------
\* start_process, called by the initializer: loaded is its status word.
start_process(c, loaded) ==
  /\ Calls(c)
  /\ ~initialized[c]
  /\ IF loaded
     THEN /\ initialized' = [initialized EXCEPT ![c] = TRUE]
          /\ StartThread(c, "program")
          /\ sent' = {}
          /\ UNCHANGED <<is_active, wait_for, next_task, ghost>>
     ELSE /\ DeleteProcess(c)
          /\ sent' = WakeReplies(c)

StartRefused(c) ==
  /\ Calls(c)
  /\ initialized[c]
  /\ sent' = {IPC_SET_ERROR(c, "start", 0, -1)}
  /\ UNCHANGED <<table, kernel, ghost>>

\* Mutant: a wait on a free slot is taken like any other.
NothingToWaitForNever(pid) == FALSE

-----------------------------------------------------------------------------
\* The processes whose descriptors wait_process refuses to wait for.
NothingToWaitFor(pid) == ~is_active[pid]

\* wait_process answers at once for a process that is not there. The call is
\* set_ipc_reply(msg_p, SOS_PROCESS_WAIT, 1, pid): the number of the system
\* call is taken as the count of words and the 1 as the first of them.
WaitOver(c, pid) ==
  /\ Calls(c)
  /\ NothingToWaitFor(pid)
  /\ sent' = {set_ipc_reply(c, "wait", pid, SOS_PROCESS_WAIT, <<1, pid>>)}
  /\ UNCHANGED <<table, kernel, ghost>>

WaitRefused(c) ==
  /\ Calls(c)
  /\ sent' = {IPC_SET_ERROR(c, "wait", BadPid, -1)}
  /\ UNCHANGED <<table, kernel, ghost>>

wait_process(c, pid) ==
  /\ Calls(c)
  /\ pid \in Pid => ~NothingToWaitFor(pid)
  /\ wait_for' = [wait_for EXCEPT ![c] = pid]
  /\ thread' = [thread EXCEPT ![c] = "wait"]
  /\ awaited' = [awaited EXCEPT ![c] = IF pid = AnyThread THEN 0 ELSE birth[pid]]
  /\ sent' = {}
  /\ UNCHANGED <<is_active, initialized, next_task, image, birth, births>>

-----------------------------------------------------------------------------
\* get_process_status: the number of descriptors written for a request of "max".
\* The loop ends early when the count reaches the limit after an increment.
StatusAdded(max) ==
  LET limit == IF max < STATUS_FIT THEN max ELSE STATUS_FIT
      all   == Cardinality({p \in Pid : is_active[p]})
  IN IF limit >= 1 /\ limit <= all THEN limit ELSE all

get_process_status(c, max) ==
  /\ Calls(c)
  /\ sent' = {set_ipc_reply(c, "status", max, 1, <<StatusAdded(max)>>)}
  /\ UNCHANGED <<table, kernel, ghost>>

\* my_id and the initializer's question for its file name change nothing.
get_pid(c) ==
  /\ Calls(c)
  /\ sent' = {set_ipc_reply(c, "my_id", 0, 1, <<c>>)}
  /\ UNCHANGED <<table, kernel, ghost>>

get_executable_name(c) ==
  /\ Calls(c)
  /\ sent' = {set_ipc_reply(c, "name", 0, 1, <<IF initialized[c] THEN -1 ELSE 0>>)}
  /\ UNCHANGED <<table, kernel, ghost>>

-----------------------------------------------------------------------------
\* process_init: SOS holds slot 0 and the counter stands behind it.
Init ==
  /\ is_active = [p \in Pid |-> p = 0]
  /\ initialized = [p \in Pid |-> FALSE]
  /\ wait_for = [p \in Pid |-> NilThread]
  /\ next_task = 1
  /\ thread = [p \in Pid |-> IF p = 0 THEN "ready" ELSE "none"]
  /\ image = [p \in Pid |-> "initializer"]
  /\ birth = [p \in Pid |-> 0]
  /\ births = 0
  /\ awaited = [p \in Pid |-> 0]
  /\ sent = {}

Next ==
  \E c \in Pid :
    \/ \E p \in Pid, started \in BOOLEAN : create_process(c, p, started)
    \/ CreateRefused(c)
    \/ CreateFull(c)
    \/ \E d \in Pid : delete_process(c, d) \/ DeleteRefused(c, d)
    \/ \E loaded \in BOOLEAN : start_process(c, loaded)
    \/ StartRefused(c)
    \/ \E pid \in Pid : WaitOver(c, pid)
    \/ \E pid \in Pid \cup {AnyThread} : wait_process(c, pid)
    \/ WaitRefused(c)
    \/ \E max \in StatusMax : get_process_status(c, max)
    \/ get_pid(c)
    \/ get_executable_name(c)

Spec == Init /\ [][Next]_vars

-----------------------------------------------------------------------------
\* Types of the table, of L4's view of the threads and of the ghosts.
TypeOK ==
  /\ is_active \in [Pid -> BOOLEAN]
  /\ initialized \in [Pid -> BOOLEAN]
  /\ wait_for \in [Pid -> Pid \cup {AnyThread, NilThread}]
  /\ next_task \in 1 .. MAX_RUNNING_PROCESS
  /\ thread \in [Pid -> {"none", "inactive", "ready", "wait"}]
  /\ image \in [Pid -> {"none", "initializer", "program"}]
  /\ birth \in [Pid -> Nat]
  /\ births \in Nat
  /\ awaited \in [Pid -> Nat]

\* The table and L4 agree on who exists and who waits: an active slot has a
\* thread, and the thread of an active slot is blocked in process_wait exactly
\* when wait_for says so. A wait_for left over from an earlier process would
\* send a reply to a thread that is blocked in another call, or in none
\* (process.c: register_process, wait_process, wait_wakeup).
WaitForMatchesThreads ==
  \A p \in Pid :
    /\ is_active[p] <=> thread[p] # "none"
    /\ is_active[p] => (wait_for[p] # NilThread <=> thread[p] = "wait")

\* Nobody waits for a process that is gone: the process a blocked thread asked
\* for is still there, and it is the same one, not a later process in its slot
\* (process.c: wait_process, delete_process).
NobodyWaitsForTheDead ==
  \A p \in Pid :
    is_active[p] /\ wait_for[p] \in Pid =>
      is_active[wait_for[p]] /\ birth[wait_for[p]] = awaited[p]

\* The flag that lets a process call process_start and ask for its file name
\* tells the initializer from the program, also in a slot that is used again
\* (process.c: start_process, register_process).
InitializedMeansProgram ==
  \A p \in Pid \ {0} :
    is_active[p] => (initialized[p] <=> image[p] = "program")

\* A blocked wait is answered only by the exit of a process that was waited
\* for, in the same step, with the pid of that process (process.c: wait_wakeup).
WokenByExit ==
  [][\A p \in Pid :
       /\ thread[p] = "wait" /\ thread'[p] = "ready" /\ birth'[p] = birth[p]
       => \E d \in Pid :
            /\ is_active[d] /\ ~is_active'[d]
            /\ wait_for[p] \in {d, AnyThread}
            /\ \E r \in sent' : r.to = p /\ r.words = 1 /\ r.w0 = d]_vars

\* An exit leaves nobody behind who waits for it or for any process
\* (process.c: delete_process, wait_wakeup).
ExitWakesAllWaiters ==
  [][\A d \in Pid : is_active[d] /\ ~is_active'[d] =>
       \A p \in Pid \ {d} :
         is_active[p] /\ wait_for[p] \in {d, AnyThread} => thread'[p] = "ready"]_vars

\* A process is never created in a slot that is in use (the header of process.c:
\* "The pid is unique overall concurrently running processes").
FreshPid ==
  [][\A p \in Pid : birth'[p] # birth[p] => ~is_active[p] /\ thread[p] = "none"]_vars
=============================================================================
