-------------------------- MODULE ProcessesProofs --------------------------
(***************************************************************************)
(* Theorems about Processes, for every size of the table and any number of *)
(* processes created over time.                                            *)
(***************************************************************************)
EXTENDS Processes, TLAPS

\* The inductive invariant. The four parts need each other: that nobody waits
\* for the dead is kept by a deletion only because wait_for names every blocked
\* thread, and wait_for is exact only because a slot is taken when it is free.
Inv ==
  /\ TypeOK
  /\ WaitForMatchesThreads
  /\ NobodyWaitsForTheDead
  /\ InitializedMeansProgram

-----------------------------------------------------------------------------
\* The slot that allocate_process_entry returns is a free one, never that of SOS.
LEMMA AllocatedSlotIsFree ==
  ASSUME TypeOK, NEW p, allocate_process_entry(p)
  PROVE  p \in Pid \ {0} /\ ~is_active[p]
  BY ConstantsAssumption
  DEF TypeOK, Pid, allocate_process_entry, NextIsFree, SearchFinds, FreeSlots

\* The counter stays inside the table or just behind it.
LEMMA NextTaskInRange ==
  ASSUME TypeOK
  PROVE  NextTaskAfter \in 1 .. MAX_RUNNING_PROCESS
  BY ConstantsAssumption DEF TypeOK, NextTaskAfter, NextIsFree

\* The pids are naturals, so the two special thread ids are none of them.
LEMMA SpecialThreads == NilThread # AnyThread /\ NilThread \notin Pid /\ AnyThread \notin Pid
  BY DEF NilThread, AnyThread, Pid

\* Init establishes the invariant.
LEMMA InitInv == Init => Inv
  <1> SUFFICES ASSUME Init PROVE Inv OBVIOUS
  <1> USE ConstantsAssumption DEF Init
  <1>1. TypeOK
    BY DEF TypeOK, Pid
  <1>2. WaitForMatchesThreads /\ NobodyWaitsForTheDead /\ InitializedMeansProgram
    BY SpecialThreads
    DEF WaitForMatchesThreads, NobodyWaitsForTheDead, InitializedMeansProgram
  <1> QED BY <1>1, <1>2 DEF Inv

\* A deletion keeps the invariant, whoever asks for it.
LEMMA DeleteKeepsInv ==
  ASSUME Inv, NEW d \in Pid \ {0}, DeleteProcess(d)
  PROVE  Inv'
  <1> USE DEF Inv
  <1> DEFINE active == [is_active EXCEPT ![d] = FALSE]
             woken  == Woken(active, d)
  <1>1. /\ is_active' = active
        /\ wait_for' = [p \in Pid |-> IF p \in woken THEN NilThread ELSE wait_for[p]]
        /\ thread' = [p \in Pid |-> IF p = d THEN "none"
                                    ELSE IF p \in woken THEN "ready" ELSE thread[p]]
        /\ awaited' = [p \in Pid |-> IF p \in woken \cup {d} THEN 0 ELSE awaited[p]]
        /\ UNCHANGED <<initialized, next_task, image, birth, births>>
    BY DEF DeleteProcess
  <1>2. /\ active \in [Pid -> BOOLEAN]
        /\ \A p \in Pid : active[p] <=> (p # d /\ is_active[p])
    BY DEF TypeOK
  <1>3. \A p \in Pid : p \in woken <=> /\ p # d /\ is_active[p]
                                      /\ wait_for[p] \in {d, AnyThread}
    BY <1>2 DEF Woken
  <1> HIDE DEF active, woken
  <1>4. TypeOK'
    BY <1>1, <1>2 DEF TypeOK
  <1>5. WaitForMatchesThreads'
    BY <1>1, <1>2, <1>3, SpecialThreads DEF WaitForMatchesThreads, TypeOK
  <1>6. NobodyWaitsForTheDead'
    BY <1>1, <1>2, <1>3, SpecialThreads DEF NobodyWaitsForTheDead, TypeOK
  <1>7. InitializedMeansProgram'
    BY <1>1, <1>2 DEF InitializedMeansProgram, TypeOK
  <1> QED BY <1>4, <1>5, <1>6, <1>7

\* The creation of a process keeps the invariant.
LEMMA CreateKeepsInv ==
  ASSUME Inv, NEW c \in Pid, NEW p \in Pid, NEW started \in BOOLEAN, create_process(c, p, started)
  PROVE  Inv'
  <1> USE DEF Inv
  <1>1. p \in Pid \ {0} /\ ~is_active[p]
    BY AllocatedSlotIsFree DEF create_process
  <1>2. next_task' \in 1 .. MAX_RUNNING_PROCESS
    BY NextTaskInRange DEF create_process
  <1>3. /\ is_active' = [is_active EXCEPT ![p] = TRUE]
        /\ initialized' = [initialized EXCEPT ![p] = FALSE]
        /\ wait_for' = [wait_for EXCEPT ![p] = NilThread]
        /\ birth' = [birth EXCEPT ![p] = births + 1]
        /\ births' = births + 1
        /\ \E state \in {"ready", "inactive"} : thread' = [thread EXCEPT ![p] = state]
        /\ \E code \in {"initializer", "none"} : image' = [image EXCEPT ![p] = code]
        /\ awaited' = awaited
    BY DEF create_process, register_process, RegisteredWaitFor, sos_task_new, StartThread
  <1>4. TypeOK'
    BY <1>2, <1>3 DEF TypeOK
  <1>5. WaitForMatchesThreads'
    BY <1>1, <1>3, SpecialThreads DEF WaitForMatchesThreads, TypeOK
  <1>6. NobodyWaitsForTheDead'
    BY <1>1, <1>3, SpecialThreads DEF NobodyWaitsForTheDead, TypeOK
  <1>7. InitializedMeansProgram'
    BY <1>1, <1>3 DEF InitializedMeansProgram, TypeOK
  <1> QED BY <1>4, <1>5, <1>6, <1>7

\* A wait keeps the invariant: the awaited process is there when the wait begins.
LEMMA WaitKeepsInv ==
  ASSUME Inv, NEW c \in Pid, NEW pid \in Pid \cup {AnyThread}, wait_process(c, pid)
  PROVE  Inv'
  <1> USE DEF Inv, wait_process, Calls, NothingToWaitFor
  <1>1. TypeOK'
    BY DEF TypeOK
  <1>2. WaitForMatchesThreads'
    BY SpecialThreads DEF WaitForMatchesThreads, TypeOK
  <1>3. NobodyWaitsForTheDead'
    BY SpecialThreads DEF NobodyWaitsForTheDead, TypeOK
  <1>4. InitializedMeansProgram'
    BY DEF InitializedMeansProgram, TypeOK
  <1> QED BY <1>1, <1>2, <1>3, <1>4

\* Starting the loaded program keeps the invariant.
LEMMA StartKeepsInv ==
  ASSUME Inv, NEW c \in Pid, NEW loaded \in BOOLEAN, start_process(c, loaded)
  PROVE  Inv'
  <1>1. CASE ~loaded
    BY <1>1, DeleteKeepsInv DEF start_process, Calls
  <1>2. CASE loaded
    <2> USE DEF Inv, Calls
    <2>1. /\ initialized' = [initialized EXCEPT ![c] = TRUE]
          /\ thread' = [thread EXCEPT ![c] = "ready"]
          /\ image' = [image EXCEPT ![c] = "program"]
          /\ UNCHANGED <<is_active, wait_for, next_task, ghost>>
          /\ is_active[c] /\ thread[c] = "ready"
      BY <1>2 DEF start_process, StartThread
    <2>2. TypeOK'
      BY <2>1 DEF TypeOK, ghost
    <2>3. WaitForMatchesThreads'
      BY <2>1 DEF WaitForMatchesThreads, TypeOK
    <2>4. NobodyWaitsForTheDead'
      BY <2>1 DEF NobodyWaitsForTheDead, TypeOK, ghost
    <2>5. InitializedMeansProgram'
      BY <2>1 DEF InitializedMeansProgram, TypeOK
    <2> QED BY <2>2, <2>3, <2>4, <2>5
  <1> QED BY <1>1, <1>2

\* Steps that only reply, or move the counter, keep the invariant.
LEMMA ReplyKeepsInv ==
  ASSUME Inv, UNCHANGED <<is_active, initialized, wait_for, kernel, ghost>>,
         next_task' \in 1 .. MAX_RUNNING_PROCESS
  PROVE  Inv'
  BY DEF Inv, TypeOK, WaitForMatchesThreads, NobodyWaitsForTheDead,
         InitializedMeansProgram, kernel, ghost

\* Every step keeps the invariant.
LEMMA NextInv == Inv /\ [Next]_vars => Inv'
  <1> SUFFICES ASSUME Inv, [Next]_vars PROVE Inv' OBVIOUS
  <1>0. next_task \in 1 .. MAX_RUNNING_PROCESS /\ TypeOK
    BY DEF Inv, TypeOK
  <1>1. CASE UNCHANGED vars
    BY <1>0, <1>1, ReplyKeepsInv DEF vars, table
  <1>2. CASE Next
    <2> SUFFICES ASSUME NEW c \in Pid,
                        \/ \E p \in Pid, started \in BOOLEAN : create_process(c, p, started)
                        \/ CreateRefused(c)
                        \/ CreateFull(c)
                        \/ \E d \in Pid : delete_process(c, d) \/ DeleteRefused(c, d)
                        \/ \E loaded \in BOOLEAN : start_process(c, loaded)
                        \/ StartRefused(c)
                        \/ \E pid \in Pid : WaitOver(c, pid)
                        \/ \E pid \in Pid \cup {AnyThread} : wait_process(c, pid)
                        \/ WaitRefused(c)
                        \/ \E max \in StatusMax : get_process_status(c, max)
                        \/ get_pid(c)
                        \/ get_executable_name(c)
                 PROVE  Inv'
      BY <1>2 DEF Next
    <2>1. CASE \E p \in Pid, started \in BOOLEAN : create_process(c, p, started)
      BY <2>1, CreateKeepsInv
    <2>2. CASE CreateFull(c)
      BY <2>2, <1>0, NextTaskInRange, ReplyKeepsInv DEF CreateFull
    <2>3. ASSUME NEW d \in Pid, delete_process(c, d)
          PROVE  Inv'
      <3>1. d \in Pid \ {0} /\ DeleteProcess(d)
        BY <2>3 DEF delete_process, Pid
      <3> QED BY <3>1, DeleteKeepsInv
    <2>4. CASE \E loaded \in BOOLEAN : start_process(c, loaded)
      BY <2>4, StartKeepsInv
    <2>5. CASE \E pid \in Pid \cup {AnyThread} : wait_process(c, pid)
      BY <2>5, WaitKeepsInv
    <2>6. CASE UNCHANGED <<table, kernel, ghost>>
      BY <2>6, <1>0, ReplyKeepsInv DEF table
    <2> QED
      BY <2>1, <2>2, <2>3, <2>4, <2>5, <2>6
      DEF CreateRefused, DeleteRefused, StartRefused, WaitOver, WaitRefused,
          get_process_status, get_pid, get_executable_name
  <1> QED BY <1>1, <1>2 DEF Next

\* The invariant holds throughout.
LEMMA InvSafety == Spec => []Inv
  BY InitInv, NextInv, PTL DEF Spec

-----------------------------------------------------------------------------
\* wait_for and L4 agree on who waits, for every table size (process.c:
\* register_process, wait_process, wait_wakeup).
THEOREM WaitersExact == Spec => []WaitForMatchesThreads
  <1>1. Inv => WaitForMatchesThreads
    BY DEF Inv
  <1> QED BY <1>1, InvSafety, PTL

\* No thread waits for a process that is gone or whose slot has a new owner
\* (process.c: wait_process, delete_process).
THEOREM NoForgottenWaiter == Spec => []NobodyWaitsForTheDead
  <1>1. Inv => NobodyWaitsForTheDead
    BY DEF Inv
  <1> QED BY <1>1, InvSafety, PTL

\* Only a loader may start a program, also in slots that are used again
\* (process.c: start_process).
THEOREM LoaderFlagExact == Spec => []InitializedMeansProgram
  <1>1. Inv => InitializedMeansProgram
    BY DEF Inv
  <1> QED BY <1>1, InvSafety, PTL

\* The pid of a new process belongs to nobody (process.c: allocate_process_entry,
\* register_process).
THEOREM PidsAreFresh == Spec => FreshPid
  <1> DEFINE Fresh == \A p \in Pid : birth'[p] # birth[p] => ~is_active[p] /\ thread[p] = "none"
  <1>1. Inv /\ [Next]_vars => [Fresh]_vars
    <2> SUFFICES ASSUME Inv, Next PROVE Fresh OBVIOUS
    <2>1. ASSUME NEW c \in Pid, NEW p \in Pid, NEW started \in BOOLEAN, create_process(c, p, started)
          PROVE  Fresh
      <3>1. ~is_active[p] /\ birth' = [birth EXCEPT ![p] = births + 1]
        BY <2>1, AllocatedSlotIsFree DEF create_process, register_process, Inv
      <3> QED BY <3>1 DEF Inv, TypeOK, WaitForMatchesThreads
    <2>2. CASE UNCHANGED birth
      BY <2>2
    <2> QED
      BY <2>1, <2>2
      DEF Next, ghost, CreateRefused, CreateFull, delete_process, DeleteProcess,
          DeleteRefused, start_process, StartRefused, WaitOver, wait_process,
          WaitRefused, get_process_status, get_pid, get_executable_name
  <1> QED BY <1>1, InvSafety, PTL DEF Spec, FreshPid

\* An exit leaves no waiter behind (process.c: delete_process, wait_wakeup).
THEOREM ExitsAreNoticed == Spec => ExitWakesAllWaiters
  <1> DEFINE Wakes == \A d \in Pid : is_active[d] /\ ~is_active'[d] =>
                 \A p \in Pid \ {d} :
                   is_active[p] /\ wait_for[p] \in {d, AnyThread} => thread'[p] = "ready"
  <1>1. Inv /\ [Next]_vars => [Wakes]_vars
    <2> SUFFICES ASSUME Inv, Next PROVE Wakes OBVIOUS
    <2>1. ASSUME NEW d \in Pid, DeleteProcess(d)
          PROVE  Wakes
      <3>1. \A p \in Pid \ {d} :
              is_active[p] /\ wait_for[p] \in {d, AnyThread} => thread'[p] = "ready"
        BY <2>1 DEF DeleteProcess, Woken, Inv, TypeOK
      <3>2. \A e \in Pid : is_active[e] /\ ~is_active'[e] => e = d
        BY <2>1 DEF DeleteProcess, Inv, TypeOK
      <3> QED BY <3>1, <3>2
    <2>2. ASSUME NEW c \in Pid, NEW p \in Pid, NEW started \in BOOLEAN, create_process(c, p, started)
          PROVE  Wakes
      BY <2>2 DEF create_process, register_process, Inv, TypeOK
    <2>3. CASE UNCHANGED is_active
      BY <2>3
    <2> QED
      BY <2>1, <2>2, <2>3
      DEF Next, table, CreateRefused, CreateFull, delete_process,
          DeleteRefused, start_process, StartRefused, WaitOver, wait_process,
          WaitRefused, get_process_status, get_pid, get_executable_name
  <1> QED BY <1>1, InvSafety, PTL DEF Spec, ExitWakesAllWaiters

\* A blocked wait ends only because a process it was for has exited, and the answer is
\* the pid of that process (process.c: wait_wakeup).
THEOREM WakeupsAreExits == Spec => WokenByExit
  <1> DEFINE ByExit == \A p \in Pid :
               /\ thread[p] = "wait" /\ thread'[p] = "ready" /\ birth'[p] = birth[p]
               => \E d \in Pid :
                    /\ is_active[d] /\ ~is_active'[d]
                    /\ wait_for[p] \in {d, AnyThread}
                    /\ \E r \in sent' : r.to = p /\ r.words = 1 /\ r.w0 = d
  <1>1. Inv /\ [Next]_vars => [ByExit]_vars
    <2> SUFFICES ASSUME Inv, Next PROVE ByExit OBVIOUS
    <2>1. ASSUME NEW d \in Pid, is_active[d], DeleteProcess(d), WakeReplies(d) \subseteq sent'
          PROVE  ByExit
      <3> DEFINE woken == Woken([is_active EXCEPT ![d] = FALSE], d)
      <3>1. ~is_active'[d] /\ \A p \in Pid : thread[p] # "ready" /\ thread'[p] = "ready" => p \in woken
        BY <2>1 DEF DeleteProcess, Inv, TypeOK
      <3>2. \A p \in woken : wait_for[p] \in {d, AnyThread}
        BY DEF Woken
      <3>3. ASSUME NEW p \in woken PROVE \E r \in sent' : r.to = p /\ r.words = 1 /\ r.w0 = d
        <4> DEFINE r == set_ipc_reply(p, "wait", wait_for[p], 1, <<d>>)
        <4>1. r \in sent'
          BY <2>1, <3>3 DEF WakeReplies
        <4>2. r.to = p /\ r.words = 1 /\ r.w0 = d
          BY DEF set_ipc_reply
        <4> HIDE DEF r
        <4> QED BY <4>1, <4>2
      <3> HIDE DEF woken
      <3> QED BY <2>1, <3>1, <3>2, <3>3
    <2>2. ASSUME NEW c \in Pid, NEW p \in Pid, NEW started \in BOOLEAN, create_process(c, p, started)
          PROVE  ByExit
      <3>1. /\ ~is_active[p]
            /\ \E state \in {"ready", "inactive"} : thread' = [thread EXCEPT ![p] = state]
        BY <2>2, AllocatedSlotIsFree DEF create_process, sos_task_new, StartThread, Inv
      <3> QED BY <3>1 DEF Inv, TypeOK, WaitForMatchesThreads
    <2>3. ASSUME NEW c \in Pid, Calls(c), StartThread(c, "program")
          PROVE  ByExit
      BY <2>3 DEF Calls, StartThread, Inv, TypeOK
    <2>4. ASSUME NEW c \in Pid, NEW pid, wait_process(c, pid)
          PROVE  ByExit
      BY <2>4 DEF wait_process, Inv, TypeOK
    <2>5. CASE UNCHANGED thread
      BY <2>5
    <2>6. ASSUME NEW c \in Pid, NEW d \in Pid, delete_process(c, d) PROVE ByExit
      BY <2>1, <2>6 DEF delete_process
    <2>7. ASSUME NEW c \in Pid, NEW loaded \in BOOLEAN, start_process(c, loaded) PROVE ByExit
      BY <2>1, <2>3, <2>7 DEF start_process, Calls
    <2> QED
      BY <2>2, <2>4, <2>5, <2>6, <2>7
      DEF Next, kernel, CreateRefused, CreateFull, DeleteRefused, StartRefused, WaitOver,
          WaitRefused, get_process_status, get_pid, get_executable_name
  <1> QED BY <1>1, InvSafety, PTL DEF Spec, WokenByExit
=============================================================================
