--------------------------- MODULE NfsFilesProofs ---------------------------
(***************************************************************************)
(* Theorems about NfsFiles, for any number of processes, files, descriptors *)
(* and blocks of memory, if no process that creates files is ever deleted. *)
(***************************************************************************)
EXTENDS NfsFiles, FiniteSetTheorems, SequenceTheorems, TLAPS

IoCall   == [kind : {"read", "write"}, token : Handle, of : 1 .. births]
OpenCall == [kind : {"open"}, reader : Creator, name : Name, mode : Mode, of : 1 .. births]

CallsTyped == calls \subseteq IoCall \cup OpenCall

\* A running process has a serial number, which nobody else has or had.
BirthsDistinct ==
  /\ \A p \in Pid : active[p] => birth[p] # 0
  /\ \A p, q \in Pid : birth[p] = birth[q] /\ birth[p] # 0 => p = q

ThreadsRun == \A p \in Pid : thread[p] = "none" <=> ~active[p]

\* A handle in the table of a running process has it as its owner, which is who
\* the callback answers.
TablesOwned ==
  \A p \in Pid, fd \in Fd :
    active[p] /\ filetable[p][fd] # Null => heap[filetable[p][fd]].owner = p

OneCallEach == \A c, d \in calls : c.of = d.of => c = d

\* The process that made the call c is still there, blocked in it, and has the
\* handle of c in its table, where delete_process will find it.
CallerWaits(c) ==
  LET p == heap[c.token].owner IN
  /\ active[p] /\ birth[p] = c.of /\ thread[p] = c.kind
  /\ \E fd \in Fd : filetable[p][fd] = c.token

CallerGone(c) == \A p \in Pid : active[p] => birth[p] # c.of

\* awaits_callback tells the callback which of the two it is.
IoCallSound(c) ==
  /\ Allocated(c.token)
  /\ heap[c.token].of = c.of
  /\ IF heap[c.token].awaits_callback THEN CallerWaits(c) ELSE CallerGone(c)

IoCallsSound == \A c \in calls : c.kind # "open" => IoCallSound(c)

OpenCallsSound ==
  \A c \in calls : c.kind = "open" =>
    active[c.reader] /\ birth[c.reader] = c.of /\ thread[c.reader] = "open"

ReadyHasNoCall ==
  \A p \in Pid, c \in calls : active[p] /\ thread[p] = "ready" => c.of # birth[p]

BlockedHasOne ==
  ~panic => \A p \in Pid : thread[p] \notin {"none", "ready"} =>
    \E c \in calls : c.kind = thread[p] /\ c.of = birth[p]

Inv ==
  /\ TypeOK /\ CallsTyped /\ BirthsDistinct /\ ThreadsRun
  /\ DescriptorsSound /\ TablesOwned
  /\ OneCallEach /\ IoCallsSound /\ OpenCallsSound
  /\ ReadyHasNoCall /\ BlockedHasOne
  /\ stray = {}

-----------------------------------------------------------------------------
(***************************************************************************)
(* Descriptors, handles and the file cache.                                *)
(***************************************************************************)

\* The constants of the file system, one by one.
LEMMA TypeConstants ==
  /\ PROCESS_MAX_FILES \in Nat \ {0} /\ DIR_CACHE_SIZE \in Nat \ {0} /\ MaxHandle \in Nat \ {0}
  /\ Mortal \subseteq Pid /\ Creator \subseteq Pid /\ Existing \subseteq Name
  /\ 0 \in Fd /\ Fd \subseteq Nat /\ Handle \subseteq Nat /\ Null \notin Handle
  BY FilesAssumption DEF Fd, Handle, Null

\* A mode is a set of rights.
LEMMA ModeType == \A mode \in Mode : mode \in SUBSET {"r", "w"}
  BY FilesAssumption

\* A file table entry is no free cell.
LEMMA EntryIsNotFree == \A e \in file_table_entry : e # Free
<1> SUFFICES ASSUME NEW e \in file_table_entry, e = Free PROVE FALSE
  OBVIOUS
<1>1. DOMAIN e = {"file", "owner", "mode", "awaits_callback", "of"}
  BY DEF file_table_entry
<1>2. DOMAIN Free = {"file"}
  BY DEF Free
<1> QED BY <1>1, <1>2

\* A set of naturals that is not empty has a least member.
LEMMA LeastNumber ==
  ASSUME NEW S \in SUBSET Nat, S # {}
  PROVE  \E m \in S : \A n \in S : m <= n
<1>1. PICK m \in S : \A n \in S : ~ <<n, m>> \in OpToRel(<, Nat)
  BY NatLessThanWellFounded, WFMin, Zenon
<1>2. \A n \in S : ~ (n < m)
  BY <1>1 DEF OpToRel
<1> QED BY <1>2

\* find_free_file_slot finds a free descriptor where there is one.
LEMMA FreeSlot ==
  ASSUME NEW p, FreeFds(p) # {}
  PROVE  find_free_file_slot(p) \in Fd /\ filetable[p][find_free_file_slot(p)] = Null
<1>1. FreeFds(p) \subseteq Nat
  BY TypeConstants DEF FreeFds
<1>2. PICK m \in FreeFds(p) : \A fd \in FreeFds(p) : m <= fd
  BY <1>1, LeastNumber
<1>3. find_free_file_slot(p) \in FreeFds(p)
  BY <1>2 DEF find_free_file_slot
<1> QED BY <1>3 DEF FreeFds

\* A finite set as a sequence: its members, as many as there are.
LEMMA SeqOfSet ==
  ASSUME NEW S, IsFiniteSet(S)
  PROVE  SetToSeq(S) \in Seq(S) /\ Len(SetToSeq(S)) = Cardinality(S)
<1>1. Cardinality(S) \in Nat /\ ExistsBijection(1 .. Cardinality(S), S)
  BY FS_CardinalityType
<1>2. PICK f \in [1 .. Cardinality(S) -> S] : IsInjective(f)
  BY <1>1 DEF ExistsBijection, Bijection, Injection, IsInjective
<1>3. SetToSeq(S) \in [1 .. Cardinality(S) -> S]
  BY <1>2 DEF SetToSeq
<1> QED BY <1>1, <1>3

-----------------------------------------------------------------------------
(***************************************************************************)
(* Every step preserves the invariant.                                     *)
(***************************************************************************)

\* The parts of the type invariant.
LEMMA Types ==
  ASSUME TypeOK
  PROVE  /\ active \in [Pid -> BOOLEAN] /\ birth \in [Pid -> Nat] /\ births \in Nat
         /\ \A p \in Pid : birth[p] <= births
         /\ filetable \in [Pid -> [Fd -> Handle \cup {Null}]]
         /\ heap \in [Handle -> file_table_entry \cup {Free}]
         /\ thread \in [Pid -> {"none", "ready", "read", "write", "open"}]
         /\ \A h \in Handle : Allocated(h) <=> heap[h] \in file_table_entry
<1>1. birth \in [Pid -> 0 .. births] /\ births \in Nat
  BY DEF TypeOK
<1>2. birth \in [Pid -> Nat] /\ \A p \in Pid : birth[p] <= births
  BY <1>1
<1>3. \A h \in Handle : heap[h] \in file_table_entry \cup {Free}
  BY DEF TypeOK
<1>4. \A h \in Handle : Allocated(h) <=> heap[h] \in file_table_entry
  BY <1>3, EntryIsNotFree DEF Allocated
<1> QED BY <1>1, <1>2, <1>4 DEF TypeOK

\* The invariant holds at the start.
LEMMA InvInit == Init => Inv
<1> SUFFICES ASSUME Init PROVE Inv
  OBVIOUS
<1>1. cache \in Seq(Name \cup {Console}) /\ Len(cache) <= DIR_CACHE_SIZE
  <2>1. SetToSeq(Existing) \in Seq(Existing) /\ Len(SetToSeq(Existing)) = Cardinality(Existing)
    BY SeqOfSet, FilesAssumption
  <2>2. SetToSeq(Existing) \in Seq(Name \cup {Console})
    BY <2>1, TypeConstants
  <2>3. <<Console>> \in Seq(Name \cup {Console}) /\ Len(<<Console>>) = 1
    OBVIOUS
  <2> DEFINE one == <<Console>>
             more == SetToSeq(Existing)
  <2>4. one \in Seq(Name \cup {Console}) /\ Len(one) = 1 /\ more \in Seq(Name \cup {Console})
    BY <2>2, <2>3
  <2>5. cache = one \o more
    BY DEF Init
  <2> HIDE DEF one, more
  <2>6. one \o more \in Seq(Name \cup {Console}) /\ Len(one \o more) = Len(one) + Len(more)
    BY <2>4, ConcatProperties, Zenon
  <2>7. Len(more) < DIR_CACHE_SIZE /\ Len(more) \in Nat
    BY <2>1, <2>4, FilesAssumption DEF more
  <2> QED BY <2>4, <2>5, <2>6, <2>7, TypeConstants
<1>2. TypeOK
  <2>1. birth \in [Pid -> 0 .. births] /\ births \in Nat
    BY DEF Init
  <2>2. filetable \in [Pid -> [Fd -> Handle \cup {Null}]]
    BY DEF Init
  <2>3. heap \in [Handle -> file_table_entry \cup {Free}]
    BY DEF Init
  <2>4. active \in [Pid -> BOOLEAN] /\ panic \in BOOLEAN
    BY DEF Init
  <2>5. thread \in [Pid -> {"none", "ready", "read", "write", "open"}] /\ stray \subseteq {"read", "write", "open"}
    BY DEF Init
  <2> QED BY <1>1, <2>1, <2>2, <2>3, <2>4, <2>5 DEF TypeOK
<1>3. CallsTyped /\ OneCallEach /\ IoCallsSound /\ OpenCallsSound /\ ReadyHasNoCall
  BY DEF Init, CallsTyped, OneCallEach, IoCallsSound, OpenCallsSound, ReadyHasNoCall
<1>4. BirthsDistinct /\ ThreadsRun /\ BlockedHasOne
  BY DEF Init, BirthsDistinct, ThreadsRun, BlockedHasOne
<1>5. DescriptorsSound /\ TablesOwned
  BY DEF Init, DescriptorsSound, TablesOwned
<1> QED BY <1>2, <1>3, <1>4, <1>5 DEF Init, Inv

\* A new handle disturbs nothing that was there.
LEMMA NewDescriptor ==
  ASSUME Inv, NEW p \in Pid, NEW n \in Name, NEW mode \in Mode, active[p],
         open_nfs(n, p, mode), UNCHANGED process
  PROVE  /\ heap' \in [Handle -> file_table_entry \cup {Free}]
         /\ filetable' \in [Pid -> [Fd -> Handle \cup {Null}]]
         /\ \A h \in Handle : Allocated(h) => heap'[h] = heap[h]
         /\ \A q \in Pid, fd \in Fd : filetable[q][fd] # Null => filetable'[q][fd] = filetable[q][fd]
         /\ DescriptorsSound' /\ TablesOwned'
<1>0. TypeOK /\ DescriptorsSound /\ TablesOwned
  BY DEF Inv
<1>1. CASE UNCHANGED <<heap, filetable>>
  BY <1>0, <1>1 DEF TypeOK, DescriptorsSound, TablesOwned, Allocated, process
<1>2. CASE FreeFds(p) # {} /\ mode \subseteq Permits(n)
  <2> DEFINE slot == find_free_file_slot(p)
             e == create_file_descriptor(n, p, mode)
  <2>1. PICK h \in Handle :
          /\ FreshHandle(h)
          /\ heap' = [heap EXCEPT ![h] = e]
          /\ filetable' = [filetable EXCEPT ![p][slot] = h]
    BY <1>2 DEF open_nfs
  <2>2. slot \in Fd /\ filetable[p][slot] = Null
    BY <1>2, FreeSlot
  <2>3. e \in file_table_entry /\ e.owner = p /\ e.of = birth[p]
    BY <1>0, Types, ModeType DEF create_file_descriptor, file_table_entry
  <2> HIDE DEF slot, e
  <2>4. ~Allocated(h)
    BY <2>1 DEF FreshHandle
  <2>5. /\ heap' \in [Handle -> file_table_entry \cup {Free}]
        /\ heap'[h] = e /\ \A g \in Handle : g # h => heap'[g] = heap[g]
    BY <1>0, <2>1, <2>3, Types
  <2>6. /\ filetable' \in [Pid -> [Fd -> Handle \cup {Null}]]
        /\ filetable'[p][slot] = h
        /\ \A q \in Pid, fd \in Fd :
             <<q, fd>> # <<p, slot>> => filetable'[q][fd] = filetable[q][fd]
    BY <1>0, <2>1, <2>2, Types
  <2>7. \A g \in Handle : Allocated(g) => heap'[g] = heap[g]
    BY <2>4, <2>5
  <2>8. \A q \in Pid, fd \in Fd :
          filetable[q][fd] # Null => filetable'[q][fd] = filetable[q][fd]
    BY <2>2, <2>6
  <2>9. ASSUME NEW q \in Pid, NEW fd \in Fd, active[q], filetable[q][fd] # Null
        PROVE  filetable[q][fd] \in Handle /\ filetable[q][fd] # h
    BY <1>0, <2>4, <2>9, Types DEF DescriptorsSound
  <2>10. DescriptorsSound'
    <3> SUFFICES ASSUME NEW q \in Pid, NEW fd \in Fd, active'[q], filetable'[q][fd] # Null
                 PROVE  /\ heap'[filetable'[q][fd]] # Free
                        /\ heap'[filetable'[q][fd]].of = birth'[q]
                        /\ \A other \in Fd : filetable'[q][other] = filetable'[q][fd] => other = fd
      BY DEF DescriptorsSound, Allocated
    <3>0. active[q] /\ birth' = birth
      BY DEF process
    <3>1. CASE <<q, fd>> = <<p, slot>>
      <4>1. filetable'[q][fd] = h /\ heap'[h].of = birth[p] /\ heap'[h] # Free
        BY <2>3, <2>5, <2>6, <3>1, EntryIsNotFree
      <4>2. \A other \in Fd : filetable'[q][other] = h => other = fd
        BY <2>6, <2>9, <3>0, <3>1, TypeConstants
      <4> QED BY <3>0, <3>1, <4>1, <4>2
    <3>2. CASE <<q, fd>> # <<p, slot>>
      <4>1. filetable'[q][fd] = filetable[q][fd] /\ filetable[q][fd] # h /\ filetable[q][fd] \in Handle
        BY <2>6, <2>9, <3>0, <3>2
      <4>2. heap'[filetable[q][fd]] = heap[filetable[q][fd]]
        BY <2>5, <4>1
      <4>3. \A other \in Fd : filetable'[q][other] = filetable[q][fd] => other = fd
        BY <1>0, <2>6, <3>0, <4>1, TypeConstants DEF DescriptorsSound
      <4> QED BY <1>0, <3>0, <4>1, <4>2, <4>3 DEF DescriptorsSound, Allocated
    <3> QED BY <3>1, <3>2
  <2>11. TablesOwned'
    <3> SUFFICES ASSUME NEW q \in Pid, NEW fd \in Fd, active'[q], filetable'[q][fd] # Null
                 PROVE  heap'[filetable'[q][fd]].owner = q
      BY DEF TablesOwned
    <3>0. active[q]
      BY DEF process
    <3>1. CASE <<q, fd>> = <<p, slot>>
      BY <2>3, <2>5, <2>6, <3>1
    <3>2. CASE <<q, fd>> # <<p, slot>>
      BY <1>0, <2>5, <2>6, <2>9, <3>0, <3>2 DEF TablesOwned
    <3> QED BY <3>1, <3>2
  <2> QED BY <2>5, <2>6, <2>7, <2>8, <2>10, <2>11
<1> QED BY <1>1, <1>2 DEF open_nfs

\* What the invariant says of one pending call.
LEMMA CallTypes ==
  ASSUME Inv, NEW c \in calls
  PROVE  /\ c.of \in 1 .. births /\ births \in Nat /\ c.of \in Nat /\ c.of # 0
         /\ c.kind \in {"read", "write", "open"}
         /\ c.kind = "open" => c.reader \in Creator /\ c.reader \in Pid /\ c.name \in Name /\ c.mode \in Mode
         /\ c.kind # "open" => c.token \in Handle /\ heap[c.token] \in file_table_entry
                               /\ heap[c.token].owner \in Pid
<1>1. c \in IoCall \/ c \in OpenCall
  BY DEF Inv, CallsTyped
<1>2. births \in Nat
  BY DEF Inv, TypeOK
<1>3. CASE c \in OpenCall
  BY <1>2, <1>3, TypeConstants DEF OpenCall
<1>4. CASE c \in IoCall
  <2>1. c.of \in 1 .. births /\ c.kind \in {"read", "write"} /\ c.token \in Handle /\ c.kind # "open"
    BY <1>4 DEF IoCall
  <2>2. heap[c.token] \in file_table_entry
    BY <2>1, Types DEF Inv, IoCallsSound, IoCallSound
  <2>3. heap[c.token].owner \in Pid
    BY <2>2 DEF file_table_entry
  <2> QED BY <1>2, <2>1, <2>2, <2>3
<1> QED BY <1>1, <1>3, <1>4

\* What is left alone keeps a read or write sound: its handle, its caller, and
\* the caller's descriptor.
LEMMA IoCallKept ==
  ASSUME Inv, NEW c \in calls, c.kind # "open", UNCHANGED process,
         heap'[c.token] = heap[c.token],
         \A p \in Pid : birth[p] = c.of => thread'[p] = thread[p],
         \A p \in Pid, fd \in Fd : filetable[p][fd] = c.token => filetable'[p][fd] = c.token
  PROVE  IoCallSound(c)'
<1>1. IoCallSound(c)
  BY DEF Inv, IoCallsSound
<1>2. heap[c.token].owner \in Pid
  BY CallTypes
<1>3. CASE heap[c.token].awaits_callback
  BY <1>1, <1>2, <1>3 DEF IoCallSound, CallerWaits, Allocated, process
<1>4. CASE ~heap[c.token].awaits_callback
  BY <1>1, <1>4 DEF IoCallSound, CallerGone, Allocated, process
<1> QED BY <1>3, <1>4

\* open_file keeps the invariant.
LEMMA OpenKeeps ==
  ASSUME Inv, NEW p \in Pid, NEW n \in Name, NEW mode \in Mode, open_file(p, n, mode)
  PROVE  Inv'
<1>1. /\ heap' \in [Handle -> file_table_entry \cup {Free}]
      /\ filetable' \in [Pid -> [Fd -> Handle \cup {Null}]]
      /\ \A h \in Handle : Allocated(h) => heap'[h] = heap[h]
      /\ \A q \in Pid, fd \in Fd : filetable[q][fd] # Null => filetable'[q][fd] = filetable[q][fd]
      /\ DescriptorsSound' /\ TablesOwned'
  BY NewDescriptor DEF open_file, Runs
<1>2. UNCHANGED <<active, birth, births, cache, calls, thread, stray, panic>>
  BY DEF open_file, process
<1>3. TypeOK'
  BY <1>1, <1>2 DEF Inv, TypeOK
<1>4. IoCallsSound'
  <2> SUFFICES ASSUME NEW c \in calls, c.kind # "open" PROVE IoCallSound(c)'
    BY <1>2 DEF IoCallsSound
  <2>1. c.token \in Handle /\ Allocated(c.token)
    BY CallTypes DEF Inv, IoCallsSound, IoCallSound
  <2>2. heap'[c.token] = heap[c.token] /\ c.token # Null
    BY <1>1, <2>1, TypeConstants
  <2> QED BY <1>1, <1>2, <2>2, IoCallKept DEF process
<1>5. CallsTyped' /\ OneCallEach' /\ OpenCallsSound' /\ ReadyHasNoCall' /\ BlockedHasOne'
  BY <1>2 DEF Inv, CallsTyped, IoCall, OpenCall, OneCallEach, OpenCallsSound, ReadyHasNoCall, BlockedHasOne
<1>6. BirthsDistinct' /\ ThreadsRun' /\ stray' = {}
  BY <1>2 DEF Inv, BirthsDistinct, ThreadsRun
<1> QED BY <1>1, <1>3, <1>4, <1>5, <1>6 DEF Inv

CallsAndThreads ==
  /\ thread \in [Pid -> {"none", "ready", "read", "write", "open"}]
  /\ CallsTyped /\ OneCallEach /\ OpenCallsSound /\ ThreadsRun /\ ReadyHasNoCall /\ BlockedHasOne

\* A thread that runs makes a call c and is blocked in it.
LEMMA CallStarts ==
  ASSUME Inv, NEW p \in Pid, active[p], thread[p] = "ready",
         NEW c \in IoCall \cup OpenCall, c.of = birth[p], c.kind = "open" => c.reader = p,
         calls' = calls \cup {c}, thread' = [thread EXCEPT ![p] = c.kind],
         UNCHANGED <<process, panic>>
  PROVE  CallsAndThreads'
<1>0. /\ UNCHANGED <<active, birth, births, panic>>
      /\ CallsTyped /\ OneCallEach /\ OpenCallsSound /\ ThreadsRun /\ ReadyHasNoCall /\ BlockedHasOne
      /\ BirthsDistinct
  BY DEF process, Inv
<1>1. c.kind \in {"read", "write", "open"}
  BY DEF IoCall, OpenCall
<1>2. /\ thread \in [Pid -> {"none", "ready", "read", "write", "open"}]
      /\ thread' \in [Pid -> {"none", "ready", "read", "write", "open"}]
      /\ thread'[p] = c.kind /\ \A q \in Pid : q # p => thread'[q] = thread[q]
  BY <1>1, Types DEF Inv
<1>3. \A d \in calls : d.of # birth[p]
  BY <1>0 DEF ReadyHasNoCall
<1>4. CallsTyped'
  BY <1>0 DEF CallsTyped, IoCall, OpenCall
<1>5. OneCallEach'
  BY <1>0, <1>3 DEF OneCallEach
<1>6. ThreadsRun'
  BY <1>0, <1>1, <1>2 DEF ThreadsRun
<1>7. OpenCallsSound'
  <2> SUFFICES ASSUME NEW d \in calls', d.kind = "open"
               PROVE  active[d.reader] /\ birth[d.reader] = d.of /\ thread'[d.reader] = "open"
    BY <1>0 DEF OpenCallsSound
  <2>1. CASE d = c
    BY <1>2, <2>1
  <2>2. CASE d \in calls
    <3>1. active[d.reader] /\ birth[d.reader] = d.of /\ thread[d.reader] = "open" /\ d.reader \in Pid
      BY <1>0, <2>2, CallTypes DEF OpenCallsSound
    <3> QED BY <1>2, <3>1
  <2> QED BY <2>1, <2>2
<1>8. ReadyHasNoCall'
  <2> SUFFICES ASSUME NEW q \in Pid, NEW d \in calls', active[q], thread'[q] = "ready"
               PROVE  d.of # birth[q]
    BY <1>0 DEF ReadyHasNoCall
  <2>1. q # p
    BY <1>1, <1>2
  <2>2. birth[p] # birth[q]
    BY <1>0, <2>1 DEF BirthsDistinct
  <2> QED BY <1>0, <1>2, <2>1, <2>2 DEF ReadyHasNoCall
<1>9. BlockedHasOne'
  <2> SUFFICES ASSUME ~panic, NEW q \in Pid, thread'[q] \notin {"none", "ready"}
               PROVE  \E d \in calls' : d.kind = thread'[q] /\ d.of = birth[q]
    BY <1>0 DEF BlockedHasOne
  <2>1. CASE q = p
    BY <1>2, <2>1
  <2>2. CASE q # p
    BY <1>0, <1>2, <2>2 DEF BlockedHasOne
  <2> QED BY <2>1, <2>2
<1> QED BY <1>2, <1>4, <1>5, <1>6, <1>7, <1>8, <1>9 DEF CallsAndThreads

\* The call c is answered and its caller runs again.
LEMMA CallEnds ==
  ASSUME Inv, NEW c \in calls, NEW p \in Pid, active[p], birth[p] = c.of, thread[p] = c.kind,
         calls' = calls \ {c}, thread' = [thread EXCEPT ![p] = "ready"],
         UNCHANGED <<process, panic>>
  PROVE  CallsAndThreads' /\ \A d \in calls' : d.of # c.of
<1>0. /\ UNCHANGED <<active, birth, births, panic>>
      /\ CallsTyped /\ OneCallEach /\ OpenCallsSound /\ ThreadsRun /\ ReadyHasNoCall /\ BlockedHasOne
      /\ BirthsDistinct
  BY DEF process, Inv
<1>1. c.of # 0
  BY CallTypes
<1>2. /\ thread \in [Pid -> {"none", "ready", "read", "write", "open"}]
      /\ thread' \in [Pid -> {"none", "ready", "read", "write", "open"}]
      /\ thread'[p] = "ready" /\ \A q \in Pid : q # p => thread'[q] = thread[q]
  BY Types DEF Inv
<1>3. \A d \in calls' : d \in calls /\ d.of # c.of
  BY <1>0 DEF OneCallEach
<1>4. \A q \in Pid : birth[q] = c.of => q = p
  BY <1>0, <1>1 DEF BirthsDistinct
<1>5. CallsTyped' /\ OneCallEach'
  BY <1>0 DEF CallsTyped, IoCall, OpenCall, OneCallEach
<1>6. ThreadsRun'
  BY <1>0, <1>2 DEF ThreadsRun
<1>7. OpenCallsSound'
  <2> SUFFICES ASSUME NEW d \in calls', d.kind = "open"
               PROVE  active[d.reader] /\ birth[d.reader] = d.of /\ thread'[d.reader] = "open"
    BY <1>0 DEF OpenCallsSound
  <2>1. active[d.reader] /\ birth[d.reader] = d.of /\ thread[d.reader] = "open" /\ d.reader \in Pid
    BY <1>0, <1>3, CallTypes DEF OpenCallsSound
  <2> QED BY <1>2, <1>3, <2>1
<1>8. ReadyHasNoCall'
  BY <1>0, <1>2, <1>3 DEF ReadyHasNoCall
<1>9. BlockedHasOne'
  <2> SUFFICES ASSUME ~panic, NEW q \in Pid, thread'[q] \notin {"none", "ready"}
               PROVE  \E d \in calls' : d.kind = thread'[q] /\ d.of = birth[q]
    BY <1>0 DEF BlockedHasOne
  <2>1. q # p /\ thread'[q] = thread[q] /\ birth[q] # c.of
    BY <1>2, <1>4
  <2>2. PICK d \in calls : d.kind = thread[q] /\ d.of = birth[q]
    BY <1>0, <2>1 DEF BlockedHasOne
  <2> QED BY <2>1, <2>2
<1> QED BY <1>2, <1>3, <1>5, <1>6, <1>7, <1>8, <1>9 DEF CallsAndThreads

\* create_nfs keeps the invariant.
LEMMA CreateKeeps ==
  ASSUME Inv, NEW p \in Pid, NEW n \in Name, NEW mode \in Mode, create_nfs(p, n, mode)
  PROVE  Inv'
<1> DEFINE c == [kind |-> "open", reader |-> p, name |-> n, mode |-> mode, of |-> birth[p]]
<1>1. birth[p] \in 1 .. births
  BY Types DEF create_nfs, Runs, Inv, BirthsDistinct
<1>2. c \in OpenCall /\ c.of = birth[p] /\ c.kind = "open" /\ c.reader = p
  BY <1>1 DEF create_nfs, OpenCall
<1>3. /\ UNCHANGED <<active, birth, births, filetable, heap, cache, stray, panic>>
      /\ active[p] /\ thread[p] = "ready"
      /\ calls' = calls \cup {c} /\ thread' = [thread EXCEPT ![p] = c.kind]
  BY DEF create_nfs, process, Runs
<1> HIDE DEF c
<1>4. CallsAndThreads'
  BY <1>2, <1>3, CallStarts DEF process
<1>5. TypeOK'
  BY <1>3, <1>4 DEF CallsAndThreads, Inv, TypeOK
<1>6. IoCallsSound'
  <2> SUFFICES ASSUME NEW d \in calls, d.kind # "open" PROVE IoCallSound(d)'
    BY <1>2, <1>3 DEF IoCallsSound
  <2>1. d.of # birth[p]
    BY <1>3 DEF Inv, ReadyHasNoCall
  <2>2. \A q \in Pid : birth[q] = d.of => thread'[q] = thread[q]
    BY <1>3, <2>1, Types DEF Inv
  <2> QED BY <1>3, <2>2, IoCallKept DEF process
<1>7. DescriptorsSound' /\ TablesOwned' /\ BirthsDistinct' /\ stray' = {}
  BY <1>3 DEF Inv, DescriptorsSound, TablesOwned, BirthsDistinct, Allocated
<1> QED BY <1>4, <1>5, <1>6, <1>7 DEF Inv, CallsAndThreads

\* Starting a read or a write keeps the invariant.
LEMMA StartKeeps ==
  ASSUME Inv, NEW p \in Pid, NEW fd \in Fd, NEW kind \in {"read", "write"}, Runs(p),
         filetable[p][fd] # Null, StartIo(p, fd, kind)
  PROVE  Inv'
<1> DEFINE h == filetable[p][fd]
           c == [kind |-> kind, token |-> h, of |-> birth[p]]
<1>1. birth[p] \in 1 .. births
  BY Types DEF Runs, Inv, BirthsDistinct
<1>2. /\ h \in Handle /\ heap[h] \in file_table_entry /\ heap[h].of = birth[p]
      /\ heap[h].owner = p
  BY Types DEF Runs, Inv, DescriptorsSound, TablesOwned
<1>3. c \in IoCall /\ c.of = birth[p] /\ c.kind = kind /\ c.token = h
  BY <1>1, <1>2 DEF IoCall
<1>4. /\ UNCHANGED <<active, birth, births, filetable, cache, stray, panic>>
      /\ active[p] /\ thread[p] = "ready"
      /\ calls' = calls \cup {c} /\ thread' = [thread EXCEPT ![p] = c.kind]
      /\ heap' = [heap EXCEPT ![h].awaits_callback = TRUE]
      /\ filetable[p][fd] = h /\ h # Null
  BY DEF StartIo, process, Runs
<1> HIDE DEF c, h
<1>5. /\ heap' \in [Handle -> file_table_entry \cup {Free}]
      /\ heap'[h] \in file_table_entry /\ heap'[h].awaits_callback
      /\ heap'[h].of = heap[h].of /\ heap'[h].owner = heap[h].owner
      /\ \A g \in Handle : g # h => heap'[g] = heap[g]
  <2>1. heap \in [Handle -> file_table_entry \cup {Free}]
    BY Types DEF Inv
  <2>2. heap' = [heap EXCEPT ![h] = [heap[h] EXCEPT !.awaits_callback = TRUE]]
    BY <1>4
  <2> DEFINE e == [heap[h] EXCEPT !.awaits_callback = TRUE]
  <2>3. /\ e \in file_table_entry /\ e.awaits_callback
        /\ e.of = heap[h].of /\ e.owner = heap[h].owner
    BY <1>2 DEF file_table_entry
  <2> HIDE DEF e
  <2>4. heap' = [heap EXCEPT ![h] = e]
    BY <2>2 DEF e
  <2> QED BY <1>2, <2>1, <2>3, <2>4
<1>6. CallsAndThreads'
  BY <1>3, <1>4, CallStarts DEF process
<1>7. TypeOK'
  BY <1>4, <1>5, <1>6 DEF CallsAndThreads, Inv, TypeOK
<1>8. IoCallsSound'
  <2> SUFFICES ASSUME NEW d \in calls', d.kind # "open" PROVE IoCallSound(d)'
    BY DEF IoCallsSound
  <2>1. CASE d = c
    <3>1. thread'[p] = kind
      BY <1>3, <1>4, Types DEF Inv
    <3>2. CallerWaits(d)'
      BY <1>2, <1>3, <1>4, <1>5, <2>1, <3>1 DEF CallerWaits
    <3>3. /\ heap'[d.token] # Free /\ heap'[d.token].of = d.of
          /\ heap'[d.token].awaits_callback
      BY <1>2, <1>3, <1>5, <2>1, EntryIsNotFree
    <3> QED BY <3>2, <3>3, Zenon DEF IoCallSound, Allocated
  <2>2. CASE d \in calls
    <3>1. d.of # birth[p]
      BY <1>4, <2>2 DEF Inv, ReadyHasNoCall
    <3>2. \A q \in Pid : birth[q] = d.of => thread'[q] = thread[q]
      BY <1>4, <3>1, Types DEF Inv
    <3>3. d.token \in Handle /\ d.token # h
      BY <1>2, <2>2, <3>1, CallTypes DEF Inv, IoCallsSound, IoCallSound
    <3>4. heap'[d.token] = heap[d.token]
      BY <1>5, <3>3
    <3> QED BY <1>4, <2>2, <3>2, <3>4, IoCallKept DEF process
  <2> QED BY <1>4, <2>1, <2>2
<1>9. DescriptorsSound' /\ TablesOwned'
  <2> SUFFICES ASSUME NEW q \in Pid, NEW f \in Fd, active[q], filetable[q][f] # Null
               PROVE  /\ heap'[filetable[q][f]] # Free
                      /\ heap'[filetable[q][f]].of = birth[q]
                      /\ heap'[filetable[q][f]].owner = q
                      /\ \A other \in Fd : filetable[q][other] = filetable[q][f] => other = f
    BY <1>4 DEF DescriptorsSound, TablesOwned, Allocated
  <2>1. /\ filetable[q][f] \in Handle /\ heap[filetable[q][f]] # Free
        /\ heap[filetable[q][f]].of = birth[q]
        /\ heap[filetable[q][f]].owner = q
        /\ \A other \in Fd : filetable[q][other] = filetable[q][f] => other = f
    BY Types DEF Inv, DescriptorsSound, TablesOwned, Allocated
  <2>2. CASE filetable[q][f] = h
    BY <1>5, <2>1, <2>2, EntryIsNotFree
  <2>3. CASE filetable[q][f] # h
    BY <1>5, <2>1, <2>3
  <2> QED BY <2>2, <2>3
<1>10. BirthsDistinct' /\ stray' = {}
  BY <1>4 DEF Inv, BirthsDistinct
<1> QED BY <1>6, <1>7, <1>8, <1>9, <1>10 DEF Inv, CallsAndThreads

\* The caller of a creation is still there when NFS answers, and gets the answer,
\* whether or not a descriptor comes with it.
LEMMA CreateAnswered ==
  ASSUME Inv, NEW c \in calls, c.kind = "open", calls' = calls \ {c},
         UNCHANGED <<process, panic>>,
         thread' = Replied(c.reader), stray' = StrayWith(c.reader, "open", c.of),
         \/ open_nfs(c.name, c.reader, c.mode)
         \/ UNCHANGED <<heap, filetable>>,
         cache' \in Seq(Name \cup {Console}) /\ Len(cache') <= DIR_CACHE_SIZE
  PROVE  Inv'
<1> DEFINE p == c.reader
<1>1. /\ p \in Pid /\ active[p] /\ birth[p] = c.of /\ thread[p] = "open"
      /\ c.name \in Name /\ c.mode \in Mode
  BY CallTypes DEF Inv, OpenCallsSound
<1>2. thread' = [thread EXCEPT ![p] = "ready"] /\ stray' = {}
  BY <1>1 DEF Replied, StrayWith, Inv
<1>3. CallsAndThreads' /\ \A d \in calls' : d.of # c.of
  BY <1>1, <1>2, CallEnds
<1>4. /\ heap' \in [Handle -> file_table_entry \cup {Free}]
      /\ filetable' \in [Pid -> [Fd -> Handle \cup {Null}]]
      /\ \A h \in Handle : Allocated(h) => heap'[h] = heap[h]
      /\ \A q \in Pid, fd \in Fd : filetable[q][fd] # Null => filetable'[q][fd] = filetable[q][fd]
      /\ DescriptorsSound' /\ TablesOwned'
  <2>1. CASE open_nfs(c.name, p, c.mode)
    BY <1>1, <2>1, NewDescriptor
  <2>2. CASE UNCHANGED <<heap, filetable>>
    BY <2>2, Types DEF Inv, DescriptorsSound, TablesOwned, Allocated, process
  <2> QED BY <2>1, <2>2
<1>5. TypeOK'
  BY <1>2, <1>3, <1>4 DEF CallsAndThreads, Inv, TypeOK, process
<1>6. IoCallsSound'
  <2> SUFFICES ASSUME NEW d \in calls, d.of # c.of, d.kind # "open" PROVE IoCallSound(d)'
    BY <1>3 DEF IoCallsSound
  <2>1. d.token \in Handle /\ Allocated(d.token)
    BY CallTypes DEF Inv, IoCallsSound, IoCallSound
  <2>2. heap'[d.token] = heap[d.token] /\ d.token # Null
    BY <1>4, <2>1, TypeConstants
  <2>3. \A q \in Pid : birth[q] = d.of => thread'[q] = thread[q]
    BY <1>1, <1>2, Types DEF Inv
  <2> QED BY <1>4, <2>2, <2>3, IoCallKept
<1>7. BirthsDistinct'
  BY DEF Inv, BirthsDistinct, process
<1> QED BY <1>2, <1>3, <1>4, <1>5, <1>6, <1>7 DEF Inv, CallsAndThreads

\* The cache is full: the server stops.
LEMMA PanicKeeps ==
  ASSUME Inv, NEW c \in calls, calls' = calls \ {c}, panic' = TRUE,
         UNCHANGED <<process, filetable, heap, cache, thread, stray>>
  PROVE  Inv'
<1>1. UNCHANGED <<active, birth, births, filetable, heap, cache, thread, stray>>
  BY DEF process
<1>2. TypeOK' /\ BirthsDistinct' /\ ThreadsRun' /\ stray' = {}
  BY <1>1 DEF Inv, TypeOK, BirthsDistinct, ThreadsRun
<1>3. DescriptorsSound' /\ TablesOwned'
  BY <1>1 DEF Inv, DescriptorsSound, TablesOwned, Allocated
<1>4. CallsTyped' /\ OneCallEach' /\ OpenCallsSound' /\ ReadyHasNoCall'
  BY <1>1 DEF Inv, CallsTyped, IoCall, OpenCall, OneCallEach, OpenCallsSound, ReadyHasNoCall
<1>5. IoCallsSound'
  BY <1>1 DEF Inv, IoCallsSound, IoCallSound, CallerWaits, CallerGone, Allocated
<1>6. BlockedHasOne'
  BY DEF BlockedHasOne
<1> QED BY <1>2, <1>3, <1>4, <1>5, <1>6 DEF Inv

\* The answer to a create keeps the invariant.
LEMMA CreateEndsKeeps ==
  ASSUME Inv, NEW c \in calls, nfs_create_callback(c) \/ CreateFails(c)
  PROVE  Inv'
<1>0. c.kind = "open" /\ calls' = calls \ {c} /\ UNCHANGED process
  BY DEF nfs_create_callback, CreateFails
<1>1. ReaderThere(c)
  BY <1>0, CallTypes DEF ReaderThere, Inv, OpenCallsSound
<1>2. cache \in Seq(Name \cup {Console}) /\ Len(cache) <= DIR_CACHE_SIZE
  BY DEF Inv, TypeOK
<1>3. CASE CreateFails(c)
  BY <1>0, <1>1, <1>2, <1>3, CreateAnswered DEF CreateFails
<1>4. CASE nfs_create_callback(c) /\ Len(cache) >= DIR_CACHE_SIZE
  BY <1>0, <1>4, PanicKeeps DEF nfs_create_callback
<1>5. CASE nfs_create_callback(c) /\ ~(Len(cache) >= DIR_CACHE_SIZE)
  <2>1. cache' = Append(cache, c.name) /\ c.name \in Name
    BY <1>0, <1>5, CallTypes DEF nfs_create_callback
  <2>2. cache' \in Seq(Name \cup {Console}) /\ Len(cache') = Len(cache) + 1
    BY <1>2, <2>1
  <2>3. Len(cache') <= DIR_CACHE_SIZE
    <3>1. Len(cache) \in Nat
      BY <1>2
    <3> QED BY <1>5, <2>2, <3>1, TypeConstants
  <2> QED BY <1>0, <1>1, <1>5, <2>2, <2>3, CreateAnswered DEF nfs_create_callback
<1> QED BY <1>3, <1>4, <1>5

\* The answer to a read or a write keeps the invariant, though its process may
\* have gone.
LEMMA IoCallbackKeeps ==
  ASSUME Inv, NEW c \in calls, c.kind # "open", IoCallback(c)
  PROVE  Inv'
<1> DEFINE h == c.token
           p == heap[h].owner
<1>0. /\ calls' = calls \ {c}
      /\ UNCHANGED <<active, birth, births, filetable, cache, panic, process>>
  BY DEF IoCallback, process
<1>1. /\ h \in Handle /\ heap[h] \in file_table_entry /\ p \in Pid
      /\ heap[h].of = c.of /\ IoCallSound(c)
  BY CallTypes DEF Inv, IoCallsSound, IoCallSound
<1>2. BirthsDistinct'
  BY <1>0 DEF Inv, BirthsDistinct
<1>3. CASE Killed(h)
  <2>1. /\ ~heap[h].awaits_callback /\ UNCHANGED <<thread, stray>>
        /\ heap' = [heap EXCEPT ![h] = Free]
    BY <1>3 DEF IoCallback, Killed
  <2>2. CallerGone(c)
    BY <1>1, <2>1 DEF IoCallSound
  <2>3. /\ heap' \in [Handle -> file_table_entry \cup {Free}]
        /\ \A g \in Handle : g # h => heap'[g] = heap[g]
    BY <2>1, Types DEF Inv
  <2>4. TypeOK' /\ ThreadsRun' /\ stray' = {}
    BY <1>0, <2>1, <2>3 DEF Inv, TypeOK, ThreadsRun
  <2>5. \A q \in Pid, fd \in Fd : active[q] => filetable[q][fd] # h
    <3> SUFFICES ASSUME NEW q \in Pid, NEW fd \in Fd, active[q], filetable[q][fd] = h PROVE FALSE
      OBVIOUS
    <3>1. filetable[q][fd] # Null
      BY <1>1, TypeConstants
    <3>2. heap[filetable[q][fd]].of = birth[q]
      BY <3>1 DEF Inv, DescriptorsSound
    <3> QED BY <1>1, <2>2, <3>2 DEF CallerGone
  <2>6. DescriptorsSound' /\ TablesOwned'
    <3> SUFFICES ASSUME NEW q \in Pid, NEW fd \in Fd, active[q], filetable[q][fd] # Null
                 PROVE  /\ heap'[filetable[q][fd]] = heap[filetable[q][fd]]
      BY <1>0 DEF Inv, DescriptorsSound, TablesOwned, Allocated
    <3>1. filetable[q][fd] \in Handle
      BY Types DEF Inv
    <3> QED BY <2>3, <2>5, <3>1
  <2>7. CallsTyped' /\ OneCallEach' /\ OpenCallsSound' /\ ReadyHasNoCall'
    BY <1>0, <2>1 DEF Inv, CallsTyped, IoCall, OpenCall, OneCallEach, OpenCallsSound, ReadyHasNoCall
  <2>8. BlockedHasOne'
    <3> SUFFICES ASSUME ~panic, NEW q \in Pid, thread[q] \notin {"none", "ready"}
                 PROVE  \E d \in calls' : d.kind = thread[q] /\ d.of = birth[q]
      BY <1>0, <2>1 DEF BlockedHasOne
    <3>1. active[q]
      BY DEF Inv, ThreadsRun
    <3>2. PICK d \in calls : d.kind = thread[q] /\ d.of = birth[q]
      BY DEF Inv, BlockedHasOne
    <3>3. d # c
      BY <2>2, <3>1, <3>2 DEF CallerGone
    <3> QED BY <1>0, <3>2, <3>3
  <2>9. IoCallsSound'
    <3> SUFFICES ASSUME NEW d \in calls', d.kind # "open" PROVE IoCallSound(d)'
      BY DEF IoCallsSound
    <3>1. d \in calls /\ d # c
      BY <1>0
    <3>2. d.token \in Handle /\ d.token # h
      BY <1>1, <3>1, CallTypes DEF Inv, IoCallsSound, IoCallSound, OneCallEach
    <3> QED BY <1>0, <2>1, <2>3, <3>1, <3>2, IoCallKept
  <2> QED BY <1>2, <2>4, <2>6, <2>7, <2>8, <2>9 DEF Inv
<1>4. CASE ~Killed(h)
  <2>1. active[p] /\ birth[p] = c.of /\ thread[p] = c.kind
    BY <1>1, <1>4 DEF IoCallSound, Killed, CallerWaits
  <2>2. c.kind # "none"
    BY CallTypes
  <2>3. /\ thread' = [thread EXCEPT ![p] = "ready"] /\ stray' = {} /\ heap' = heap
    BY <1>4, <2>1, <2>2 DEF IoCallback, Replied, StrayWith, Inv
  <2>4. CallsAndThreads' /\ \A d \in calls' : d.of # c.of
    BY <1>0, <1>1, <2>1, <2>3, CallEnds
  <2>5. TypeOK'
    BY <1>0, <2>3, <2>4 DEF CallsAndThreads, Inv, TypeOK
  <2>6. IoCallsSound'
    <3> SUFFICES ASSUME NEW d \in calls, d.of # c.of, d.kind # "open" PROVE IoCallSound(d)'
      BY <1>0, <2>4 DEF IoCallsSound
    <3>1. \A q \in Pid : birth[q] = d.of => thread'[q] = thread[q]
      BY <1>1, <2>1, <2>3, Types DEF Inv
    <3> QED BY <1>0, <2>3, <3>1, IoCallKept
  <2>7. DescriptorsSound' /\ TablesOwned'
    BY <1>0, <2>3 DEF Inv, DescriptorsSound, TablesOwned, Allocated
  <2> QED BY <1>2, <2>3, <2>4, <2>5, <2>6, <2>7 DEF Inv, CallsAndThreads
<1> QED BY <1>3, <1>4

\* A handle that a running process closes is no call's token: the process runs.
LEMMA CloseKeeps ==
  ASSUME Inv, NEW p \in Pid, NEW fd \in Fd, close_file(p, fd)
  PROVE  Inv'
<1> DEFINE h == filetable[p][fd]
<1>0. /\ UNCHANGED <<active, birth, births, cache, calls, thread, stray, panic, process>>
      /\ active[p] /\ thread[p] = "ready" /\ h # Null
      /\ heap' = [heap EXCEPT ![h] = Free]
      /\ filetable' = [filetable EXCEPT ![p][fd] = Null]
  BY DEF close_file, process, Runs
<1>1. h \in Handle /\ heap[h].of = birth[p]
  BY <1>0, Types DEF Inv, DescriptorsSound
<1>2. /\ heap' \in [Handle -> file_table_entry \cup {Free}]
      /\ \A g \in Handle : g # h => heap'[g] = heap[g]
  BY <1>0, Types DEF Inv
<1>3. /\ filetable' \in [Pid -> [Fd -> Handle \cup {Null}]]
      /\ filetable'[p][fd] = Null
      /\ \A q \in Pid, f \in Fd : <<q, f>> # <<p, fd>> => filetable'[q][f] = filetable[q][f]
  BY <1>0, Types DEF Inv
<1>4. ASSUME NEW q \in Pid, NEW f \in Fd, active[q], filetable[q][f] = h
      PROVE  q = p /\ f = fd
  <2>1. heap[h].of = birth[q]
    BY <1>0, <1>4 DEF Inv, DescriptorsSound
  <2>2. q = p
    BY <1>0, <1>1, <1>4, <2>1 DEF Inv, BirthsDistinct
  <2> QED BY <1>0, <1>4, <2>2 DEF Inv, DescriptorsSound
<1>5. DescriptorsSound' /\ TablesOwned'
  <2> SUFFICES ASSUME NEW q \in Pid, NEW f \in Fd, active[q], filetable'[q][f] # Null
               PROVE  /\ heap'[filetable'[q][f]] # Free
                      /\ heap'[filetable'[q][f]].of = birth[q]
                      /\ heap'[filetable'[q][f]].owner = q
                      /\ \A other \in Fd : filetable'[q][other] = filetable'[q][f] => other = f
    BY <1>0 DEF DescriptorsSound, TablesOwned, Allocated
  <2>1. <<q, f>> # <<p, fd>> /\ filetable'[q][f] = filetable[q][f]
    BY <1>3
  <2>2. filetable[q][f] \in Handle /\ filetable[q][f] # h
    BY <1>4, <2>1, Types DEF Inv
  <2>3. heap'[filetable[q][f]] = heap[filetable[q][f]]
    BY <1>2, <2>2
  <2>4. \A other \in Fd : filetable'[q][other] = filetable[q][f] => filetable[q][other] = filetable[q][f]
    BY <1>3, <2>2, TypeConstants
  <2> QED BY <2>1, <2>3, <2>4 DEF Inv, DescriptorsSound, TablesOwned, Allocated
<1>6. IoCallsSound'
  <2> SUFFICES ASSUME NEW d \in calls, d.kind # "open" PROVE IoCallSound(d)'
    BY <1>0 DEF IoCallsSound
  <2>1. d.of # birth[p]
    BY <1>0 DEF Inv, ReadyHasNoCall
  <2>2. d.token \in Handle /\ d.token # h
    BY <1>1, <2>1, CallTypes DEF Inv, IoCallsSound, IoCallSound
  <2>3. heap'[d.token] = heap[d.token]
    BY <1>2, <2>2
  <2>4. \A q \in Pid, f \in Fd : filetable[q][f] = d.token => filetable'[q][f] = d.token
    BY <1>3, <2>2
  <2> QED BY <1>0, <2>3, <2>4, IoCallKept
<1>7. TypeOK' /\ BirthsDistinct' /\ ThreadsRun' /\ stray' = {}
  BY <1>0, <1>2, <1>3 DEF Inv, TypeOK, BirthsDistinct, ThreadsRun
<1>8. CallsTyped' /\ OneCallEach' /\ OpenCallsSound' /\ ReadyHasNoCall' /\ BlockedHasOne'
  BY <1>0 DEF Inv, CallsTyped, IoCall, OpenCall, OneCallEach, OpenCallsSound, ReadyHasNoCall, BlockedHasOne
<1> QED BY <1>5, <1>6, <1>7, <1>8 DEF Inv

\* A new process, in a slot that may have been used: no call is for its number.
LEMMA RegisterKeeps ==
  ASSUME Inv, NEW p \in Pid, register_process(p)
  PROVE  Inv'
<1>0. /\ UNCHANGED <<cache, calls, stray, panic>> /\ ~active[p]
      /\ births' = births + 1 /\ birth' = [birth EXCEPT ![p] = births + 1]
      /\ active' = [active EXCEPT ![p] = TRUE] /\ thread' = [thread EXCEPT ![p] = "ready"]
  BY DEF register_process
<1>1. PICK h \in Handle, junk \in BOOLEAN :
        /\ FreshHandle(h)
        /\ heap' = [heap EXCEPT ![h] = [file |-> Console, owner |-> p, mode |-> {"w"},
                                        awaits_callback |-> junk, of |-> births + 1]]
        /\ filetable' = [filetable EXCEPT ![p] = [fd \in Fd |-> IF fd = 0 THEN h ELSE Null]]
  BY DEF register_process
<1> DEFINE e == [file |-> Console, owner |-> p, mode |-> {"w"}, awaits_callback |-> junk,
                 of |-> births + 1]
<1>2. births \in Nat /\ births + 1 \in Nat /\ births + 1 # 0
  BY Types DEF Inv
<1>3. e \in file_table_entry /\ e.owner = p /\ e.of = births + 1
  BY <1>2 DEF file_table_entry
<1>4. heap' = [heap EXCEPT ![h] = e] /\ ~Allocated(h)
  BY <1>1 DEF FreshHandle
<1> HIDE DEF e
<1>5. /\ heap' \in [Handle -> file_table_entry \cup {Free}] /\ heap'[h] = e
      /\ \A g \in Handle : g # h => heap'[g] = heap[g]
  BY <1>3, <1>4, Types DEF Inv
<1>6. /\ filetable' \in [Pid -> [Fd -> Handle \cup {Null}]]
      /\ filetable'[p] = [fd \in Fd |-> IF fd = 0 THEN h ELSE Null]
      /\ \A q \in Pid : q # p => filetable'[q] = filetable[q]
  <2> DEFINE t == [fd \in Fd |-> IF fd = 0 THEN h ELSE Null]
  <2>1. t \in [Fd -> Handle \cup {Null}]
    OBVIOUS
  <2>2. filetable' = [filetable EXCEPT ![p] = t]
    BY <1>1
  <2> HIDE DEF t
  <2>3. /\ filetable' \in [Pid -> [Fd -> Handle \cup {Null}]] /\ filetable'[p] = t
        /\ \A q \in Pid : q # p => filetable'[q] = filetable[q]
    BY <2>1, <2>2, Types DEF Inv
  <2> QED BY <2>3 DEF t
<1>7. /\ active' \in [Pid -> BOOLEAN] /\ active'[p]
      /\ thread' \in [Pid -> {"none", "ready", "read", "write", "open"}] /\ thread'[p] = "ready"
      /\ \A q \in Pid : q # p => active'[q] = active[q] /\ thread'[q] = thread[q]
  BY <1>0, Types DEF Inv
<1>8. /\ birth'[p] = births + 1 /\ \A q \in Pid : q # p => birth'[q] = birth[q]
      /\ birth' \in [Pid -> 0 .. births'] /\ births' \in Nat
      /\ \A q \in Pid : birth[q] # births + 1
  BY <1>0, <1>2, Types DEF Inv
<1>9. \A c \in calls : c.of # births + 1
  BY CallTypes
<1>10. TypeOK'
  BY <1>0, <1>5, <1>6, <1>7, <1>8 DEF Inv, TypeOK
<1>11. BirthsDistinct' /\ ThreadsRun'
  BY <1>2, <1>7, <1>8 DEF Inv, BirthsDistinct, ThreadsRun
<1>12. CallsTyped' /\ OneCallEach'
  <2>1. \A i \in 1 .. births : i \in 1 .. births'
    BY <1>0, <1>2
  <2>2. IoCall \subseteq IoCall' /\ OpenCall \subseteq OpenCall'
    BY <2>1 DEF IoCall, OpenCall
  <2> QED BY <1>0, <2>2 DEF Inv, CallsTyped, OneCallEach
<1>13. DescriptorsSound' /\ TablesOwned'
  <2> SUFFICES ASSUME NEW q \in Pid, NEW f \in Fd, active'[q], filetable'[q][f] # Null
               PROVE  /\ heap'[filetable'[q][f]] # Free
                      /\ heap'[filetable'[q][f]].of = birth'[q]
                      /\ heap'[filetable'[q][f]].owner = q
                      /\ \A other \in Fd : filetable'[q][other] = filetable'[q][f] => other = f
    BY DEF DescriptorsSound, TablesOwned, Allocated
  <2>1. CASE q = p
    <3>1. f = 0 /\ filetable'[q][f] = h /\ \A other \in Fd : filetable'[q][other] = h => other = 0
      BY <1>6, <2>1, TypeConstants
    <3> QED BY <1>3, <1>5, <1>8, <2>1, <3>1, EntryIsNotFree
  <2>2. CASE q # p
    <3>1. /\ filetable'[q] = filetable[q] /\ active[q] /\ birth'[q] = birth[q]
          /\ filetable[q][f] \in Handle
      BY <1>6, <1>7, <1>8, <2>2, Types DEF Inv
    <3>2. /\ Allocated(filetable[q][f]) /\ heap[filetable[q][f]].of = birth[q]
          /\ heap[filetable[q][f]].owner = q
          /\ \A other \in Fd : filetable[q][other] = filetable[q][f] => other = f
      BY <3>1 DEF Inv, DescriptorsSound, TablesOwned
    <3>3. heap'[filetable[q][f]] = heap[filetable[q][f]]
      BY <1>4, <1>5, <3>1, <3>2
    <3> QED BY <3>1, <3>2, <3>3 DEF Allocated
  <2> QED BY <2>1, <2>2
<1>14. IoCallsSound'
  <2> SUFFICES ASSUME NEW c \in calls, c.kind # "open" PROVE IoCallSound(c)'
    BY <1>0 DEF IoCallsSound
  <2>1. IoCallSound(c) /\ c.token \in Handle /\ heap[c.token].owner \in Pid
    BY CallTypes DEF Inv, IoCallsSound
  <2>2. heap'[c.token] = heap[c.token]
    BY <1>4, <1>5, <2>1 DEF IoCallSound
  <2>3. CASE heap[c.token].awaits_callback
    <3>1. CallerWaits(c)
      BY <2>1, <2>3 DEF IoCallSound
    <3>2. heap[c.token].owner # p
      BY <1>0, <3>1 DEF CallerWaits
    <3>3. CallerWaits(c)'
      BY <1>6, <1>7, <1>8, <2>1, <2>2, <3>1, <3>2 DEF CallerWaits
    <3> QED BY <2>1, <2>2, <2>3, <3>3 DEF IoCallSound, Allocated
  <2>4. CASE ~heap[c.token].awaits_callback
    <3>1. CallerGone(c)
      BY <2>1, <2>4 DEF IoCallSound
    <3>2. CallerGone(c)'
      BY <1>7, <1>8, <1>9, <3>1 DEF CallerGone
    <3> QED BY <2>1, <2>2, <2>4, <3>2 DEF IoCallSound, Allocated
  <2> QED BY <2>3, <2>4
<1>15. OpenCallsSound'
  <2> SUFFICES ASSUME NEW c \in calls, c.kind = "open"
               PROVE  active'[c.reader] /\ birth'[c.reader] = c.of /\ thread'[c.reader] = "open"
    BY <1>0 DEF OpenCallsSound
  <2>1. active[c.reader] /\ birth[c.reader] = c.of /\ thread[c.reader] = "open" /\ c.reader \in Pid
    BY CallTypes DEF Inv, OpenCallsSound
  <2> QED BY <1>0, <1>7, <1>8, <2>1
<1>16. ReadyHasNoCall' /\ BlockedHasOne'
  BY <1>0, <1>7, <1>8, <1>9 DEF Inv, ReadyHasNoCall, BlockedHasOne
<1> QED BY <1>0, <1>10, <1>11, <1>12, <1>13, <1>14, <1>15, <1>16 DEF Inv

\* A process is deleted, in the middle of a call or not: its handle is freed only
\* if no callback will come for it, and nobody else has that handle.
LEMMA DeleteKeeps ==
  ASSUME Inv, Creator \cap Mortal = {}, NEW p \in Pid, delete_process(p)
  PROVE  Inv'
<1> DEFINE Has(h) == \E fd \in Fd : filetable[p][fd] = h
           Mark(h) == [heap[h] EXCEPT !.awaits_callback = FALSE]
           t == [fd \in Fd |-> IF filetable[p][fd] # Null /\ heap[filetable[p][fd]].awaits_callback
                               THEN filetable[p][fd] ELSE Null]
<1>0. /\ UNCHANGED <<birth, births, cache, calls, stray, panic>> /\ p \in Mortal /\ active[p]
      /\ heap' = HeapAfterDelete(p) /\ filetable' = [filetable EXCEPT ![p] = t]
      /\ active' = [active EXCEPT ![p] = FALSE] /\ thread' = [thread EXCEPT ![p] = "none"]
  BY DEF delete_process
<1>1. t \in [Fd -> Handle \cup {Null}]
  BY Types DEF Inv
<1> HIDE DEF t
<1>2. /\ filetable' \in [Pid -> [Fd -> Handle \cup {Null}]]
      /\ \A q \in Pid : q # p => filetable'[q] = filetable[q]
  BY <1>0, <1>1, Types DEF Inv
<1>3. /\ active' \in [Pid -> BOOLEAN] /\ ~active'[p]
      /\ thread' \in [Pid -> {"none", "ready", "read", "write", "open"}] /\ thread'[p] = "none"
      /\ \A q \in Pid : q # p => active'[q] = active[q] /\ thread'[q] = thread[q]
  BY <1>0, Types DEF Inv
<1>4. \A h \in Handle : heap'[h] = IF Has(h) THEN IF heap[h].awaits_callback THEN Mark(h) ELSE Free
                                   ELSE heap[h]
  BY <1>0 DEF HeapAfterDelete
<1>5. ASSUME NEW h \in Handle, Has(h)
      PROVE  /\ heap[h] \in file_table_entry /\ heap[h].of = birth[p] /\ birth[p] # 0
             /\ Mark(h) \in file_table_entry /\ Mark(h).of = heap[h].of /\ ~Mark(h).awaits_callback
  <2>1. PICK fd \in Fd : filetable[p][fd] = h
    BY <1>5
  <2>2. h # Null
    BY TypeConstants
  <2>3. heap[h] \in file_table_entry /\ heap[h].of = birth[p] /\ birth[p] # 0
    BY <1>0, <2>1, <2>2, Types DEF Inv, DescriptorsSound, BirthsDistinct
  <2>4. Mark(h) \in file_table_entry /\ Mark(h).of = heap[h].of /\ ~Mark(h).awaits_callback
    BY <2>3 DEF file_table_entry
  <2> QED BY <2>3, <2>4
<1>6. heap' \in [Handle -> file_table_entry \cup {Free}]
  <2>1. heap' = [h \in Handle |-> heap'[h]]
    BY <1>0 DEF HeapAfterDelete
  <2>2. ASSUME NEW h \in Handle PROVE heap'[h] \in file_table_entry \cup {Free}
    <3>1. CASE Has(h)
      BY <1>4, <1>5, <3>1
    <3>2. CASE ~Has(h)
      BY <1>4, <3>2, Types DEF Inv
    <3> QED BY <3>1, <3>2
  <2> QED BY <2>1, <2>2
<1> HIDE DEF Mark
<1>7. ASSUME NEW q \in Pid, NEW fd \in Fd, active[q], q # p, filetable[q][fd] \in Handle
      PROVE  ~Has(filetable[q][fd])
  <2>1. filetable[q][fd] # Null
    BY <1>7, TypeConstants
  <2>2. heap[filetable[q][fd]].of = birth[q]
    BY <1>7, <2>1 DEF Inv, DescriptorsSound
  <2> QED BY <1>5, <1>7, <2>2 DEF Inv, BirthsDistinct
<1>8. TypeOK'
  BY <1>0, <1>2, <1>3, <1>6 DEF Inv, TypeOK
<1>9. BirthsDistinct' /\ ThreadsRun'
  BY <1>0, <1>3 DEF Inv, BirthsDistinct, ThreadsRun
<1>10. CallsTyped' /\ OneCallEach'
  BY <1>0 DEF Inv, CallsTyped, IoCall, OpenCall, OneCallEach
<1>11. DescriptorsSound' /\ TablesOwned'
  <2> SUFFICES ASSUME NEW q \in Pid, NEW f \in Fd, active'[q], filetable'[q][f] # Null
               PROVE  /\ heap'[filetable'[q][f]] # Free
                      /\ heap'[filetable'[q][f]].of = birth'[q]
                      /\ heap'[filetable'[q][f]].owner = q
                      /\ \A other \in Fd : filetable'[q][other] = filetable'[q][f] => other = f
    BY DEF DescriptorsSound, TablesOwned, Allocated
  <2>1. /\ q # p /\ filetable'[q] = filetable[q] /\ active[q] /\ birth'[q] = birth[q]
        /\ filetable[q][f] \in Handle
    BY <1>0, <1>2, <1>3, Types DEF Inv
  <2>2. heap'[filetable[q][f]] = heap[filetable[q][f]]
    BY <1>4, <1>7, <2>1
  <2> QED BY <2>1, <2>2 DEF Inv, DescriptorsSound, TablesOwned, Allocated
<1>12. IoCallsSound'
  <2> SUFFICES ASSUME NEW c \in calls, c.kind # "open" PROVE IoCallSound(c)'
    BY <1>0 DEF IoCallsSound
  <2> DEFINE h == c.token
  <2>1. /\ IoCallSound(c) /\ h \in Handle /\ heap[h].owner \in Pid /\ heap[h] # Free /\ c.of # 0
        /\ heap[h].of = c.of
    BY CallTypes DEF Inv, IoCallsSound, IoCallSound, Allocated
  <2>2. CASE c.of = birth[p]
    <3>1. ~CallerGone(c)
      BY <1>0, <2>2 DEF CallerGone
    <3>2. heap[h].awaits_callback /\ CallerWaits(c)
      BY <2>1, <3>1 DEF IoCallSound
    <3>3. Has(h)
      BY <2>1, <2>2, <3>2 DEF CallerWaits, Inv, BirthsDistinct
    <3>4. heap'[h] = Mark(h)
      BY <1>4, <2>1, <3>2, <3>3
    <3>5. heap'[h] # Free /\ heap'[h].of = c.of /\ ~heap'[h].awaits_callback
      BY <1>5, <2>1, <3>3, <3>4, EntryIsNotFree
    <3>6. CallerGone(c)'
      BY <1>0, <1>3, <2>1, <2>2 DEF CallerGone, Inv, BirthsDistinct
    <3> QED BY <3>5, <3>6, Zenon DEF IoCallSound, Allocated
  <2>3. CASE c.of # birth[p]
    <3>1. ~Has(h)
      BY <1>5, <2>1, <2>3
    <3>2. heap'[h] = heap[h]
      BY <1>4, <2>1, <3>1
    <3>3. CASE heap[h].awaits_callback
      <4>1. CallerWaits(c)
        BY <2>1, <3>3 DEF IoCallSound
      <4>2. heap[h].owner # p
        BY <2>3, <4>1 DEF CallerWaits
      <4>3. CallerWaits(c)'
        BY <1>0, <1>2, <1>3, <2>1, <3>2, <4>1, <4>2 DEF CallerWaits
      <4> QED BY <2>1, <3>2, <3>3, <4>3 DEF IoCallSound, Allocated
    <3>4. CASE ~heap[h].awaits_callback
      <4>1. CallerGone(c)
        BY <2>1, <3>4 DEF IoCallSound
      <4>2. CallerGone(c)'
        BY <1>0, <1>3, <4>1 DEF CallerGone
      <4> QED BY <2>1, <3>2, <3>4, <4>2 DEF IoCallSound, Allocated
    <3> QED BY <3>3, <3>4
  <2> QED BY <2>2, <2>3
<1>13. OpenCallsSound'
  <2> SUFFICES ASSUME NEW c \in calls, c.kind = "open"
               PROVE  active'[c.reader] /\ birth'[c.reader] = c.of /\ thread'[c.reader] = "open"
    BY <1>0 DEF OpenCallsSound
  <2>1. /\ active[c.reader] /\ birth[c.reader] = c.of /\ thread[c.reader] = "open"
        /\ c.reader \in Pid /\ c.reader \in Creator
    BY CallTypes DEF Inv, OpenCallsSound
  <2>2. c.reader # p
    BY <1>0, <2>1
  <2> QED BY <1>0, <1>3, <2>1, <2>2
<1>14. ReadyHasNoCall' /\ BlockedHasOne'
  BY <1>0, <1>3 DEF Inv, ReadyHasNoCall, BlockedHasOne
<1> QED BY <1>0, <1>8, <1>9, <1>10, <1>11, <1>12, <1>13, <1>14 DEF Inv

\* Every action keeps the invariant.
LEMMA InvNext ==
  ASSUME Creator \cap Mortal = {}, Inv, [Next]_vars
  PROVE  Inv'
<1>1. CASE UNCHANGED vars
  <2>1. UNCHANGED <<active, filetable, heap, cache, calls, thread, birth, births, stray, panic>>
    BY <1>1 DEF vars
  <2>2. TypeOK' /\ CallsTyped' /\ BirthsDistinct' /\ ThreadsRun'
    BY <2>1 DEF Inv, TypeOK, CallsTyped, IoCall, OpenCall, BirthsDistinct, ThreadsRun
  <2>3. DescriptorsSound' /\ TablesOwned'
    BY <2>1 DEF Inv, DescriptorsSound, TablesOwned, Allocated
  <2>4. OneCallEach' /\ OpenCallsSound' /\ ReadyHasNoCall' /\ BlockedHasOne'
    BY <2>1 DEF Inv, OneCallEach, OpenCallsSound, ReadyHasNoCall, BlockedHasOne
  <2>5. IoCallsSound'
    BY <2>1 DEF Inv, IoCallsSound, IoCallSound, CallerWaits, CallerGone, Allocated
  <2> QED BY <2>1, <2>2, <2>3, <2>4, <2>5 DEF Inv
<1>2. ASSUME NEW c \in calls, Answer(c) PROVE Inv'
  <2>1. CASE nfs_read_callback(c) \/ nfs_write_callback(c)
    BY <2>1, IoCallbackKeeps DEF nfs_read_callback, nfs_write_callback
  <2>2. CASE nfs_create_callback(c) \/ CreateFails(c)
    BY <2>2, CreateEndsKeeps
  <2> QED BY <1>2, <2>1, <2>2 DEF Answer
<1>3. ASSUME NEW p \in Pid, register_process(p) \/ delete_process(p) PROVE Inv'
  BY <1>3, RegisterKeeps, DeleteKeeps
<1>4. ASSUME NEW p \in Pid, NEW n \in Name, NEW mode \in Mode,
             open_file(p, n, mode) \/ create_nfs(p, n, mode)
      PROVE  Inv'
  BY <1>4, OpenKeeps, CreateKeeps
<1>5. ASSUME NEW p \in Pid, NEW fd \in Fd, read_file(p, fd) \/ write_file(p, fd) \/ close_file(p, fd)
      PROVE  Inv'
  <2>1. CASE close_file(p, fd)
    BY <2>1, CloseKeeps
  <2>2. CASE read_file(p, fd)
    BY <2>2, StartKeeps DEF read_file, can_access
  <2>3. CASE write_file(p, fd)
    BY <2>3, StartKeeps DEF write_file, can_access
  <2> QED BY <1>5, <2>1, <2>2, <2>3
<1> QED BY <1>1, <1>2, <1>3, <1>4, <1>5 DEF Next

-----------------------------------------------------------------------------

\* The invariant above holds through every interleaving of system calls, callbacks,
\* creation and deletion of processes.
THEOREM FilesSafety ==
  ASSUME Creator \cap Mortal = {}
  PROVE  Spec => []Inv
<1>1. Init => Inv
  BY InvInit
<1>2. Inv /\ [Next]_vars => Inv'
  BY InvNext
<1> QED BY <1>1, <1>2, PTL DEF Spec

\* No callback touches freed memory: the token of an outstanding read or write is a
\* live handle of the process that called, even after delete_process.
THEOREM TokensStayLive ==
  ASSUME Creator \cap Mortal = {}
  PROVE  Spec => []TokensLive
<1>1. Inv => TokensLive
  BY DEF Inv, IoCallsSound, IoCallSound, TokensLive
<1> QED BY <1>1, FilesSafety, PTL

\* nfs_read_callback, nfs_write_callback and nfs_create_callback answer the process
\* that called, blocked in that call, and nobody else.
THEOREM AnswersReachTheirCaller ==
  ASSUME Creator \cap Mortal = {}
  PROVE  Spec => []AnswersReachCaller
<1>1. Inv => AnswersReachCaller
  BY DEF Inv, AnswersReachCaller
<1> QED BY <1>1, FilesSafety, PTL

\* The descriptors of running processes name live handles of their own, no two the
\* same, and a blocked thread has exactly one call that will be answered.
THEOREM TablesStaySound ==
  ASSUME Creator \cap Mortal = {}
  PROVE  Spec => []TablesSound
<1>1. ASSUME Inv PROVE TablesSound
  <2>1. ASSUME ~panic, NEW p \in Pid, thread[p] \in {"read", "write", "open"}
        PROVE  Cardinality({c \in calls : c.kind = thread[p] /\ c.of = birth[p]}) = 1
    <3>1. PICK c \in calls : c.kind = thread[p] /\ c.of = birth[p]
      BY <1>1, <2>1 DEF Inv, BlockedHasOne
    <3>2. {d \in calls : d.kind = thread[p] /\ d.of = birth[p]} = {c}
      BY <1>1, <3>1 DEF Inv, OneCallEach
    <3> QED BY <3>2, FS_Singleton
  <2> QED BY <1>1, <2>1 DEF Inv, TablesSound, BlockedHasCall
<1> QED BY <1>1, FilesSafety, PTL
=============================================================================
