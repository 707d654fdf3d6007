---------------------------- MODULE PagingProofs ----------------------------
(***************************************************************************)
(* Theorems about Paging, for any number of processes, pages, frames, swap *)
(* entries and batches.                                                    *)
(***************************************************************************)
EXTENDS Paging, FiniteSetTheorems, TLAPS

\* The inductive invariant.  Freeing the frame of an evicted page is right only
\* because a queued page is in memory (QueuesMatchTables); a page in memory keeps
\* its frame to itself because of FrameConservation; and no mapping outlives the
\* page table entry it was made from because of MappingsAgree.
Inv ==
  /\ TypeOK
  /\ MappingsAgree
  /\ FrameConservation
  /\ QueuesMatchTables
  /\ IpcNeverSwapped
  /\ SwapEntriesExclusive

\* The invariant holds at the start.
LEMMA InitInv == Init => Inv
<1> SUFFICES ASSUME Init PROVE Inv
  OBVIOUS
<1>1. TypeOK
  BY PageAssumption, StoreAssumption DEF Init, TypeOK
<1>2. MappingsAgree
  BY DEF Init, MappingsAgree, is_referenced
<1>3. FrameConservation
  BY StoreAssumption DEF Init, FrameConservation, Resident
<1>4. QueuesMatchTables
  BY StoreAssumption DEF Init, QueuesMatchTables, Live, Resident
<1>5. SwapEntriesExclusive
  BY StoreAssumption DEF Init, SwapEntriesExclusive, SwappedOut
<1>6. IpcNeverSwapped
  BY StoreAssumption, PageAssumption DEF Init, IpcNeverSwapped, SwappedOut
<1> QED BY <1>1, <1>2, <1>3, <1>4, <1>5, <1>6 DEF Inv

-----------------------------------------------------------------------------
(***************************************************************************)
(* Steps that leave tables and queues alone.                               *)
(***************************************************************************)

\* Four of the conjuncts depend on these variables only.
LEMMA StructureUnchanged ==
  ASSUME Inv, TypeOK',
         UNCHANGED <<free, pte, hw, active, swapping, swap_used, panic>>
  PROVE  Inv'
<1>1. MappingsAgree'
  BY DEF Inv, MappingsAgree, is_referenced
<1>2. FrameConservation'
  BY DEF Inv, FrameConservation, Resident
<1>3. QueuesMatchTables'
  BY DEF Inv, QueuesMatchTables, Live, Resident
<1>4. SwapEntriesExclusive'
  BY DEF Inv, SwapEntriesExclusive, SwappedOut
<1>5. IpcNeverSwapped'
  BY DEF Inv, IpcNeverSwapped, SwappedOut
<1> QED BY <1>1, <1>2, <1>3, <1>4, <1>5 DEF Inv

\* A thread that runs keeps the invariant.
LEMMA UserInv ==
  ASSUME Inv, NEW p \in Proc, User(p)
  PROVE  Inv'
<1>1. ASSUME NEW pg \in Pages(p), UserRead(p, pg) PROVE Inv'
  <2>1. TypeOK'
    BY <1>1 DEF Inv, TypeOK, UserRead, frameVars, tableVars, hwVars, queueVars
  <2> QED BY <1>1, <2>1, StructureUnchanged
          DEF UserRead, frameVars, tableVars, hwVars, queueVars
<1>2. ASSUME NEW pg \in Pages(p), NEW x \in Val, UserWrite(p, pg, x) PROVE Inv'
  <2>1. TypeOK'
    BY <1>2 DEF Inv, TypeOK, UserWrite, tableVars, hwVars, queueVars, Pages
  <2> QED BY <1>2, <2>1, StructureUnchanged
          DEF UserWrite, tableVars, hwVars, queueVars
<1> QED BY <1>1, <1>2 DEF User

\* A new process keeps the invariant.
LEMMA CreateInv ==
  ASSUME Inv, NEW p \in Proc, create_process(p)
  PROVE  Inv'
<1>1. TypeOK'
  BY DEF Inv, TypeOK, create_process, frameVars, tableVars, hwVars, queueVars
<1> QED BY <1>1, StructureUnchanged
        DEF create_process, frameVars, tableVars, hwVars, queueVars

-----------------------------------------------------------------------------
(***************************************************************************)
(* Page faults.                                                            *)
(***************************************************************************)

\* second_chance_select leaves well typed values behind, removes v from the queue
\* and unmaps at least v.
LEMMA EvictionFacts ==
  ASSUME Inv, NEW v \in active
  PROVE  /\ v.page \in Page /\ v.slot \in Slot \cup {None} /\ v \in ActiveItem
         /\ pte[v.page] \in Frame /\ v.page \notin Ipc
         /\ QueueWithout(v) \subseteq active
         /\ \A i \in QueueWithout(v) : i.page # v.page
         /\ \A i \in active : i.page # v.page => i \in QueueWithout(v)
         /\ OrderWithout(v) \subseteq QueueWithout(v) \X QueueWithout(v)
         /\ HwWithout(v) \in [Page -> Frame \cup {None}]
         /\ HwWithout(v)[v.page] = None
         /\ \A pg \in Page : HwWithout(v)[pg] \in {hw[pg], None}
         /\ WritableWithout(v) \subseteq Page
<1>1. v \in ActiveItem /\ v.page \in Page /\ v.slot \in Slot \cup {None}
  BY DEF Inv, TypeOK, ActiveItem
<1>2. pte[v.page] \in Frame /\ v.page \notin Ipc
  BY DEF Inv, QueuesMatchTables, Resident
<1>3. /\ QueueWithout(v) \subseteq active
      /\ \A i \in QueueWithout(v) : i.page # v.page
      /\ \A i \in active : i.page # v.page => i \in QueueWithout(v)
  BY DEF QueueWithout, Inv, QueuesMatchTables
<1>4. OrderWithout(v) \subseteq QueueWithout(v) \X QueueWithout(v)
  BY DEF OrderWithout
<1>5. HwWithout(v) \in [Page -> Frame \cup {None}]
  BY DEF HwWithout, Inv, TypeOK
<1>6. \A pg \in Page : HwWithout(v)[pg] \in {hw[pg], None}
  BY DEF HwWithout
<1>7. HwWithout(v)[v.page] = None
  BY <1>1 DEF HwWithout, Passed, is_referenced
<1>8. WritableWithout(v) \subseteq Page
  BY DEF WritableWithout, Inv, TypeOK
<1> QED BY <1>1, <1>2, <1>3, <1>4, <1>5, <1>6, <1>7, <1>8

\* the page that faults is known to the page tables, and stays wanted
LEMMA FaultFacts ==
  ASSUME Inv, NEW p \in Proc, NEW pg \in Pages(p), NEW a \in Access,
         PageFault(p, pg, a)
  PROVE  /\ pg \in Page /\ owner[pg] = p
         /\ want' \in [Proc -> (Page \X Access) \cup {None}]
         /\ panic = "no"
  BY DEF Pages, PageFault, MayAccess, Inv, TypeOK

\* Mapping a page that is in memory keeps the invariant.
LEMMA MapResidentInv ==
  ASSUME Inv, NEW p \in Proc, NEW pg \in Pages(p), NEW a \in Access,
         MapResident(p, pg, a)
  PROVE  Inv'
<1> USE DEF MapResident, DirtyMapped, frameVars, queueVars
<1>0. pg \in Page /\ want' \in [Proc -> (Page \X Access) \cup {None}]
  BY FaultFacts
<1>1. TypeOK'
  BY <1>0 DEF Inv, TypeOK, Resident
<1>2. MappingsAgree'
  BY <1>0 DEF Inv, TypeOK, MappingsAgree, is_referenced
<1>3. FrameConservation'
  BY DEF Inv, FrameConservation, Resident
<1>4. QueuesMatchTables'
  BY DEF Inv, QueuesMatchTables, Live, Resident
<1>5. SwapEntriesExclusive'
  BY DEF Inv, SwapEntriesExclusive, SwappedOut
<1>6. IpcNeverSwapped'
  BY DEF Inv, IpcNeverSwapped, SwappedOut
<1> QED BY <1>1, <1>2, <1>3, <1>4, <1>5, <1>6 DEF Inv

\* virtual_mapping with a frame from the frame stack
LEMMA FreeFrameInv ==
  ASSUME Inv, NEW p \in Proc, NEW pg \in Pages(p), NEW a \in Access,
         FaultWithFreeFrame(p, pg, a)
  PROVE  Inv'
<1>0. /\ pg \in Page /\ want' \in [Proc -> (Page \X Access) \cup {None}]
      /\ panic = "no" /\ ~Resident(pg)
  BY FaultFacts DEF FaultWithFreeFrame
<1> PICK f \in free :
      /\ free' = free \ {f}
      /\ FirstReference(p, pg, f, NoEviction) \/ SwapIn(p, pg, f, NoEviction)
  BY DEF FaultWithFreeFrame
<1>f. f \in Frame /\ \A b \in Page : pte[b] # f
  BY DEF Inv, TypeOK, FrameConservation
<1>1. CASE FirstReference(p, pg, f, NoEviction)
  <2> DEFINE i == [page |-> pg, slot |-> None]
  <2> USE <1>1 DEF FirstReference, NoEviction, Swappable
  <2>1. /\ pte' = [pte EXCEPT ![pg] = f] /\ hw' = [hw EXCEPT ![pg] = f]
        /\ swapping' = swapping /\ swap_used' = swap_used /\ panic' = panic
        /\ pte[pg] = None
        /\ IF pg \in Ipc THEN active' = active ELSE active' = active \cup {i}
    OBVIOUS
  <2>2. i \in ActiveItem /\ i.page = pg /\ i.slot = None
    BY <1>0 DEF ActiveItem
  <2>3. TypeOK'
    BY <1>0, <1>f, <2>2, StoreAssumption DEF Inv, TypeOK, TailInsert
  <2> HIDE <1>1 DEF FirstReference, NoEviction, Swappable, i
  <2>4. MappingsAgree'
    BY <1>0, <1>f, <2>1 DEF Inv, TypeOK, MappingsAgree, is_referenced
  <2>5. FrameConservation'
    BY <1>0, <1>f, <2>1, StoreAssumption DEF Inv, TypeOK, FrameConservation, Resident
  <2>6. QueuesMatchTables'
    BY <1>0, <1>f, <2>1, <2>2, StoreAssumption DEF Inv, TypeOK, QueuesMatchTables, Live, Resident
  <2>7. SwapEntriesExclusive'
    BY <1>0, <1>f, <2>1, <2>2, StoreAssumption DEF Inv, TypeOK, SwapEntriesExclusive, SwappedOut
  <2>8. IpcNeverSwapped'
    BY <1>f, <2>1, StoreAssumption DEF Inv, TypeOK, IpcNeverSwapped, SwappedOut
  <2> QED BY <2>3, <2>4, <2>5, <2>6, <2>7, <2>8 DEF Inv
<1>2. CASE SwapIn(p, pg, f, NoEviction)
  <2> DEFINE i == [page |-> pg, slot |-> pte[pg], dir |-> "in", to_swap |-> 0,
                   initiator |-> None, process_deleted |-> FALSE, data |-> Torn]
  <2> USE <1>2 DEF SwapIn, NoEviction
  <2>1. /\ pte' = [pte EXCEPT ![pg] = f] /\ hw' = hw
        /\ active' = active /\ swap_used' = swap_used /\ panic' = panic
        /\ pte[pg] \in Slot
        /\ swapping' = swapping \cup {i}
    BY DEF SwappedOut
  <2>q. /\ \A j \in active : j.page # pg
        /\ \A j \in Live : j.page # pg
        /\ pg \notin Ipc
    BY <1>0, <2>1, StoreAssumption
       DEF Inv, QueuesMatchTables, Resident, IpcNeverSwapped, SwappedOut
  <2>2. i \in SwapItem /\ i.page = pg /\ i.slot = pte[pg] /\ i.process_deleted = FALSE
    BY <1>0, <2>1, StoreAssumption DEF SwapItem
  <2>t. /\ free' = free \ {f} /\ dirty' = dirty \ {pg} /\ mem' = [mem EXCEPT ![f] = Zero]
        /\ blocked' = blocked \cup {p} /\ writable' = writable /\ before' = before
        /\ UNCHANGED <<disk, state, shadow>>
    OBVIOUS
  <2> HIDE <1>2 DEF SwapIn, NoEviction, i
  <2>3. TypeOK'
    BY <1>0, <1>f, <2>1, <2>2, <2>t, StoreAssumption DEF Inv, TypeOK
  <2>4. MappingsAgree'
    BY <1>0, <1>f, <2>1, StoreAssumption DEF Inv, TypeOK, MappingsAgree, is_referenced
  <2>5. FrameConservation'
    BY <1>0, <1>f, <2>1, StoreAssumption DEF Inv, TypeOK, FrameConservation, Resident
  <2>6. QueuesMatchTables'
    BY <1>0, <1>f, <2>1, <2>2, <2>q, StoreAssumption DEF Inv, TypeOK, QueuesMatchTables, Live, Resident
  <2>7. SwapEntriesExclusive'
    BY <1>0, <1>f, <2>1, <2>2, StoreAssumption DEF Inv, TypeOK, SwapEntriesExclusive, SwappedOut
  <2>8. IpcNeverSwapped'
    BY <1>f, <2>1, StoreAssumption DEF Inv, TypeOK, IpcNeverSwapped, SwappedOut
  <2> QED BY <2>3, <2>4, <2>5, <2>6, <2>7, <2>8 DEF Inv
<1> QED BY <1>1, <1>2

\* second_chance_select has unmapped some pages and removed v
LEMMA SwappingOutInv ==
  ASSUME Inv, NEW p \in Proc, NEW pg \in Pages(p), NEW a \in Access,
         NEW v \in active, NEW s \in Slot, FaultSwappingOut(p, pg, a, v, s)
  PROVE  Inv'
<1> DEFINE i == [page |-> v.page, slot |-> s, dir |-> "out", to_swap |-> Batches,
                 initiator |-> p, process_deleted |-> FALSE, data |-> mem[pte[v.page]]]
<1>0. /\ want' \in [Proc -> (Page \X Access) \cup {None}] /\ panic = "no"
  BY FaultFacts DEF FaultSwappingOut, Evicting
<1>1. /\ swap_used' = swap_used \cup {s} /\ swapping' = swapping \cup {i}
      /\ active' = QueueWithout(v) /\ before' = OrderWithout(v)
      /\ hw' = HwWithout(v) /\ writable' = WritableWithout(v)
      /\ blocked' = blocked \cup {p}
      /\ UNCHANGED <<free, mem, pte, dirty, disk, state, shadow, panic>>
  BY DEF FaultSwappingOut, frameVars, tableVars
<1>2. s = v.slot \/ (v.slot = None /\ s \notin swap_used)
  BY DEF FaultSwappingOut, Evicting, SwapEntryFor
<1>3. /\ i \in SwapItem /\ i.page = v.page /\ i.slot = s /\ i.process_deleted = FALSE
  BY EvictionFacts, StoreAssumption DEF SwapItem, Inv, TypeOK
<1> HIDE DEF i
<1>4. TypeOK'
  BY <1>0, <1>1, <1>3, EvictionFacts DEF Inv, TypeOK
<1>5. MappingsAgree'
  BY <1>1, EvictionFacts DEF Inv, MappingsAgree, is_referenced
<1>6. FrameConservation'
  BY <1>1 DEF Inv, FrameConservation, Resident
<1>7. QueuesMatchTables'
  <2>1. Live' = Live \cup {i}
    BY <1>1, <1>3 DEF Live
  <2> QED BY <1>0, <1>1, <1>3, <2>1, EvictionFacts DEF Inv, QueuesMatchTables, Resident
<1>8. SwapEntriesExclusive'
  BY <1>1, <1>2, <1>3, EvictionFacts, StoreAssumption
     DEF Inv, TypeOK, SwapEntriesExclusive, SwappedOut
<1>9. IpcNeverSwapped'
  BY <1>1 DEF Inv, IpcNeverSwapped, SwappedOut
<1> QED BY <1>4, <1>5, <1>6, <1>7, <1>8, <1>9 DEF Inv

\* the server stops
LEMMA OutOfMemoryInv ==
  ASSUME Inv, NEW p \in Proc, NEW pg \in Pages(p), NEW a \in Access,
         \/ FaultOutOfFrames(p, pg, a)
         \/ \E v \in active : FaultOutOfSwap(p, pg, a, v)
  PROVE  Inv'
<1>1. CASE FaultOutOfFrames(p, pg, a)
  <2> USE <1>1 DEF FaultOutOfFrames, frameVars, tableVars, hwVars, queueVars
  <2>0. want' \in [Proc -> (Page \X Access) \cup {None}]
    BY FaultFacts
  <2>1. TypeOK'
    BY <2>0 DEF Inv, TypeOK
  <2>2. MappingsAgree' /\ IpcNeverSwapped'
    BY DEF Inv, MappingsAgree, is_referenced, IpcNeverSwapped, SwappedOut
  <2>3. FrameConservation'
    BY DEF Inv, FrameConservation, Resident
  <2>4. QueuesMatchTables'
    BY DEF Inv, QueuesMatchTables, Live, Resident
  <2>5. SwapEntriesExclusive'
    BY DEF Inv, SwapEntriesExclusive, SwappedOut
  <2> QED BY <2>1, <2>2, <2>3, <2>4, <2>5 DEF Inv
<1>2. ASSUME NEW v \in active, FaultOutOfSwap(p, pg, a, v) PROVE Inv'
  <2>0. want' \in [Proc -> (Page \X Access) \cup {None}]
    BY <1>2, FaultFacts DEF FaultOutOfSwap
  <2>1. /\ active' = QueueWithout(v) /\ before' = OrderWithout(v)
        /\ hw' = HwWithout(v) /\ writable' = WritableWithout(v)
        /\ panic' = "no_swap"
        /\ UNCHANGED <<free, mem, pte, dirty, swapping, swap_used, disk, state, blocked, shadow>>
    BY <1>2 DEF FaultOutOfSwap, frameVars, tableVars
  <2>2. TypeOK'
    BY <2>0, <2>1, EvictionFacts DEF Inv, TypeOK
  <2>3. MappingsAgree' /\ IpcNeverSwapped'
    BY <2>1, EvictionFacts DEF Inv, MappingsAgree, is_referenced, IpcNeverSwapped, SwappedOut
  <2>4. FrameConservation'
    BY <2>1 DEF Inv, FrameConservation, Resident
  <2>5. QueuesMatchTables'
    BY <2>1, EvictionFacts DEF Inv, QueuesMatchTables, Live, Resident
  <2>6. SwapEntriesExclusive'
    BY <2>1, EvictionFacts DEF Inv, SwapEntriesExclusive, SwappedOut
  <2> QED BY <2>2, <2>3, <2>4, <2>5, <2>6 DEF Inv
<1> QED BY <1>1, <1>2

\* the frame of the clean page v goes to page pg at once
LEMMA EvictingCleanInv ==
  ASSUME Inv, NEW p \in Proc, NEW pg \in Pages(p), NEW a \in Access,
         NEW v \in active, NEW s \in Slot, FaultEvictingClean(p, pg, a, v, s)
  PROVE  Inv'
<1> DEFINE f == pte[v.page]
           e == CleanEviction(v, s)
<1>0. /\ pg \in Page /\ want' \in [Proc -> (Page \X Access) \cup {None}]
      /\ panic = "no" /\ ~Resident(pg) /\ free' = free
      /\ s = v.slot \/ (v.slot = None /\ s \notin swap_used)
      /\ FirstReference(p, pg, f, e) \/ SwapIn(p, pg, f, e)
  BY FaultFacts DEF FaultEvictingClean, Evicting, SwapEntryFor
<1>f. f \in Frame /\ \A b \in Page : pte[b] = f => b = v.page
  BY EvictionFacts DEF Inv, FrameConservation, Resident
<1>v. v.page # pg
  BY <1>0, EvictionFacts DEF Resident
<1>q. \A j \in QueueWithout(v) \cup Live : j.page \in Page \ {pg, v.page}
  BY <1>0, EvictionFacts DEF Inv, TypeOK, ActiveItem, SwapItem, Live, QueuesMatchTables
<1>e. /\ e.pte = [pte EXCEPT ![v.page] = s] /\ e.hw = HwWithout(v)
      /\ e.writable = WritableWithout(v) /\ e.active = QueueWithout(v)
      /\ e.before = OrderWithout(v) /\ e.used = swap_used \cup {s}
  BY DEF CleanEviction
<1> HIDE DEF e
<1>p. pte' = [[pte EXCEPT ![v.page] = s] EXCEPT ![pg] = f]
  BY <1>0, <1>e DEF FirstReference, SwapIn
<1>s. s \notin Frame
  BY StoreAssumption
<1>r. /\ v.page \in Page /\ pte'[pg] = f /\ pte'[v.page] = s
      /\ \A b \in Page \ {pg, v.page} : pte'[b] = pte[b]
  BY <1>0, <1>p, <1>v, EvictionFacts DEF Inv, TypeOK
<1>x. /\ Resident(pg)' /\ ~Resident(v.page)'
      /\ \A b \in Page \ {pg, v.page} : Resident(b)' <=> Resident(b)
  BY <1>r, <1>s, <1>f DEF Resident
<1>c. FrameConservation'
  <2> HIDE DEF f
  <2>1. \A g \in free', b \in Page : pte'[b] # g
    <3> f \notin free
      BY EvictionFacts DEF Inv, FrameConservation, f
    <3> QED BY <1>0, <1>r, <1>s DEF Inv, TypeOK, FrameConservation
  <2>2. \A g \in Frame \ free' : \E b \in Page : pte'[b] = g
    <3> TAKE g \in Frame \ free'
    <3>1. PICK b \in Page : pte[b] = g
      BY <1>0 DEF Inv, FrameConservation
    <3>2. CASE b = v.page
      BY <1>0, <1>r, <3>1, <3>2 DEF f
    <3>3. CASE b # v.page
      BY <1>0, <1>r, <3>1, <3>3 DEF Resident
    <3> QED BY <3>2, <3>3
  <2>3. \A b, c \in Page : Resident(b)' /\ pte'[b] = pte'[c] => b = c
    BY <1>f, <1>r, <1>s, <1>x DEF Inv, FrameConservation, Resident
  <2> QED BY <2>1, <2>2, <2>3 DEF FrameConservation
<1>1. CASE FirstReference(p, pg, f, e)
  <2> DEFINE i == [page |-> pg, slot |-> None]
  <2>1. /\ pte' = [[pte EXCEPT ![v.page] = s] EXCEPT ![pg] = f]
        /\ hw' = [HwWithout(v) EXCEPT ![pg] = f] /\ writable' = WritableWithout(v) \ {pg}
        /\ swapping' = swapping /\ swap_used' = swap_used \cup {s} /\ panic' = panic
        /\ pte[pg] = None /\ mem' = [mem EXCEPT ![f] = Zero]
        /\ shadow' = [shadow EXCEPT ![pg] = Zero]
        /\ UNCHANGED <<disk, state, blocked>>
    BY <1>1, <1>e DEF FirstReference
  <2>2. IF pg \in Ipc
          THEN active' = QueueWithout(v) /\ before' = OrderWithout(v) /\ dirty' = dirty
          ELSE /\ active' = QueueWithout(v) \cup {i}
               /\ before' = OrderWithout(v) \cup (QueueWithout(v) \X {i})
               /\ dirty' = dirty \cup {pg}
    BY <1>1, <1>e DEF FirstReference, Swappable, TailInsert
  <2>3. i \in ActiveItem /\ i.page = pg /\ i.slot = None
    BY <1>0 DEF ActiveItem
  <2> HIDE DEF i, f
  <2>4. TypeOK'
    BY <1>0, <1>f, <2>1, <2>2, <2>3, EvictionFacts, StoreAssumption DEF Inv, TypeOK
  <2>5. MappingsAgree'
    BY <1>0, <1>f, <2>1, EvictionFacts DEF Inv, TypeOK, MappingsAgree, is_referenced
  <2>6. FrameConservation'
    BY <1>c
  <2>7. QueuesMatchTables'
    <3>1. Live' = Live
      BY <2>1 DEF Live
    <3> QED BY <1>0, <1>x, <1>v, <1>q, <2>1, <2>2, <2>3, <3>1, EvictionFacts
            DEF Inv, QueuesMatchTables
  <2>8. SwapEntriesExclusive'
    BY <1>0, <1>f, <1>v, <2>1, <2>2, <2>3, EvictionFacts, StoreAssumption
       DEF Inv, TypeOK, SwapEntriesExclusive, SwappedOut
  <2>9. IpcNeverSwapped'
    BY <1>f, <2>1, EvictionFacts, StoreAssumption, PageAssumption
       DEF Inv, TypeOK, IpcNeverSwapped, SwappedOut
  <2> QED BY <2>4, <2>5, <2>6, <2>7, <2>8, <2>9 DEF Inv
<1>2. CASE SwapIn(p, pg, f, e)
  <2> DEFINE i == [page |-> pg, slot |-> pte[pg], dir |-> "in", to_swap |-> 0,
                   initiator |-> None, process_deleted |-> FALSE, data |-> Torn]
  <2>1. /\ pte' = [[pte EXCEPT ![v.page] = s] EXCEPT ![pg] = f]
        /\ hw' = HwWithout(v) /\ writable' = WritableWithout(v)
        /\ active' = QueueWithout(v) /\ before' = OrderWithout(v)
        /\ swapping' = swapping \cup {i} /\ swap_used' = swap_used \cup {s}
        /\ pte[pg] \in Slot /\ mem' = [mem EXCEPT ![f] = Zero]
        /\ dirty' = dirty \ {pg} /\ blocked' = blocked \cup {p}
        /\ UNCHANGED <<disk, state, shadow, panic>>
    BY <1>2, <1>e DEF SwapIn, SwappedOut
  <2>2. i \in SwapItem /\ i.page = pg /\ i.slot = pte[pg] /\ i.process_deleted = FALSE
    BY <1>0, <2>1, StoreAssumption DEF SwapItem
  <2>3. pg \notin Ipc
    BY <2>1 DEF Inv, IpcNeverSwapped, SwappedOut
  <2> HIDE DEF i, f
  <2>4. TypeOK'
    BY <1>0, <1>f, <2>1, <2>2, EvictionFacts, StoreAssumption DEF Inv, TypeOK
  <2>5. MappingsAgree'
    BY <1>0, <1>f, <2>1, EvictionFacts, StoreAssumption
       DEF Inv, TypeOK, MappingsAgree, is_referenced
  <2>6. FrameConservation'
    BY <1>c
  <2>7. QueuesMatchTables'
    <3>1. Live' = Live \cup {i}
      BY <2>1, <2>2 DEF Live
    <3> QED BY <1>0, <1>x, <1>v, <1>q, <2>1, <2>2, <2>3, <3>1, EvictionFacts
            DEF Inv, QueuesMatchTables
  <2>8. SwapEntriesExclusive'
    BY <1>0, <1>f, <1>v, <2>1, <2>2, EvictionFacts, StoreAssumption
       DEF Inv, TypeOK, SwapEntriesExclusive, SwappedOut
  <2>9. IpcNeverSwapped'
    BY <1>f, <2>1, EvictionFacts, StoreAssumption, PageAssumption
       DEF Inv, TypeOK, IpcNeverSwapped, SwappedOut
  <2> QED BY <2>4, <2>5, <2>6, <2>7, <2>8, <2>9 DEF Inv
<1> QED BY <1>0, <1>1, <1>2

\* A page fault, in each of its outcomes, keeps the invariant.
LEMMA FaultInv ==
  ASSUME Inv, NEW p \in Proc, Fault(p)
  PROVE  Inv'
<1> SUFFICES ASSUME NEW pg \in Pages(p), NEW a \in Access, pager(p, pg, a)
             PROVE  Inv'
  BY DEF Fault
<1>1. CASE MapResident(p, pg, a)
  BY <1>1, MapResidentInv
<1>2. CASE FaultWithFreeFrame(p, pg, a)
  BY <1>2, FreeFrameInv
<1>3. CASE FaultOutOfFrames(p, pg, a)
  BY <1>3, OutOfMemoryInv
<1>4. ASSUME NEW v \in active, NEW s \in Slot, FaultEvictingClean(p, pg, a, v, s) PROVE Inv'
  BY <1>4, EvictingCleanInv
<1>5. ASSUME NEW v \in active, NEW s \in Slot, FaultSwappingOut(p, pg, a, v, s) PROVE Inv'
  BY <1>5, SwappingOutInv
<1>6. ASSUME NEW v \in active, FaultOutOfSwap(p, pg, a, v) PROVE Inv'
  BY <1>6, OutOfMemoryInv
<1> QED BY <1>1, <1>2, <1>3, <1>4, <1>5, <1>6 DEF pager

-----------------------------------------------------------------------------
(***************************************************************************)
(* Replies to requests on the swap file.                                   *)
(***************************************************************************)

\* A transfer makes progress, other things being equal: item i becomes j.
LEMMA ProgressInv ==
  ASSUME Inv, TypeOK', NEW i \in swapping, NEW j,
         j.page = i.page, j.slot = i.slot, j.process_deleted = i.process_deleted,
         swapping' = (swapping \ {i}) \cup {j},
         UNCHANGED <<free, pte, hw, active, swap_used, panic>>
  PROVE  Inv'
<1>1. MappingsAgree' /\ IpcNeverSwapped'
  BY DEF Inv, MappingsAgree, is_referenced, IpcNeverSwapped, SwappedOut
<1>2. FrameConservation'
  BY DEF Inv, FrameConservation, Resident
<1>3. QueuesMatchTables'
  <2>1. Live' = IF i \in Live THEN (Live \ {i}) \cup {j} ELSE Live \ {i}
    BY DEF Live
  <2>2. \A k \in Live : \E l \in Live' : k.page = l.page
    BY <2>1
  <2> QED BY <2>1, <2>2 DEF Inv, QueuesMatchTables, Resident
<1>4. SwapEntriesExclusive'
  BY DEF Inv, SwapEntriesExclusive, SwappedOut
<1> QED BY <1>1, <1>2, <1>3, <1>4 DEF Inv

\* A transfer ends and its page, if not given up, is queued again.
LEMMA RequeueInv ==
  ASSUME Inv, TypeOK', NEW i \in swapping,
         swapping' = swapping \ {i},
         active' = IF i.process_deleted THEN active
                   ELSE active \cup {[page |-> i.page, slot |-> i.slot]},
         UNCHANGED <<free, pte, hw, swap_used, panic>>
  PROVE  Inv'
<1> DEFINE k == [page |-> i.page, slot |-> i.slot]
<1>0. k.page = i.page /\ k.slot = i.slot /\ active' = IF i.process_deleted THEN active ELSE active \cup {k}
  OBVIOUS
<1> HIDE DEF k
<1>1. MappingsAgree' /\ IpcNeverSwapped'
  BY DEF Inv, MappingsAgree, is_referenced, IpcNeverSwapped, SwappedOut
<1>2. FrameConservation'
  BY DEF Inv, FrameConservation, Resident
<1>3. QueuesMatchTables'
  <2>1. Live' = Live \ {i} /\ (i.process_deleted => i \notin Live)
    BY DEF Live
  <2>2. ~i.process_deleted => i \in Live
    BY DEF Live
  <2> QED BY <1>0, <2>1, <2>2 DEF Inv, QueuesMatchTables, Resident
<1>4. SwapEntriesExclusive'
  BY <1>0, StoreAssumption DEF Inv, TypeOK, SwapItem, SwapEntriesExclusive, SwappedOut
<1> QED BY <1>1, <1>2, <1>3, <1>4 DEF Inv

\* A failed transfer stops the server and keeps the invariant.
LEMMA SwapErrorInv ==
  ASSUME Inv, NEW i \in swapping, SwapError(i)
  PROVE  Inv'
<1> USE DEF SwapError, frameVars, tableVars, hwVars, threadVars
<1>0. swapping' \subseteq swapping
  OBVIOUS
<1>1. TypeOK'
  BY <1>0 DEF Inv, TypeOK
<1>2. MappingsAgree' /\ IpcNeverSwapped'
  BY DEF Inv, MappingsAgree, is_referenced, IpcNeverSwapped, SwappedOut
<1>3. FrameConservation'
  BY DEF Inv, FrameConservation, Resident
<1>4. QueuesMatchTables'
  BY <1>0 DEF Inv, QueuesMatchTables, Live, Resident
<1>5. SwapEntriesExclusive'
  BY <1>0 DEF Inv, SwapEntriesExclusive, SwappedOut
<1> QED BY <1>1, <1>2, <1>3, <1>4, <1>5 DEF Inv

\* The end of a swap-out keeps the invariant.
LEMMA WriteCallbackInv ==
  ASSUME Inv, NEW i \in swapping, swap_write_callback(i)
  PROVE  Inv'
<1>i. /\ i \in SwapItem /\ i.page \in Page /\ i.slot \in Slot /\ i.data \in Val \cup {Torn}
      /\ i.process_deleted \in BOOLEAN /\ i.to_swap \in 0 .. Batches
  BY DEF Inv, TypeOK, SwapItem
<1>u. UNCHANGED <<hw, writable, swap_used, mem, state, want, shadow, panic>>
  BY DEF swap_write_callback, hwVars
<1>1. CASE SwapWriteBatch(i)
  <2> DEFINE j == [i EXCEPT !.to_swap = @ - 1]
  <2>1. /\ disk' = [disk EXCEPT ![i.slot] = Torn] /\ swapping' = (swapping \ {i}) \cup {j}
        /\ UNCHANGED <<free, pte, dirty, active, before, blocked>>
    BY <1>1 DEF SwapWriteBatch
  <2>2. i.to_swap - 1 \in 0 .. Batches
    BY <1>1, <1>i, StoreAssumption DEF SwapWriteBatch
  <2>3. /\ j \in SwapItem /\ j.page = i.page /\ j.slot = i.slot
        /\ j.process_deleted = i.process_deleted
    BY <1>i, <2>2 DEF SwapItem
  <2> HIDE DEF j
  <2>4. TypeOK'
    BY <1>i, <1>u, <2>1, <2>3 DEF Inv, TypeOK
  <2> QED BY <1>u, <2>1, <2>3, <2>4, ProgressInv
<1>2. CASE SwapWriteDone(i) /\ i.process_deleted
  <2>1. /\ disk' = [disk EXCEPT ![i.slot] = i.data] /\ swapping' = swapping \ {i}
        /\ UNCHANGED <<free, pte, dirty, active, before, blocked>>
    BY <1>2 DEF SwapWriteDone
  <2>2. TypeOK'
    BY <1>i, <1>u, <2>1 DEF Inv, TypeOK
  <2> QED BY <1>2, <1>u, <2>1, <2>2, RequeueInv
<1>3. CASE SwapWriteDone(i) /\ ~i.process_deleted
  <2>1. /\ disk' = [disk EXCEPT ![i.slot] = i.data] /\ swapping' = swapping \ {i}
        /\ free' = free \cup {pte[i.page]} /\ pte' = [pte EXCEPT ![i.page] = i.slot]
        /\ dirty' = dirty \ {i.page} /\ blocked' = blocked \ {i.initiator}
        /\ hw[i.page] = None /\ UNCHANGED <<active, before>>
    BY <1>3 DEF SwapWriteDone, ReleaseFrame, Reply, Untouched, is_referenced
  <2>2. /\ i \in Live /\ Live' = Live \ {i}
        /\ pte[i.page] \in Frame /\ i.page \notin Ipc /\ i.slot \notin Frame
    BY <1>3, <1>i, <2>1, StoreAssumption DEF Live, Inv, QueuesMatchTables, Resident
  <2>3. /\ pte'[i.page] = i.slot /\ \A b \in Page \ {i.page} : pte'[b] = pte[b]
    BY <1>i, <2>1 DEF Inv, TypeOK
  <2>4. \A b \in Page : Resident(b)' <=> b # i.page /\ Resident(b)
    BY <1>i, <2>2, <2>3 DEF Resident
  <2>5. \A k \in active \cup (Live \ {i}) : k.page \in Page \ {i.page}
    BY <2>2 DEF Inv, TypeOK, ActiveItem, SwapItem, Live, QueuesMatchTables
  <2>6. TypeOK'
    BY <1>i, <1>u, <2>1, <2>2 DEF Inv, TypeOK
  <2>7. MappingsAgree'
    BY <1>u, <2>1, <2>3 DEF Inv, MappingsAgree, is_referenced
  <2>8. FrameConservation'
    <3>1. \A f \in free', b \in Page : pte'[b] # f
      BY <1>i, <2>1, <2>2, <2>3 DEF Inv, TypeOK, FrameConservation, Resident
    <3>2. \A f \in Frame \ free' : \E b \in Page : pte'[b] = f
      BY <2>1, <2>3 DEF Inv, FrameConservation
    <3>3. \A b, c \in Page : Resident(b)' /\ pte'[b] = pte'[c] => b = c
      BY <2>2, <2>3, <2>4 DEF Inv, FrameConservation, Resident
    <3> QED BY <3>1, <3>2, <3>3 DEF FrameConservation
  <2>9. QueuesMatchTables'
    BY <1>u, <2>1, <2>2, <2>4, <2>5 DEF Inv, QueuesMatchTables
  <2>10. SwapEntriesExclusive'
    <3>1. \A b \in Page : pte[b] # i.slot
      BY <1>i DEF Inv, SwapEntriesExclusive, SwappedOut
    <3>2. \A k \in active : k.slot # i.slot
      BY <1>i, StoreAssumption DEF Inv, SwapEntriesExclusive
    <3>3. \A k \in swapping' : k \in swapping /\ k.slot # i.slot
      BY <2>1 DEF Inv, SwapEntriesExclusive
    <3>4. i.slot \in swap_used'
      BY <1>u DEF Inv, SwapEntriesExclusive
    <3>5. \A b \in Page \ {i.page} : SwappedOut(b)' <=> SwappedOut(b)
      BY <2>3 DEF SwappedOut
    <3> QED BY <1>i, <1>u, <2>1, <2>3, <3>1, <3>2, <3>3, <3>4, <3>5
            DEF Inv, SwapEntriesExclusive
  <2>11. IpcNeverSwapped'
    BY <2>2, <2>3, PageAssumption DEF Inv, IpcNeverSwapped, SwappedOut
  <2> QED BY <2>6, <2>7, <2>8, <2>9, <2>10, <2>11 DEF Inv
<1>4. CASE SwapWriteAbandoned(i)
  <2> DEFINE k == [page |-> i.page, slot |-> i.slot]
  <2>1. /\ disk' = [disk EXCEPT ![i.slot] = i.data] /\ swapping' = swapping \ {i}
        /\ blocked' = blocked \ {i.initiator} /\ UNCHANGED <<free, pte, dirty>>
        /\ active' = IF i.process_deleted THEN active ELSE active \cup {k}
        /\ before' = IF i.process_deleted THEN before ELSE before \cup (active \X {k})
    BY <1>4 DEF SwapWriteAbandoned, Requeue, Reply, TailInsert
  <2>2. k \in ActiveItem
    BY <1>i DEF ActiveItem
  <2>3. TypeOK'
    <3> HIDE DEF k
    <3> QED BY <1>i, <1>u, <2>1, <2>2 DEF Inv, TypeOK
  <2> QED BY <1>u, <2>1, <2>3, RequeueInv
<1> QED BY <1>1, <1>2, <1>3, <1>4 DEF swap_write_callback

\* The end of a swap-in keeps the invariant.
LEMMA ReadCallbackInv ==
  ASSUME Inv, NEW i \in swapping, swap_read_callback(i)
  PROVE  Inv'
<1>i. /\ i \in SwapItem /\ i.page \in Page /\ i.slot \in Slot /\ i.data \in Val \cup {Torn}
      /\ i.process_deleted \in BOOLEAN /\ i.to_swap \in 0 .. Batches
      /\ disk[i.slot] \in Val \cup {Torn}
  BY DEF Inv, TypeOK, SwapItem
<1>m. Mix(i.to_swap = 0, i.data, disk[i.slot]) \in Val \cup {Torn}
  BY <1>i DEF Mix
<1>u. UNCHANGED <<free, pte, dirty, hw, writable, swap_used, disk, state, want, shadow, panic>>
  BY DEF swap_read_callback, tableVars, hwVars
<1>p. ~i.process_deleted => pte[i.page] \in Frame
  BY DEF Inv, QueuesMatchTables, Live, Resident
<1>1. CASE SwapReadCancelled(i)
  <2> USE <1>1 DEF SwapReadCancelled
  <2>1. TypeOK'
    BY <1>u DEF Inv, TypeOK
  <2> QED BY <1>u, <2>1, RequeueInv
<1>2. CASE SwapReadBatch(i)
  <2> DEFINE j == [i EXCEPT !.to_swap = @ + 1, !.data = Mix(i.to_swap = 0, @, disk[i.slot])]
  <2>1. /\ mem' = [mem EXCEPT ![pte[i.page]] = Torn] /\ swapping' = (swapping \ {i}) \cup {j}
        /\ UNCHANGED <<active, before, blocked>> /\ ~i.process_deleted
    BY <1>2 DEF SwapReadBatch
  <2>2. i.to_swap + 1 \in 0 .. Batches
    BY <1>2, <1>i, StoreAssumption DEF SwapReadBatch
  <2>3. /\ j \in SwapItem /\ j.page = i.page /\ j.slot = i.slot
        /\ j.process_deleted = i.process_deleted
    BY <1>i, <1>m, <2>2 DEF SwapItem
  <2> HIDE DEF j
  <2>4. TypeOK'
    BY <1>i, <1>u, <1>p, <2>1, <2>3 DEF Inv, TypeOK
  <2> QED BY <1>u, <2>1, <2>3, <2>4, ProgressInv
<1>3. CASE SwapReadDone(i)
  <2> DEFINE k == [page |-> i.page, slot |-> i.slot]
             x == Mix(i.to_swap = 0, i.data, disk[i.slot])
  <2>1. /\ mem' = [mem EXCEPT ![pte[i.page]] = x] /\ swapping' = swapping \ {i}
        /\ blocked' = blocked \ {owner[i.page]} /\ ~i.process_deleted
        /\ active' = active \cup {k} /\ before' = before \cup (active \X {k})
    BY <1>3 DEF SwapReadDone, Requeue, Reply, TailInsert
  <2>2. k \in ActiveItem
    BY <1>i DEF ActiveItem
  <2>3. TypeOK'
    <3> HIDE DEF k, x
    <3>1. x \in Val \cup {Torn}
      BY <1>m DEF x
    <3> QED BY <1>i, <1>u, <1>p, <2>1, <2>2, <3>1 DEF Inv, TypeOK
  <2> QED BY <1>u, <2>1, <2>3, RequeueInv
<1> QED BY <1>1, <1>2, <1>3 DEF swap_read_callback

-----------------------------------------------------------------------------
(***************************************************************************)
(* System calls.                                                           *)
(***************************************************************************)

\* pager_unmap_all unmaps every page of the process when no page is at STACK_TOP.
LEMMA UnmapFacts ==
  ASSUME Inv, StackTop = {}, NEW p \in Proc, pager_unmap_all(p)
  PROVE  /\ hw' \in [Page -> Frame \cup {None}]
         /\ writable' \subseteq Page
         /\ \A pg \in Page : hw'[pg] = IF owner[pg] = p THEN None ELSE hw[pg]
<1> DEFINE gone == {pg \in Pages(p) \ StackTop : Resident(pg)}
<1>1. hw' = [pg \in Page |-> IF pg \in gone THEN None ELSE hw[pg]] /\ writable' = writable \ gone
  BY DEF pager_unmap_all
<1>2. \A pg \in Page : pg \in gone <=> owner[pg] = p /\ Resident(pg)
  BY DEF Pages
<1>3. \A pg \in Page : ~Resident(pg) => hw[pg] = None
  BY DEF Inv, TypeOK, MappingsAgree, is_referenced, Resident
<1> HIDE DEF gone
<1> QED BY <1>1, <1>2, <1>3 DEF Inv, TypeOK

\* pager_free_all and pager_free_range, after the pages have been unmapped
LEMMA FreeInv ==
  ASSUME Inv, NEW p \in Proc, NEW range \in SUBSET Page, NEW nilled \in SUBSET Page,
         pager_free(p, range, nilled),
         hw' \in [Page -> Frame \cup {None}], writable' \subseteq Page,
         \A pg \in Page : hw'[pg] \in {hw[pg], None},
         \A pg \in range : hw'[pg] = None,
         mem' = mem, disk' = disk, shadow' = shadow, panic' = panic,
         state' \in [Proc -> {"free", "loading", "running"}],
         blocked' \subseteq Proc, want' \in [Proc -> (Page \X Access) \cup {None}]
  PROVE  Inv'
<1> DEFINE mine == {i \in active : i.page \in range}
           Cancel(i) == [i EXCEPT !.process_deleted = @ \/ i.page \in range,
                                  !.initiator = IF @ = p /\ i.page \in nilled THEN None ELSE @]
<1>1. /\ free' = free \cup {pte[pg] : pg \in {g \in range : Resident(g)}}
      /\ swap_used' = swap_used \ ({pte[pg] : pg \in range} \cup {i.slot : i \in mine})
      /\ pte' = [pg \in Page |-> IF pg \in range THEN None ELSE pte[pg]]
      /\ dirty' = dirty \ range
      /\ active' = active \ mine
      /\ before' = before \cap (active' \X active')
      /\ swapping' = {Cancel(i) : i \in swapping}
  BY DEF pager_free, OrderOn, EntriesOf
<1>c. \A i \in swapping : /\ i \in SwapItem /\ Cancel(i) \in SwapItem
                          /\ Cancel(i).page = i.page /\ Cancel(i).slot = i.slot
                          /\ Cancel(i).process_deleted <=> i.process_deleted \/ i.page \in range
  <2>1. SUFFICES ASSUME NEW i \in swapping
                 PROVE  /\ i \in SwapItem /\ Cancel(i) \in SwapItem
                        /\ Cancel(i).page = i.page /\ Cancel(i).slot = i.slot
                        /\ Cancel(i).process_deleted <=> i.process_deleted \/ i.page \in range
    OBVIOUS
  <2>2. i \in SwapItem
    BY DEF Inv, TypeOK
  <2>3. Cancel(i) \in SwapItem
    BY <2>2 DEF SwapItem
  <2>4. /\ Cancel(i).page = i.page /\ Cancel(i).slot = i.slot
        /\ Cancel(i).process_deleted <=> i.process_deleted \/ i.page \in range
    BY <2>2 DEF SwapItem
  <2> QED BY <2>2, <2>3, <2>4
<1>a. \A i \in active : i \in active' <=> i.page \notin range
  BY <1>1
<1>b. active' \subseteq active
  BY <1>1
<1>f. \A f : f \in free' <=> f \in free \/ \E pg \in range : Resident(pg) /\ f = pte[pg]
  BY <1>1
<1>s. \A s : s \in swap_used' <=> /\ s \in swap_used
                                 /\ \A pg \in range : s # pte[pg]
                                 /\ \A i \in active : i.page \in range => s # i.slot
  BY <1>1
<1>w. \A j \in swapping' : \E i \in swapping : j = Cancel(i)
  BY <1>1
<1>x. \A i \in swapping : Cancel(i) \in swapping'
  BY <1>1
<1>p. \A pg \in Page : pte'[pg] = IF pg \in range THEN None ELSE pte[pg]
  BY <1>1
<1>r. \A pg \in Page : Resident(pg)' <=> pg \notin range /\ Resident(pg)
  BY <1>p, StoreAssumption DEF Resident
<1>2. TypeOK'
  <2>1. free' \subseteq Frame
    BY <1>f DEF Inv, TypeOK, Resident
  <2>2. pte' \in [Page -> Frame \cup Slot \cup {None}] /\ dirty' \subseteq Page
    BY <1>1 DEF Inv, TypeOK
  <2>3. active' \subseteq ActiveItem /\ before' \subseteq active' \X active'
    BY <1>1, <1>b DEF Inv, TypeOK
  <2> HIDE DEF mine, Cancel
  <2>4. swapping' \subseteq SwapItem
    BY <1>w, <1>c
  <2>5. swap_used' \subseteq Slot
    BY <1>s DEF Inv, TypeOK
  <2> QED BY <2>1, <2>2, <2>3, <2>4, <2>5 DEF Inv, TypeOK
<1> HIDE DEF mine, Cancel
<1>3. MappingsAgree'
  BY <1>p DEF Inv, TypeOK, MappingsAgree, is_referenced
<1>4. FrameConservation'
  <2>1. \A f \in free', pg \in Page : pte'[pg] # f
    BY <1>f, <1>p, StoreAssumption DEF Inv, TypeOK, FrameConservation, Resident
  <2>2. \A f \in Frame \ free' : \E pg \in Page : pte'[pg] = f
    <3> TAKE f \in Frame \ free'
    <3>1. PICK pg \in Page : pte[pg] = f
      BY <1>f DEF Inv, FrameConservation
    <3>2. pg \notin range
      BY <1>f, <3>1 DEF Resident
    <3> QED BY <1>p, <3>1, <3>2
  <2>3. \A b, c \in Page : Resident(b)' /\ pte'[b] = pte'[c] => b = c
    BY <1>p, <1>r, StoreAssumption DEF Inv, FrameConservation, Resident
  <2> QED BY <2>1, <2>2, <2>3 DEF FrameConservation
<1>5. QueuesMatchTables'
  <2>1. \A j \in Live' : \E i \in Live : j = Cancel(i) /\ j.page = i.page /\ i.page \notin range
    BY <1>w, <1>c DEF Live
  <2>2. \A i \in Live : i.page \notin range => Cancel(i) \in Live' /\ Cancel(i).page = i.page
    BY <1>x, <1>c DEF Live
  <2>t. /\ \A i \in active : i.page \in Page
        /\ \A i \in Live : i.page \in Page
    BY DEF Inv, TypeOK, ActiveItem, SwapItem, Live
  <2>3. \A i \in active' : Resident(i.page)' /\ i.page \notin Ipc
    BY <1>a, <1>b, <1>r, <2>t DEF Inv, QueuesMatchTables
  <2>4. \A j \in Live' : Resident(j.page)' /\ j.page \notin Ipc
    BY <1>r, <2>1, <2>t DEF Inv, QueuesMatchTables
  <2>5. panic' = "no" => \A pg \in Page \ Ipc : Resident(pg)' =>
          \/ \E i \in active' : i.page = pg
          \/ \E i \in Live' : i.page = pg
    BY <1>a, <1>r, <2>2 DEF Inv, QueuesMatchTables
  <2>6. \A i, j \in active' : i.page = j.page => i = j
    BY <1>b DEF Inv, QueuesMatchTables
  <2>7. \A i, j \in Live' : i.page = j.page => i = j
    BY <2>1 DEF Inv, QueuesMatchTables
  <2>8. \A i \in active', j \in Live' : i.page # j.page
    BY <1>b, <2>1 DEF Inv, QueuesMatchTables
  <2> QED BY <2>3, <2>4, <2>5, <2>6, <2>7, <2>8 DEF QueuesMatchTables
<1>6. SwapEntriesExclusive'
  <2>0. \A j \in swapping' : \E i \in swapping : j = Cancel(i) /\ j.slot = i.slot
    BY <1>w, <1>c
  <2>1. \A pg \in Page : SwappedOut(pg)' =>
          SwappedOut(pg) /\ pte'[pg] = pte[pg] /\ pg \notin range
    BY <1>p, StoreAssumption DEF SwappedOut
  <2>2. ASSUME NEW pg \in Page, SwappedOut(pg)'
        PROVE  /\ pte'[pg] \in swap_used'
               /\ \A b \in Page \ {pg} : pte'[b] # pte'[pg]
               /\ \A i \in active' \cup swapping' : i.slot # pte'[pg]
    <3>1. pte'[pg] \in swap_used'
      BY <1>s, <2>1, <2>2 DEF Inv, SwapEntriesExclusive
    <3>2. \A b \in Page \ {pg} : pte'[b] # pte'[pg]
      BY <1>p, <2>1, <2>2, StoreAssumption DEF Inv, SwapEntriesExclusive, SwappedOut
    <3>3. \A i \in active' \cup swapping' : i.slot # pte'[pg]
      BY <1>b, <2>0, <2>1, <2>2 DEF Inv, SwapEntriesExclusive
    <3> QED BY <3>1, <3>2, <3>3
  <2>3. ASSUME NEW i \in active', i.slot # None
        PROVE  /\ i.slot \in swap_used'
               /\ \A j \in active' : j.slot = i.slot => j = i
               /\ \A j \in swapping' : j.slot # i.slot
    <3>1. i \in active /\ i.page \notin range
      BY <1>a, <1>b
    <3>2. \A pg \in Page : pte[pg] # i.slot
      BY <2>3, <3>1 DEF Inv, TypeOK, ActiveItem, SwapEntriesExclusive, SwappedOut
    <3>3. i.slot \in swap_used'
      BY <1>s, <2>3, <3>1, <3>2 DEF Inv, SwapEntriesExclusive
    <3> QED BY <1>b, <2>0, <2>3, <3>1, <3>3 DEF Inv, SwapEntriesExclusive
  <2>4. ASSUME NEW j \in swapping'
        PROVE  /\ j.slot \in swap_used'
               /\ \A k \in swapping' : k.slot = j.slot => k = j
    <3>1. PICK i \in swapping : j = Cancel(i) /\ j.slot = i.slot
      BY <2>0
    <3>2. \A pg \in Page : pte[pg] # i.slot
      BY <1>c DEF Inv, TypeOK, SwapItem, SwapEntriesExclusive, SwappedOut
    <3>3. \A k \in active : k.slot # i.slot
      BY <1>c, StoreAssumption DEF Inv, SwapItem, SwapEntriesExclusive
    <3>4. j.slot \in swap_used'
      BY <1>s, <3>1, <3>2, <3>3 DEF Inv, SwapEntriesExclusive
    <3> QED BY <2>0, <3>1, <3>4 DEF Inv, SwapEntriesExclusive
  <2> QED BY <2>2, <2>3, <2>4 DEF SwapEntriesExclusive
<1>7. IpcNeverSwapped'
  BY <1>p, StoreAssumption, PageAssumption DEF Inv, IpcNeverSwapped, SwappedOut
<1> QED BY <1>2, <1>3, <1>4, <1>5, <1>6, <1>7 DEF Inv

\* A system call keeps the invariant.
LEMMA SyscallInv ==
  ASSUME Inv, StackTop = {}, NEW p \in Proc, Syscall(p)
  PROVE  Inv'
<1>1. CASE create_process(p)
  BY <1>1, CreateInv
<1>2. CASE start_process(p)
  <2>1. /\ pager_unmap_all(p) /\ pager_free(p, Pages(p) \cap Heap, Heap)
        /\ UNCHANGED <<mem, disk, blocked, want, shadow, panic>>
        /\ state' = [state EXCEPT ![p] = "running"]
    BY <1>2 DEF start_process
  <2>2. Pages(p) \cap Heap \in SUBSET Page /\ Heap \in SUBSET Page
    BY PageAssumption DEF Pages
  <2>3. \A pg \in Pages(p) \cap Heap : hw'[pg] = None
    BY <2>1, UnmapFacts DEF Pages
  <2> QED BY <2>1, <2>2, <2>3, UnmapFacts, FreeInv DEF Inv, TypeOK
<1>3. CASE delete_process(p)
  <2>1. /\ pager_unmap_all(p) /\ pager_free(p, Pages(p), Page)
        /\ UNCHANGED <<mem, disk, shadow, panic>>
        /\ state' = [state EXCEPT ![p] = "free"]
        /\ blocked' = blocked \ {p} /\ want' = [want EXCEPT ![p] = None]
    BY <1>3 DEF delete_process
  <2>2. Pages(p) \in SUBSET Page /\ Page \in SUBSET Page
    BY DEF Pages
  <2>3. \A pg \in Pages(p) : hw'[pg] = None
    BY <2>1, UnmapFacts DEF Pages
  <2> QED BY <2>1, <2>2, <2>3, UnmapFacts, FreeInv DEF Inv, TypeOK
<1>4. CASE debug_flush(p)
  <2> USE <1>4 DEF debug_flush, frameVars, tableVars, queueVars, threadVars
  <2>1. TypeOK'
    BY UnmapFacts DEF Inv, TypeOK
  <2>2. MappingsAgree'
    BY UnmapFacts DEF Inv, MappingsAgree, is_referenced
  <2>3. FrameConservation' /\ IpcNeverSwapped'
    BY DEF Inv, FrameConservation, Resident, IpcNeverSwapped, SwappedOut
  <2>4. QueuesMatchTables'
    BY DEF Inv, QueuesMatchTables, Live, Resident
  <2>5. SwapEntriesExclusive'
    BY DEF Inv, SwapEntriesExclusive, SwappedOut
  <2> QED BY <2>1, <2>2, <2>3, <2>4, <2>5 DEF Inv
<1> QED BY <1>1, <1>2, <1>3, <1>4 DEF Syscall

-----------------------------------------------------------------------------
(***************************************************************************)
(* The structure as a whole.  This and all that follows assumes that no    *)
(* page at STACK_TOP itself is used, because pager_unmap_all leaves it     *)
(* mapped when its frame is freed.                                         *)
(***************************************************************************)

\* Every action keeps the invariant.
LEMMA NextInv ==
  ASSUME Inv, StackTop = {}, [Next]_vars
  PROVE  Inv'
<1>1. CASE UNCHANGED vars
  <2>1. TypeOK'
    BY <1>1 DEF Inv, TypeOK, vars
  <2> QED BY <1>1, <2>1, StructureUnchanged DEF vars
<1>2. ASSUME NEW p \in Proc, User(p) \/ Fault(p) \/ Syscall(p) PROVE Inv'
  BY <1>2, UserInv, FaultInv, SyscallInv
<1>3. CASE NfsReply
  BY <1>3, WriteCallbackInv, ReadCallbackInv DEF NfsReply
<1>4. ASSUME NEW i \in swapping, SwapError(i) PROVE Inv'
  BY <1>4, SwapErrorInv
<1> QED BY <1>1, <1>2, <1>3, <1>4 DEF Next, Halted

\* The server's tables, queues and bitfields keep their types and describe the same
\* memory: all that pager.c and swapper.c rely on without checking it.
THEOREM StructureSafety == ASSUME StackTop = {} PROVE Spec => []Inv
<1>1. Inv /\ [Next]_vars => Inv'
  BY NextInv
<1> QED BY <1>1, InitInv, PTL DEF Spec

\* Every variable has its type in every reachable state.
THEOREM TypeSafety == ASSUME StackTop = {} PROVE Spec => []TypeOK
<1>1. Inv => TypeOK
  BY DEF Inv
<1> QED BY <1>1, StructureSafety, PTL

\* No process ever reaches a frame that is free or that another page uses.
THEOREM ProcessIsolation == ASSUME StackTop = {} PROVE Spec => []FrameIsolation
<1>1. Inv => FrameIsolation
  BY DEF Inv, TypeOK, MappingsAgree, FrameConservation, FrameIsolation, is_referenced, Resident
<1> QED BY <1>1, StructureSafety, PTL

\* No frame is ever lost, or owned twice.
THEOREM FramesConserved == ASSUME StackTop = {} PROVE Spec => []FrameConservation
<1>1. Inv => FrameConservation
  BY DEF Inv
<1> QED BY <1>1, StructureSafety, PTL

\* The queues of the swapper and the page tables agree.
THEOREM QueuesConsistent == ASSUME StackTop = {} PROVE Spec => []QueuesMatchTables
<1>1. Inv => QueuesMatchTables
  BY DEF Inv
<1> QED BY <1>1, StructureSafety, PTL

\* No two pages or transfers ever share a swap entry.
THEOREM SwapEntriesSafe == ASSUME StackTop = {} PROVE Spec => []SwapEntriesExclusive
<1>1. Inv => SwapEntriesExclusive
  BY DEF Inv
<1> QED BY <1>1, StructureSafety, PTL

-----------------------------------------------------------------------------
(***************************************************************************)
(* What a fault that gets a frame does, and what second_chance_select      *)
(* leaves alone, in a form the proofs below can use.                       *)
(***************************************************************************)

\* The item swap_in queues for page pg.
ReadItem(pg) ==
  [page |-> pg, slot |-> pte[pg], dir |-> "in", to_swap |-> 0,
   initiator |-> None, process_deleted |-> FALSE, data |-> Torn]

\* Page pg of p gets frame f, from the frame stack or from the clean pages in gone
\* (one at most), which go to swap entries.
Granted(p, pg, f, gone) ==
  /\ pg \in Page /\ owner[pg] = p /\ p \notin blocked /\ panic = "no" /\ panic' = panic
  /\ ~Resident(pg) /\ hw[pg] = None /\ pte'[pg] = f
  /\ \A b \in Page \ {pg} : pte'[b] # f
  /\ \A v \in gone : /\ v.page \in Page \ {pg} /\ v.page \notin dirty
                     /\ pte'[v.page] \in Slot
                     /\ v.slot # None => pte'[v.page] = v.slot
  /\ \A b \in Page \ {pg} : (\A v \in gone : v.page # b) => pte'[b] = pte[b]
  /\ mem' = [mem EXCEPT ![f] = Zero] /\ disk' = disk
  /\ \A b \in Page \ {pg} : hw'[b] \in {hw[b], None}
  /\ \A b \in Page \ {pg} : (\A i \in active : i.page # b) => hw'[b] = hw[b]
  /\ writable' \subseteq writable

\* ... for the first time: the frame is all it gets
Zeroed(pg, f, gone) ==
  /\ pte[pg] = None /\ hw'[pg] = f /\ pg \notin writable'
  /\ swapping' = swapping /\ blocked' = blocked
  /\ shadow' = [shadow EXCEPT ![pg] = Zero]
  /\ dirty \subseteq dirty' /\ dirty' \subseteq dirty \cup {pg}
  /\ active \ gone \subseteq active'
  /\ \A j \in active' : j \in active \ gone \/ (j.page = pg /\ pg \in dirty')

\* ... to read it from its swap entry
Loading(p, pg, gone) ==
  /\ pte[pg] \in Slot /\ hw'[pg] = None
  /\ swapping' = swapping \cup {ReadItem(pg)} /\ blocked' = blocked \cup {p}
  /\ shadow' = shadow
  /\ dirty' = dirty \ {pg}
  /\ active' = active \ gone

\* second_chance_select unmaps pages it finds in the queue only.
LEMMA UnmapsQueuedOnly ==
  ASSUME Inv, NEW v \in active
  PROVE  /\ \A b \in Page : (\A i \in active : i.page # b) => HwWithout(v)[b] = hw[b]
         /\ WritableWithout(v) \subseteq writable
<1>1. Passed(v) \subseteq active
  BY DEF Passed, Older
<1> QED BY <1>1 DEF HwWithout, WritableWithout

\* A fault served from a free frame grants it to the page.
LEMMA FreeFrameGrants ==
  ASSUME Inv, NEW p \in Proc, NEW pg \in Pages(p), NEW a \in Access,
         FaultWithFreeFrame(p, pg, a)
  PROVE  \E f \in Frame : /\ Granted(p, pg, f, {})
                          /\ Zeroed(pg, f, {}) \/ Loading(p, pg, {})
<1>0. /\ pg \in Page /\ owner[pg] = p /\ panic = "no" /\ ~Resident(pg) /\ p \notin blocked
  BY FaultFacts DEF FaultWithFreeFrame, PageFault, MayAccess
<1> PICK f \in free :
      /\ free' = free \ {f}
      /\ FirstReference(p, pg, f, NoEviction) \/ SwapIn(p, pg, f, NoEviction)
  BY DEF FaultWithFreeFrame
<1>f. f \in Frame /\ \A b \in Page : pte[b] # f
  BY DEF Inv, TypeOK, FrameConservation
<1>h. hw[pg] = None
  BY <1>0 DEF Inv, TypeOK, MappingsAgree, is_referenced, Resident
<1>1. /\ pte' = [pte EXCEPT ![pg] = f] /\ mem' = [mem EXCEPT ![f] = Zero]
      /\ UNCHANGED <<disk, panic>>
  BY DEF FirstReference, SwapIn, NoEviction
<1>2. CASE FirstReference(p, pg, f, NoEviction)
  <2>1. /\ hw' = [hw EXCEPT ![pg] = f] /\ writable' = writable \ {pg}
        /\ pte[pg] = None /\ shadow' = [shadow EXCEPT ![pg] = Zero]
        /\ UNCHANGED <<swapping, blocked>>
    BY <1>2 DEF FirstReference, NoEviction
  <2>2. \/ active' = active /\ dirty' = dirty
        \/ active' = active \cup {[page |-> pg, slot |-> None]} /\ dirty' = dirty \cup {pg}
    BY <1>2 DEF FirstReference, NoEviction
  <2>3. Zeroed(pg, f, {})
    BY <1>0, <2>1, <2>2 DEF Zeroed, Inv, TypeOK
  <2>4. Granted(p, pg, f, {})
    BY <1>0, <1>f, <1>h, <1>1, <2>1 DEF Granted, Inv, TypeOK
  <2> QED BY <1>f, <2>3, <2>4
<1>3. CASE SwapIn(p, pg, f, NoEviction)
  <2>1. /\ hw' = hw /\ writable' = writable /\ shadow' = shadow /\ pte[pg] \in Slot
        /\ swapping' = swapping \cup {ReadItem(pg)} /\ blocked' = blocked \cup {p}
        /\ dirty' = dirty \ {pg} /\ active' = active
    BY <1>3 DEF SwapIn, SwappedOut, NoEviction, ReadItem
  <2>3. Loading(p, pg, {})
    BY <1>h, <2>1 DEF Loading
  <2>4. Granted(p, pg, f, {})
    BY <1>0, <1>f, <1>h, <1>1, <2>1 DEF Granted, Inv, TypeOK
  <2> QED BY <1>f, <2>3, <2>4
<1> QED BY <1>2, <1>3

\* A fault that evicts a clean page grants its frame to the page.
LEMMA CleanFrameGrants ==
  ASSUME Inv, NEW p \in Proc, NEW pg \in Pages(p), NEW a \in Access,
         NEW v \in active, NEW s \in Slot, FaultEvictingClean(p, pg, a, v, s)
  PROVE  \E f \in Frame : /\ Granted(p, pg, f, {v})
                          /\ Zeroed(pg, f, {v}) \/ Loading(p, pg, {v})
<1> DEFINE f == pte[v.page]
           e == CleanEviction(v, s)
<1>0. /\ pg \in Page /\ owner[pg] = p /\ panic = "no" /\ ~Resident(pg) /\ p \notin blocked
      /\ s = v.slot \/ (v.slot = None /\ s \notin swap_used)
      /\ v.page \notin dirty
      /\ FirstReference(p, pg, f, e) \/ SwapIn(p, pg, f, e)
  BY FaultFacts DEF FaultEvictingClean, Evicting, SwapEntryFor, PageFault, MayAccess
<1>f. f \in Frame /\ (\A b \in Page : pte[b] = f => b = v.page) /\ s \notin Frame
  BY EvictionFacts, StoreAssumption DEF Inv, FrameConservation, Resident
<1>v. v.page # pg /\ v.page \in Page
  BY <1>0, EvictionFacts DEF Resident
<1>h. hw[pg] = None
  BY <1>0 DEF Inv, TypeOK, MappingsAgree, is_referenced, Resident
<1>k. HwWithout(v)[pg] = None
  BY <1>0, <1>h, EvictionFacts
<1>e. /\ e.pte = [pte EXCEPT ![v.page] = s] /\ e.hw = HwWithout(v)
      /\ e.writable = WritableWithout(v) /\ e.active = active \ {v}
  BY DEF CleanEviction, QueueWithout
<1> HIDE DEF e
<1>1. /\ pte' = [[pte EXCEPT ![v.page] = s] EXCEPT ![pg] = f]
      /\ mem' = [mem EXCEPT ![f] = Zero] /\ UNCHANGED <<disk, panic>>
  BY <1>0, <1>e DEF FirstReference, SwapIn
<1>p. /\ pte'[pg] = f /\ pte'[v.page] = s
      /\ \A b \in Page \ {pg, v.page} : pte'[b] = pte[b]
  BY <1>0, <1>1, <1>v DEF Inv, TypeOK
<1>g. ASSUME \A b \in Page \ {pg} : hw'[b] = HwWithout(v)[b], writable' \subseteq WritableWithout(v)
      PROVE  Granted(p, pg, f, {v})
  <2> HIDE DEF f
  <2>1. \A b \in Page \ {pg} : pte'[b] # f
    BY <1>f, <1>p
  <2>2. \A b \in Page \ {pg} : hw'[b] \in {hw[b], None}
    BY <1>g, EvictionFacts
  <2>3. /\ \A b \in Page \ {pg} : (\A i \in active : i.page # b) => hw'[b] = hw[b]
        /\ writable' \subseteq writable
    BY <1>g, UnmapsQueuedOnly
  <2> QED BY <1>0, <1>h, <1>v, <1>1, <1>p, <2>1, <2>2, <2>3 DEF Granted
<1>2. CASE FirstReference(p, pg, f, e)
  <2>1. /\ hw' = [HwWithout(v) EXCEPT ![pg] = f] /\ writable' = WritableWithout(v) \ {pg}
        /\ pte[pg] = None /\ shadow' = [shadow EXCEPT ![pg] = Zero]
        /\ UNCHANGED <<swapping, blocked>>
    BY <1>2, <1>e DEF FirstReference
  <2>2. \/ active' = active \ {v} /\ dirty' = dirty
        \/ active' = (active \ {v}) \cup {[page |-> pg, slot |-> None]} /\ dirty' = dirty \cup {pg}
    BY <1>2, <1>e DEF FirstReference
  <2>4. hw'[pg] = f /\ \A b \in Page \ {pg} : hw'[b] = HwWithout(v)[b]
    BY <1>0, <2>1, EvictionFacts
  <2>3. Zeroed(pg, f, {v})
    BY <1>0, <2>1, <2>2, <2>4 DEF Zeroed
  <2>5. Granted(p, pg, f, {v})
    BY <1>g, <2>1, <2>4
  <2> QED BY <1>f, <2>3, <2>5
<1>3. CASE SwapIn(p, pg, f, e)
  <2>1. /\ hw' = HwWithout(v) /\ writable' = WritableWithout(v) /\ shadow' = shadow
        /\ pte[pg] \in Slot
        /\ swapping' = swapping \cup {ReadItem(pg)} /\ blocked' = blocked \cup {p}
        /\ dirty' = dirty \ {pg} /\ active' = active \ {v}
    BY <1>3, <1>e DEF SwapIn, SwappedOut, ReadItem
  <2>3. Loading(p, pg, {v})
    BY <1>k, <2>1 DEF Loading
  <2>4. Granted(p, pg, f, {v})
    BY <1>g, <2>1
  <2> QED BY <1>f, <2>3, <2>4
<1> QED BY <1>0, <1>2, <1>3

\* The dirty page v is sent to the swap file as item i; p waits for it.
SentOut(p, v, i) ==
  /\ p \notin blocked /\ panic = "no" /\ panic' = panic
  /\ v.page \in Page /\ v.page \in dirty /\ pte[v.page] \in Frame
  /\ i.page = v.page /\ i.slot \in Slot /\ i.dir = "out" /\ i.initiator = p
  /\ i.process_deleted = FALSE /\ i.data = mem[pte[v.page]]
  /\ v.slot # None => i.slot = v.slot
  /\ v.slot = None => i.slot \notin swap_used
  /\ swapping' = swapping \cup {i} /\ active' = active \ {v} /\ blocked' = blocked \cup {p}
  /\ hw'[v.page] = None
  /\ \A b \in Page : hw'[b] \in {hw[b], None}
  /\ \A b \in Page : (\A j \in active : j.page # b) => hw'[b] = hw[b]
  /\ writable' \subseteq writable
  /\ UNCHANGED <<pte, mem, dirty, disk, shadow>>

\* A fault that finds a dirty page sends it out.
LEMMA DirtyPageSentOut ==
  ASSUME Inv, NEW p \in Proc, NEW pg \in Pages(p), NEW a \in Access,
         NEW v \in active, NEW s \in Slot, FaultSwappingOut(p, pg, a, v, s)
  PROVE  \E i : SentOut(p, v, i)
<1> DEFINE i == [page |-> v.page, slot |-> s, dir |-> "out", to_swap |-> Batches,
                 initiator |-> p, process_deleted |-> FALSE, data |-> mem[pte[v.page]]]
<1>1. /\ swapping' = swapping \cup {i} /\ active' = active \ {v}
      /\ hw' = HwWithout(v) /\ writable' = WritableWithout(v)
      /\ blocked' = blocked \cup {p} /\ v.page \in dirty
      /\ UNCHANGED <<mem, pte, dirty, disk, shadow, panic>>
      /\ p \notin blocked /\ panic = "no"
      /\ s = v.slot \/ (v.slot = None /\ s \notin swap_used)
  BY DEF FaultSwappingOut, Evicting, SwapEntryFor, PageFault, MayAccess, QueueWithout,
         frameVars, tableVars
<1>2. /\ i.page = v.page /\ i.slot = s /\ i.dir = "out" /\ i.initiator = p
      /\ i.process_deleted = FALSE /\ i.data = mem[pte[v.page]]
  OBVIOUS
<1>3. SentOut(p, v, i)
  <2> HIDE DEF i
  <2> QED BY <1>1, <1>2, EvictionFacts, UnmapsQueuedOnly, StoreAssumption DEF SentOut
<1> QED BY <1>3

\* What is left of transfer i, now j, once p has given up the pages in range.
Cancelled(i, j, p, range, nilled) ==
  /\ j.page = i.page /\ j.slot = i.slot /\ j.dir = i.dir
  /\ j.to_swap = i.to_swap /\ j.data = i.data
  /\ j.process_deleted <=> i.process_deleted \/ i.page \in range
  /\ j.initiator = IF i.initiator = p /\ i.page \in nilled THEN None ELSE i.initiator

\* p gives up the pages in range, none of which is mapped any more.
Given(p, range, nilled) ==
  /\ range \subseteq Page
  /\ \A j \in swapping' : \E i \in swapping : Cancelled(i, j, p, range, nilled)
  /\ \A i \in swapping : \E j \in swapping' : Cancelled(i, j, p, range, nilled)
  /\ \A i : i \in active' <=> i \in active /\ i.page \notin range
  /\ \A s : s \in swap_used' <=> /\ s \in swap_used
                                 /\ \A b \in range : s # pte[b]
                                 /\ \A i \in active : i.page \in range => s # i.slot
  /\ \A b \in Page : pte'[b] = IF b \in range THEN None ELSE pte[b]
  /\ dirty' = dirty \ range
  /\ \A b \in Page : hw'[b] = IF owner[b] = p THEN None ELSE hw[b]
  /\ \A b \in range : owner[b] = p
  /\ writable' \subseteq writable
  /\ UNCHANGED <<mem, disk, shadow, panic>>

\* pager_free after pager_unmap_all gives back the pages of the range.
LEMMA FreeGives ==
  ASSUME Inv, StackTop = {}, NEW p \in Proc, NEW range \in SUBSET Pages(p), NEW nilled,
         pager_unmap_all(p), pager_free(p, range, nilled), UNCHANGED <<mem, disk, shadow, panic>>
  PROVE  Given(p, range, nilled)
<1> DEFINE mine == {i \in active : i.page \in range}
           Cancel(i) == [i EXCEPT !.process_deleted = @ \/ i.page \in range,
                                  !.initiator = IF @ = p /\ i.page \in nilled THEN None ELSE @]
<1>1. /\ swap_used' = swap_used \ ({pte[pg] : pg \in range} \cup {i.slot : i \in mine})
      /\ pte' = [pg \in Page |-> IF pg \in range THEN None ELSE pte[pg]]
      /\ dirty' = dirty \ range
      /\ active' = active \ mine
      /\ swapping' = {Cancel(i) : i \in swapping}
  BY DEF pager_free, EntriesOf
<1>2. range \subseteq Page /\ \A b \in range : owner[b] = p
  BY DEF Pages
<1>3. \A i \in swapping : Cancelled(i, Cancel(i), p, range, nilled)
  <2>1. \A i \in swapping : i \in SwapItem
    BY DEF Inv, TypeOK
  <2>2. SUFFICES ASSUME NEW i \in swapping, i \in SwapItem
                 PROVE  Cancelled(i, Cancel(i), p, range, nilled)
    BY <2>1
  <2> QED BY <2>2 DEF SwapItem, Cancelled
<1>4. \A b \in Page : hw'[b] = IF owner[b] = p THEN None ELSE hw[b]
  BY UnmapFacts
<1>5. writable' \subseteq writable
  BY DEF pager_unmap_all
<1>6. \A s : s \in swap_used' <=> /\ s \in swap_used
                                 /\ \A b \in range : s # pte[b]
                                 /\ \A i \in active : i.page \in range => s # i.slot
  BY <1>1
<1>7. \A i : i \in active' <=> i \in active /\ i.page \notin range
  BY <1>1
<1>8. /\ \A j \in swapping' : \E i \in swapping : Cancelled(i, j, p, range, nilled)
      /\ \A i \in swapping : \E j \in swapping' : Cancelled(i, j, p, range, nilled)
  <2> HIDE DEF Cancel
  <2> QED BY <1>1, <1>3
<1>9. \A b \in Page : pte'[b] = IF b \in range THEN None ELSE pte[b]
  BY <1>1
<1> QED BY <1>1, <1>2, <1>4, <1>5, <1>6, <1>7, <1>8, <1>9 DEF Given

\* start_process gives back the heap that p was loaded through.
LEMMA StartGives ==
  ASSUME Inv, StackTop = {}, NEW p \in Proc, start_process(p)
  PROVE  /\ Given(p, Pages(p) \cap Heap, Heap) /\ p \notin blocked /\ blocked' = blocked
         /\ p \in Startable
<1>1. Pages(p) \cap Heap \in SUBSET Pages(p)
  OBVIOUS
<1> QED BY <1>1, FreeGives DEF start_process

\* delete_process gives back every page.
LEMMA DeleteGives ==
  ASSUME Inv, StackTop = {}, NEW p \in Proc, delete_process(p)
  PROVE  Given(p, Pages(p), Page) /\ blocked' = blocked \ {p} /\ p \in Killable
<1>1. Pages(p) \in SUBSET Pages(p)
  OBVIOUS
<1> QED BY <1>1, FreeGives DEF delete_process

-----------------------------------------------------------------------------
(***************************************************************************)
(* The image of a clean page.                                              *)
(***************************************************************************)

\* A page being written is still dirty, and the batches read so far of a page being
\* read are those of its image: this is what makes a page clean again when it is
\* queued at the end of its transfer.
ImageInv ==
  /\ CleanPagesHaveImage
  /\ \A i \in Live : i.dir = "out" => i.page \in dirty
  /\ \A i \in Live : i.dir = "in" /\ i.to_swap > 0 => i.data = disk[i.slot]

\* ImageInv holds at the start.
LEMMA InitImage == Init => ImageInv
  BY DEF Init, ImageInv, CleanPagesHaveImage, Live, is_referenced

\* the frames and swap entries named by the queues are those of their pages alone
LEMMA Sharing ==
  ASSUME Inv
  PROVE  /\ \A i \in active : i.page \in Page /\ pte[i.page] \in Frame /\ i.slot \in Slot \cup {None}
         /\ \A i \in Live : i \in swapping /\ i.page \in Page /\ pte[i.page] \in Frame /\ i.slot \in Slot
         /\ \A i \in active, j \in Live : i.page # j.page
         /\ \A i, j \in Live : i.page = j.page => i = j
         /\ \A i, j \in active : i.page = j.page => i = j
         /\ \A i \in active, j \in swapping : j.slot # i.slot
         /\ \A i, j \in swapping : j.slot = i.slot => j = i
         /\ \A b, c \in Page : pte[b] \in Frame /\ pte[b] = pte[c] => b = c
         /\ \A b \in Page : hw[b] # None => hw[b] = pte[b] /\ pte[b] \in Frame
         /\ \A b \in Page, j \in swapping : pte[b] # j.slot
<1>1. /\ \A i \in active : i.page \in Page /\ pte[i.page] \in Frame /\ i.slot \in Slot \cup {None}
      /\ \A i \in Live : i \in swapping /\ i.page \in Page /\ pte[i.page] \in Frame /\ i.slot \in Slot
      /\ \A i \in active, j \in Live : i.page # j.page
      /\ \A i, j \in Live : i.page = j.page => i = j
      /\ \A i, j \in active : i.page = j.page => i = j
  BY DEF Inv, TypeOK, QueuesMatchTables, Resident, ActiveItem, SwapItem, Live
<1>2. \A j \in swapping : j.slot \in Slot
  BY DEF Inv, TypeOK, SwapItem
<1>3. /\ \A i \in active, j \in swapping : j.slot # i.slot
      /\ \A i, j \in swapping : j.slot = i.slot => j = i
      /\ \A b \in Page, j \in swapping : pte[b] # j.slot
  BY <1>2, StoreAssumption DEF Inv, SwapEntriesExclusive, SwappedOut
<1>4. \A b, c \in Page : pte[b] \in Frame /\ pte[b] = pte[c] => b = c
  BY DEF Inv, FrameConservation, Resident
<1>5. \A b \in Page : hw[b] # None => hw[b] = pte[b] /\ pte[b] \in Frame
  BY DEF Inv, TypeOK, MappingsAgree, is_referenced
<1> QED BY <1>1, <1>3, <1>4, <1>5

\* A granted frame keeps ImageInv.
LEMMA GrantImage ==
  ASSUME Inv, ImageInv, NEW p, NEW pg, NEW f \in Frame, NEW gone \in SUBSET active,
         Granted(p, pg, f, gone), Zeroed(pg, f, gone) \/ Loading(p, pg, gone)
  PROVE  ImageInv'
<1>1. \A b \in Page \ {pg} : b \in dirty <=> b \in dirty'
  BY DEF Zeroed, Loading
<1>2. \A b \in Page : b \in writable' /\ hw'[b] # None => b \in dirty'
  <2> SUFFICES ASSUME NEW b \in Page, b \in writable', hw'[b] # None PROVE b \in dirty'
    OBVIOUS
  <2>1. b # pg
    BY DEF Zeroed, Loading
  <2>2. hw[b] # None /\ b \in writable
    BY <2>1 DEF Granted
  <2> QED BY <1>1, <2>1, <2>2 DEF ImageInv, CleanPagesHaveImage, is_referenced
<1>3. ASSUME NEW i \in active', i.page \notin dirty'
      PROVE  i.slot # None /\ disk'[i.slot] = mem'[pte'[i.page]]
  <2>1. i \in active \ gone
    BY <1>3 DEF Zeroed, Loading
  <2>2. i.page \in Page /\ i.page # pg /\ pte[i.page] \in Frame
    BY <2>1, Sharing DEF Granted, Resident
  <2>3. pte'[i.page] = pte[i.page] /\ pte'[i.page] # f
    BY <2>1, <2>2, Sharing DEF Granted
  <2>4. i.slot # None /\ disk[i.slot] = mem[pte[i.page]]
    BY <1>1, <1>3, <2>1, <2>2 DEF ImageInv, CleanPagesHaveImage
  <2> QED BY <2>2, <2>3, <2>4 DEF Granted, Inv, TypeOK
<1>4. \A i \in Live : i.page \in Page /\ i.page # pg
  BY Sharing DEF Granted, Resident
<1>5. \A i \in Live' : i \in Live \/ (i.dir = "in" /\ i.to_swap = 0)
  BY DEF Zeroed, Loading, ReadItem, Live
<1>6. /\ \A i \in Live' : i.dir = "out" => i.page \in dirty'
      /\ \A i \in Live' : i.dir = "in" /\ i.to_swap > 0 => i.data = disk'[i.slot]
  BY <1>1, <1>4, <1>5 DEF ImageInv, Granted
<1> QED BY <1>2, <1>3, <1>6 DEF ImageInv, CleanPagesHaveImage, is_referenced

\* A page sent out keeps ImageInv.
LEMMA SentOutImage ==
  ASSUME Inv, ImageInv, NEW p, NEW v \in active, NEW i, SentOut(p, v, i)
  PROVE  ImageInv'
<1>1. CleanPagesHaveImage'
  BY DEF ImageInv, CleanPagesHaveImage, is_referenced, SentOut
<1>2. Live' = Live \cup {i}
  BY DEF Live, SentOut
<1> QED BY <1>1, <1>2 DEF ImageInv, SentOut

\* The end of a swap-out keeps ImageInv.
LEMMA WriteImage ==
  ASSUME Inv, ImageInv, NEW i \in swapping, swap_write_callback(i)
  PROVE  ImageInv'
<1>1. /\ UNCHANGED <<hw, writable, mem, shadow, panic>> /\ i.dir = "out"
      /\ SwapWriteBatch(i) \/ SwapWriteDone(i) \/ SwapWriteAbandoned(i)
  BY DEF swap_write_callback, hwVars
<1>2. i.slot \in Slot /\ i.page \in Page
  BY DEF Inv, TypeOK, SwapItem
<1>3. \A s \in Slot : s # i.slot => disk'[s] = disk[s]
  BY <1>1, <1>2 DEF Inv, TypeOK, SwapWriteBatch, SwapWriteDone, SwapWriteAbandoned
<1>4. CASE SwapWriteBatch(i)
  <2> DEFINE j == [i EXCEPT !.to_swap = @ - 1]
  <2>1. swapping' = (swapping \ {i}) \cup {j} /\ UNCHANGED <<pte, dirty, active>>
    BY <1>4 DEF SwapWriteBatch
  <2>2. /\ j.page = i.page /\ j.slot = i.slot /\ j.dir = i.dir
        /\ j.process_deleted = i.process_deleted
    BY DEF Inv, TypeOK, SwapItem
  <2> HIDE DEF j
  <2>3. CleanPagesHaveImage'
    BY <1>1, <1>3, <2>1, Sharing DEF ImageInv, CleanPagesHaveImage, is_referenced
  <2>4. \A k \in Live' : (k \in Live /\ k # i) \/ (k = j /\ i \in Live)
    BY <2>1, <2>2 DEF Live
  <2> QED BY <1>1, <1>3, <2>1, <2>2, <2>3, <2>4, Sharing DEF ImageInv
<1>5. CASE SwapWriteDone(i) /\ i.process_deleted
  <2>1. swapping' = swapping \ {i} /\ UNCHANGED <<pte, dirty, active>>
    BY <1>5 DEF SwapWriteDone
  <2>3. CleanPagesHaveImage'
    BY <1>1, <1>3, <2>1, Sharing DEF ImageInv, CleanPagesHaveImage, is_referenced
  <2>4. \A k \in Live' : (k \in Live /\ k # i)
    BY <2>1 DEF Live
  <2> QED BY <1>3, <2>1, <2>3, <2>4, Sharing DEF ImageInv
<1>6. CASE SwapWriteDone(i) /\ ~i.process_deleted
  <2>1. /\ swapping' = swapping \ {i} /\ active' = active /\ dirty' = dirty \ {i.page}
        /\ pte' = [pte EXCEPT ![i.page] = i.slot] /\ hw[i.page] = None
    BY <1>6 DEF SwapWriteDone, ReleaseFrame, Untouched, is_referenced
  <2>2. i \in Live
    BY <1>6 DEF Live
  <2>3. \A k \in active : k.page # i.page /\ pte'[k.page] = pte[k.page]
    BY <2>1, <2>2, Sharing DEF Inv, TypeOK
  <2>4. CleanPagesHaveImage'
    BY <1>1, <1>3, <2>1, <2>3, Sharing DEF ImageInv, CleanPagesHaveImage, is_referenced
  <2>5. \A k \in Live' : k \in Live /\ k # i
    BY <2>1 DEF Live
  <2> QED BY <1>3, <2>1, <2>2, <2>4, <2>5, Sharing DEF ImageInv
<1>7. CASE SwapWriteAbandoned(i)
  <2>1. /\ swapping' = swapping \ {i} /\ UNCHANGED <<pte, dirty>>
        /\ active' = IF i.process_deleted THEN active
                     ELSE active \cup {[page |-> i.page, slot |-> i.slot]}
    BY <1>7 DEF SwapWriteAbandoned, Requeue
  <2>2. \A k \in active' : k \in active \/ k.page \in dirty
    BY <1>1, <2>1 DEF ImageInv, Live
  <2>3. CleanPagesHaveImage'
    BY <1>1, <1>3, <2>1, <2>2, Sharing DEF ImageInv, CleanPagesHaveImage, is_referenced
  <2>4. \A k \in Live' : k \in Live /\ k # i
    BY <2>1 DEF Live
  <2> QED BY <1>3, <2>1, <2>3, <2>4, Sharing DEF ImageInv
<1> QED BY <1>1, <1>4, <1>5, <1>6, <1>7

\* What the last read of a page leaves in its frame is its image.
LEMMA ReadGivesImage ==
  ASSUME Inv, ImageInv, NEW i \in swapping, i.dir = "in", ~i.process_deleted
  PROVE  Mix(i.to_swap = 0, i.data, disk[i.slot]) = disk[i.slot]
<1>1. i \in Live /\ i.to_swap \in Nat
  BY DEF Live, Inv, TypeOK, SwapItem
<1> QED BY <1>1 DEF ImageInv, Mix

\* The end of a swap-in keeps ImageInv.
LEMMA ReadImage ==
  ASSUME Inv, ImageInv, NEW i \in swapping, swap_read_callback(i)
  PROVE  ImageInv'
<1>1. /\ UNCHANGED <<pte, dirty, hw, writable, disk, shadow, panic>> /\ i.dir = "in"
      /\ SwapReadCancelled(i) \/ SwapReadBatch(i) \/ SwapReadDone(i)
  BY DEF swap_read_callback, hwVars, tableVars
<1>2. i.slot \in Slot /\ i.page \in Page
  BY DEF Inv, TypeOK, SwapItem
<1>m. \A g \in Frame : ~i.process_deleted /\ g # pte[i.page] => mem'[g] = mem[g]
  BY <1>1 DEF Inv, TypeOK, SwapReadCancelled, SwapReadBatch, SwapReadDone
<1>3. ~i.process_deleted => \A k \in active : pte[k.page] # pte[i.page]
  BY <1>2, Sharing DEF Live
<1>4. CASE SwapReadCancelled(i)
  <2>1. swapping' = swapping \ {i} /\ UNCHANGED <<active, mem>>
    BY <1>4 DEF SwapReadCancelled
  <2>2. CleanPagesHaveImage'
    BY <1>1, <2>1 DEF ImageInv, CleanPagesHaveImage, is_referenced
  <2>3. \A k \in Live' : k \in Live
    BY <2>1 DEF Live
  <2> QED BY <1>1, <2>2, <2>3 DEF ImageInv
<1>5. CASE SwapReadBatch(i)
  <2> DEFINE x == Mix(i.to_swap = 0, i.data, disk[i.slot])
             j == [i EXCEPT !.to_swap = @ + 1, !.data = x]
  <2>1. swapping' = (swapping \ {i}) \cup {j} /\ active' = active /\ ~i.process_deleted
    BY <1>5 DEF SwapReadBatch
  <2>2. j.dir = "in" /\ j.slot = i.slot /\ j.data = x
    BY <1>1 DEF Inv, TypeOK, SwapItem
  <2>3. x = disk[i.slot]
    BY <1>1, <2>1, ReadGivesImage
  <2> HIDE DEF j, x
  <2>4. CleanPagesHaveImage'
    BY <1>1, <1>m, <1>3, <2>1, Sharing DEF ImageInv, CleanPagesHaveImage, is_referenced
  <2>5. \A k \in Live' : k \in Live \/ k = j
    BY <2>1 DEF Live
  <2> QED BY <1>1, <2>2, <2>3, <2>4, <2>5 DEF ImageInv
<1>6. CASE SwapReadDone(i)
  <2> DEFINE x == Mix(i.to_swap = 0, i.data, disk[i.slot])
             k == [page |-> i.page, slot |-> i.slot]
  <2>1. /\ swapping' = swapping \ {i} /\ active' = active \cup {k} /\ ~i.process_deleted
        /\ mem' = [mem EXCEPT ![pte[i.page]] = x]
    BY <1>6 DEF SwapReadDone, Requeue
  <2>2. k.page = i.page /\ k.slot = i.slot
    OBVIOUS
  <2>3. x = disk[i.slot]
    BY <1>1, <2>1, ReadGivesImage
  <2>4. mem'[pte[i.page]] = x
    BY <2>1, Sharing DEF Live, Inv, TypeOK
  <2> HIDE DEF k, x
  <2>5. CleanPagesHaveImage'
    BY <1>1, <1>2, <1>m, <1>3, <2>1, <2>2, <2>3, <2>4, Sharing, StoreAssumption
       DEF ImageInv, CleanPagesHaveImage, is_referenced
  <2>6. \A l \in Live' : l \in Live
    BY <2>1 DEF Live
  <2> QED BY <1>1, <2>5, <2>6 DEF ImageInv
<1> QED BY <1>1, <1>4, <1>5, <1>6

\* Giving pages back keeps ImageInv.
LEMMA GivenImage ==
  ASSUME Inv, ImageInv, NEW p, NEW range, NEW nilled, Given(p, range, nilled)
  PROVE  ImageInv'
<1>1. \A i \in active' : /\ i \in active /\ i.page \in Page /\ i.page \notin range
                         /\ pte'[i.page] = pte[i.page]
  BY Sharing DEF Given
<1>2. CleanPagesHaveImage'
  <2>1. \A b \in Page : hw'[b] # None /\ b \in writable' =>
          hw[b] # None /\ b \in writable /\ b \notin range
    BY DEF Given
  <2> QED BY <1>1, <2>1 DEF ImageInv, CleanPagesHaveImage, is_referenced, Given
<1>3. \A j \in Live' : \E i \in Live : Cancelled(i, j, p, range, nilled) /\ i.page \notin range
  BY DEF Given, Live, Cancelled
<1> QED BY <1>2, <1>3 DEF ImageInv, Given, Cancelled

\* A page fault keeps ImageInv.
LEMMA FaultImage ==
  ASSUME Inv, ImageInv, NEW p \in Proc, Fault(p)
  PROVE  ImageInv'
<1> SUFFICES ASSUME NEW pg \in Pages(p), NEW a \in Access, pager(p, pg, a)
             PROVE  ImageInv'
  BY DEF Fault
<1>1. CASE MapResident(p, pg, a)
  <2> USE <1>1 DEF MapResident, DirtyMapped, frameVars, queueVars
  <2>1. pg \in Page
    BY FaultFacts
  <2>2. dirty \subseteq dirty' /\ UNCHANGED <<active, swapping, mem, pte, disk>>
    OBVIOUS
  <2>3. \A b \in Page : hw'[b] # None /\ b \in writable' => b \in dirty'
    BY <2>1 DEF ImageInv, CleanPagesHaveImage, is_referenced, Inv, TypeOK
  <2> HIDE <1>1 DEF MapResident, DirtyMapped
  <2> QED BY <2>2, <2>3 DEF ImageInv, CleanPagesHaveImage, is_referenced, Live
<1>2. CASE FaultWithFreeFrame(p, pg, a)
  BY <1>2, FreeFrameGrants, GrantImage
<1>3. CASE FaultOutOfFrames(p, pg, a)
  BY <1>3 DEF FaultOutOfFrames, ImageInv, CleanPagesHaveImage, is_referenced, Live,
              frameVars, tableVars, hwVars, queueVars
<1>4. ASSUME NEW v \in active, NEW s \in Slot, FaultEvictingClean(p, pg, a, v, s)
      PROVE  ImageInv'
  <2>1. {v} \in SUBSET active
    OBVIOUS
  <2> QED BY <1>4, <2>1, CleanFrameGrants, GrantImage
<1>5. ASSUME NEW v \in active, NEW s \in Slot, FaultSwappingOut(p, pg, a, v, s)
      PROVE  ImageInv'
  BY <1>5, DirtyPageSentOut, SentOutImage
<1>6. ASSUME NEW v \in active, FaultOutOfSwap(p, pg, a, v) PROVE ImageInv'
  <2>1. /\ active' \subseteq active /\ hw' = HwWithout(v) /\ writable' = WritableWithout(v)
        /\ UNCHANGED <<mem, pte, dirty, swapping, disk>>
    BY <1>6 DEF FaultOutOfSwap, QueueWithout, frameVars, tableVars
  <2>2. \A b \in Page : hw'[b] # None /\ b \in writable' => hw[b] # None /\ b \in writable
    BY <2>1, EvictionFacts, UnmapsQueuedOnly
  <2> QED BY <2>1, <2>2 DEF ImageInv, CleanPagesHaveImage, is_referenced, Live
<1> QED BY <1>1, <1>2, <1>3, <1>4, <1>5, <1>6 DEF pager

\* A thread that runs keeps ImageInv.
LEMMA UserImage ==
  ASSUME Inv, ImageInv, NEW p \in Proc, User(p)
  PROVE  ImageInv'
<1>1. ASSUME NEW pg \in Pages(p), UserRead(p, pg) PROVE ImageInv'
  BY <1>1 DEF UserRead, ImageInv, CleanPagesHaveImage, is_referenced, Live,
              frameVars, tableVars, hwVars, queueVars
<1>2. ASSUME NEW pg \in Pages(p), NEW x \in Val, UserWrite(p, pg, x) PROVE ImageInv'
  <2>1. /\ UNCHANGED <<pte, dirty, hw, writable, active, swapping, disk>>
        /\ mem' = [mem EXCEPT ![hw[pg]] = x]
        /\ hw[pg] # None /\ pg \in writable /\ pg \in Page
    BY <1>2 DEF UserWrite, tableVars, hwVars, queueVars, Pages
  <2>2. pg \in dirty /\ hw[pg] = pte[pg]
    BY <2>1, Sharing DEF ImageInv, CleanPagesHaveImage, is_referenced
  <2>3. \A i \in active : i.page \notin dirty => mem'[pte[i.page]] = mem[pte[i.page]]
    BY <2>1, <2>2, Sharing DEF Inv, TypeOK
  <2> QED BY <2>1, <2>3 DEF ImageInv, CleanPagesHaveImage, is_referenced, Live
<1> QED BY <1>1, <1>2 DEF User

\* A system call keeps ImageInv.
LEMMA SyscallImage ==
  ASSUME Inv, ImageInv, StackTop = {}, NEW p \in Proc, Syscall(p)
  PROVE  ImageInv'
<1>1. CASE create_process(p)
  BY <1>1 DEF create_process, ImageInv, CleanPagesHaveImage, is_referenced, Live,
              frameVars, tableVars, hwVars, queueVars
<1>2. CASE start_process(p)
  BY <1>2, StartGives, GivenImage
<1>3. CASE delete_process(p)
  BY <1>3, DeleteGives, GivenImage
<1>4. CASE debug_flush(p)
  <2>1. /\ UNCHANGED <<pte, dirty, mem, active, swapping, disk>>
        /\ pager_unmap_all(p)
    BY <1>4 DEF debug_flush, frameVars, tableVars, queueVars
  <2>2. \A b \in Page : hw'[b] # None /\ b \in writable' => hw[b] # None /\ b \in writable
    BY <2>1, UnmapFacts DEF pager_unmap_all
  <2> QED BY <2>1, <2>2 DEF ImageInv, CleanPagesHaveImage, is_referenced, Live
<1> QED BY <1>1, <1>2, <1>3, <1>4 DEF Syscall

\* Every action keeps ImageInv.
LEMMA NextImage ==
  ASSUME Inv, ImageInv, StackTop = {}, [Next]_vars
  PROVE  ImageInv'
<1>1. CASE UNCHANGED vars
  BY <1>1 DEF vars, ImageInv, CleanPagesHaveImage, is_referenced, Live
<1>2. ASSUME NEW p \in Proc, User(p) \/ Fault(p) \/ Syscall(p) PROVE ImageInv'
  BY <1>2, UserImage, FaultImage, SyscallImage
<1>3. CASE NfsReply
  BY <1>3, WriteImage, ReadImage DEF NfsReply
<1>4. ASSUME NEW i \in swapping, SwapError(i) PROVE ImageInv'
  <2>1. /\ Live' \subseteq Live
        /\ UNCHANGED <<pte, dirty, mem, active, disk, hw, writable>>
    BY <1>4 DEF SwapError, Live, frameVars, tableVars, hwVars
  <2> QED BY <2>1 DEF ImageInv, CleanPagesHaveImage, is_referenced
<1> QED BY <1>1, <1>2, <1>3, <1>4 DEF Next, Halted

\* A page swap_out takes for clean, and whose frame it gives away without a write,
\* has its contents in the swap file.
THEOREM CleanPagesSafe == ASSUME StackTop = {} PROVE Spec => []CleanPagesHaveImage
<1>1. ImageInv /\ Inv /\ [Next]_vars => ImageInv'
  BY NextImage
<1>2. ImageInv => CleanPagesHaveImage
  BY DEF ImageInv
<1> QED BY <1>1, <1>2, InitImage, StructureSafety, PTL DEF Spec

-----------------------------------------------------------------------------
(***************************************************************************)
(* Who waits for which transfer.                                           *)
(***************************************************************************)

\* The thread that the end of transfer i restarts, if any.
Waiter(i) ==
  IF i.dir = "out" THEN i.initiator ELSE IF i.process_deleted THEN None ELSE owner[i.page]

\* It is stopped, and waits for this transfer alone.
WaitInv ==
  /\ \A i \in swapping : Waiter(i) # None => Waiter(i) \in blocked
  /\ \A i, j \in swapping : Waiter(i) = Waiter(j) /\ Waiter(i) # None => i = j

\* WaitInv holds at the start.
LEMMA InitWait == Init => WaitInv
  BY DEF Init, WaitInv

\* Transfers come to nothing or go on, and nobody is restarted who waits for one.
LEMMA WaitKept ==
  ASSUME WaitInv,
         \A j \in swapping' : \E i \in swapping : Waiter(j) \in {Waiter(i), None}
                                                /\ i.slot = j.slot,
         \A j, k \in swapping' : j.slot = k.slot => j = k,
         \A j \in swapping' : Waiter(j) # None /\ Waiter(j) \in blocked => Waiter(j) \in blocked'
  PROVE  WaitInv'
<1>1. \A j \in swapping' : Waiter(j)' = Waiter(j)
  BY DEF Waiter
<1> QED BY <1>1 DEF WaitInv

\* A thread that was not stopped starts to wait for item i.
LEMMA WaitBegins ==
  ASSUME WaitInv, NEW i, NEW p, Waiter(i) = p, p \notin blocked,
         swapping' = swapping \cup {i}, blocked' = blocked \cup {p}
  PROVE  WaitInv'
<1>1. \A j \in swapping' : Waiter(j)' = Waiter(j)
  BY DEF Waiter
<1> HIDE DEF Waiter
<1> QED BY <1>1 DEF WaitInv

\* WaitInv holds while nobody waits or wakes.
LEMMA WaitSame ==
  ASSUME WaitInv, UNCHANGED <<swapping, blocked>>
  PROVE  WaitInv'
  BY DEF WaitInv, Waiter

\* A page fault keeps WaitInv.
LEMMA FaultWait ==
  ASSUME Inv, WaitInv, NEW p \in Proc, Fault(p)
  PROVE  WaitInv'
<1> SUFFICES ASSUME NEW pg \in Pages(p), NEW a \in Access, pager(p, pg, a)
             PROVE  WaitInv'
  BY DEF Fault
<1>g. ASSUME NEW f, NEW gone, Granted(p, pg, f, gone),
             Zeroed(pg, f, gone) \/ Loading(p, pg, gone)
      PROVE  WaitInv'
  <2>1. CASE Zeroed(pg, f, gone)
    BY <2>1, WaitSame DEF Zeroed
  <2>2. CASE Loading(p, pg, gone)
    <3> DEFINE i == ReadItem(pg)
    <3>1. Waiter(i) = p
      BY <1>g DEF Waiter, ReadItem, Granted
    <3>2. /\ p \notin blocked /\ swapping' = swapping \cup {i} /\ blocked' = blocked \cup {p}
      BY <1>g, <2>2 DEF Granted, Loading
    <3> HIDE DEF i
    <3> QED BY <3>1, <3>2, WaitBegins
  <2> QED BY <1>g, <2>1, <2>2
<1>1. CASE MapResident(p, pg, a) \/ FaultOutOfFrames(p, pg, a)
  BY <1>1, WaitSame DEF MapResident, FaultOutOfFrames, queueVars
<1>2. CASE FaultWithFreeFrame(p, pg, a)
  BY <1>2, <1>g, FreeFrameGrants
<1>4. ASSUME NEW v \in active, NEW s \in Slot, FaultEvictingClean(p, pg, a, v, s)
      PROVE  WaitInv'
  BY <1>4, <1>g, CleanFrameGrants
<1>5. ASSUME NEW v \in active, NEW s \in Slot, FaultSwappingOut(p, pg, a, v, s)
      PROVE  WaitInv'
  <2>1. PICK i : SentOut(p, v, i)
    BY <1>5, DirtyPageSentOut
  <2> QED BY <2>1, WaitBegins DEF SentOut, Waiter
<1>6. ASSUME NEW v \in active, FaultOutOfSwap(p, pg, a, v) PROVE WaitInv'
  BY <1>6, WaitSame DEF FaultOutOfSwap
<1> QED BY <1>1, <1>2, <1>4, <1>5, <1>6 DEF pager

\* A transfer that goes on waits for the same thread; the others are not concerned
\* by the reply at the end of one.
LEMMA CallbackWait ==
  ASSUME Inv, WaitInv, NEW i \in swapping, swap_write_callback(i) \/ swap_read_callback(i)
  PROVE  WaitInv'
<1>i. i \in SwapItem
  BY DEF Inv, TypeOK
<1>s. \A j, k \in swapping : j.slot = k.slot => j = k
  BY Sharing
<1>1. ASSUME NEW j, swapping' = (swapping \ {i}) \cup {j}, blocked' = blocked,
             j.slot = i.slot, j.page = i.page, j.dir = i.dir, j.initiator = i.initiator,
             j.process_deleted = i.process_deleted
      PROVE  WaitInv'
  <2>1. Waiter(j) = Waiter(i)
    BY <1>1 DEF Waiter
  <2> HIDE DEF Waiter
  <2> QED BY <1>1, <1>s, <2>1, WaitKept
<1>2. ASSUME swapping' = swapping \ {i}, blocked' = blocked \/ blocked' = blocked \ {Waiter(i)}
      PROVE  WaitInv'
  <2>1. \A j \in swapping' : Waiter(j) # None => Waiter(j) # Waiter(i)
    BY <1>2 DEF WaitInv
  <2> HIDE DEF Waiter
  <2> QED BY <1>2, <1>s, <2>1, WaitKept
<1>3. CASE swap_write_callback(i)
  <2>1. i.dir = "out" /\ (SwapWriteBatch(i) \/ SwapWriteDone(i) \/ SwapWriteAbandoned(i))
    BY <1>3 DEF swap_write_callback
  <2>2. Waiter(i) = i.initiator
    BY <2>1 DEF Waiter
  <2>3. CASE SwapWriteBatch(i)
    <3> DEFINE j == [i EXCEPT !.to_swap = @ - 1]
    <3>1. swapping' = (swapping \ {i}) \cup {j} /\ blocked' = blocked
      BY <2>3 DEF SwapWriteBatch
    <3>2. /\ j.slot = i.slot /\ j.page = i.page /\ j.dir = i.dir /\ j.initiator = i.initiator
          /\ j.process_deleted = i.process_deleted
      BY <1>i DEF SwapItem
    <3> HIDE DEF j
    <3> QED BY <1>1, <3>1, <3>2
  <2>4. CASE SwapWriteDone(i) \/ SwapWriteAbandoned(i)
    BY <1>2, <2>2, <2>4 DEF SwapWriteDone, SwapWriteAbandoned, Reply
  <2> QED BY <2>1, <2>3, <2>4
<1>4. CASE swap_read_callback(i)
  <2>1. i.dir = "in" /\ (SwapReadCancelled(i) \/ SwapReadBatch(i) \/ SwapReadDone(i))
    BY <1>4 DEF swap_read_callback
  <2>3. CASE SwapReadBatch(i)
    <3> DEFINE x == Mix(i.to_swap = 0, i.data, disk[i.slot])
               j == [i EXCEPT !.to_swap = @ + 1, !.data = x]
    <3>1. swapping' = (swapping \ {i}) \cup {j} /\ blocked' = blocked
      BY <2>3 DEF SwapReadBatch
    <3>2. /\ j.slot = i.slot /\ j.page = i.page /\ j.dir = i.dir /\ j.initiator = i.initiator
          /\ j.process_deleted = i.process_deleted
      BY <1>i DEF SwapItem
    <3> HIDE DEF j
    <3> QED BY <1>1, <3>1, <3>2
  <2>4. CASE SwapReadCancelled(i)
    BY <1>2, <2>4 DEF SwapReadCancelled
  <2>5. CASE SwapReadDone(i)
    <3>1. Waiter(i) = owner[i.page]
      BY <2>1, <2>5 DEF Waiter, SwapReadDone
    <3> QED BY <1>2, <2>5, <3>1 DEF SwapReadDone, Reply
  <2> QED BY <2>1, <2>3, <2>4, <2>5
<1> QED BY <1>3, <1>4

\* Giving pages back keeps WaitInv.
LEMMA GivenWait ==
  ASSUME Inv, Inv', WaitInv, NEW p \in Proc, NEW range, NEW nilled, Given(p, range, nilled),
         \/ blocked' = blocked
         \/ blocked' = blocked \ {p} /\ range = Pages(p) /\ nilled = Page
  PROVE  WaitInv'
<1>1. \A j \in swapping' : \E i \in swapping : Waiter(j) \in {Waiter(i), None} /\ i.slot = j.slot
  BY DEF Given, Cancelled, Waiter
<1>2. \A j, k \in swapping' : j.slot = k.slot => j = k
  BY DEF Inv, SwapEntriesExclusive
<1>3. ASSUME range = Pages(p), nilled = Page, NEW j \in swapping' PROVE Waiter(j) # p
  <2>1. PICK i \in swapping : Cancelled(i, j, p, range, nilled)
    BY DEF Given
  <2>2. i.page \in Page /\ None # p /\ i.dir \in {"in", "out"}
    BY StoreAssumption DEF Inv, TypeOK, SwapItem
  <2> QED BY <1>3, <2>1, <2>2 DEF Cancelled, Waiter, Pages
<1> HIDE DEF Waiter
<1>4. \A j \in swapping' : Waiter(j) \in blocked => Waiter(j) \in blocked'
  BY <1>3
<1> QED BY <1>1, <1>2, <1>4, WaitKept

\* Every action keeps WaitInv.
LEMMA NextWait ==
  ASSUME Inv, Inv', WaitInv, StackTop = {}, [Next]_vars
  PROVE  WaitInv'
<1>1. CASE UNCHANGED vars
  BY <1>1, WaitSame DEF vars
<1>2. ASSUME NEW p \in Proc, User(p) PROVE WaitInv'
  BY <1>2, WaitSame DEF User, UserRead, UserWrite, queueVars
<1>3. ASSUME NEW p \in Proc, Fault(p) PROVE WaitInv'
  BY <1>3, FaultWait
<1>4. ASSUME NEW p \in Proc, create_process(p) \/ debug_flush(p) PROVE WaitInv'
  BY <1>4, WaitSame DEF create_process, debug_flush, queueVars, threadVars
<1>5. ASSUME NEW p \in Proc, start_process(p) PROVE WaitInv'
  BY <1>5, StartGives, GivenWait
<1>6. ASSUME NEW p \in Proc, delete_process(p) PROVE WaitInv'
  BY <1>6, DeleteGives, GivenWait
<1>7. CASE NfsReply
  BY <1>7, CallbackWait DEF NfsReply
<1>8. ASSUME NEW i \in swapping, SwapError(i) PROVE WaitInv'
  <2>1. swapping' \subseteq swapping /\ blocked' = blocked
    BY <1>8 DEF SwapError, threadVars
  <2> QED BY <2>1 DEF WaitInv, Waiter
<1> QED BY <1>1, <1>2, <1>3, <1>4, <1>5, <1>6, <1>7, <1>8 DEF Next, Halted, Syscall

-----------------------------------------------------------------------------
(***************************************************************************)
(* What a process reads.                                                   *)
(***************************************************************************)

\* Where the contents of page pg are: in its frame, unless it is being read, in its
\* swap entry if it is swapped out or being read, and in what is being written of it
\* if nobody can have touched it since.  Nobody can touch a page that is being read:
\* the only thread that could is the one that waits for it.
ReadInv ==
  /\ \A i \in Live : i.dir = "in" => hw[i.page] = None /\ disk[i.slot] = shadow[i.page]
  /\ \A i \in Live : i.dir = "out" /\ hw[i.page] = None => i.data = shadow[i.page]
  /\ \A pg \in Page : Resident(pg) /\ (\A i \in Live : i.dir = "in" => i.page # pg)
                        => mem[pte[pg]] = shadow[pg]
  /\ \A pg \in Page : SwappedOut(pg) => disk[pte[pg]] = shadow[pg]

\* ReadInv holds at the start.
LEMMA InitRead == Init => ReadInv
  BY StoreAssumption DEF Init, ReadInv, Live, Resident, SwappedOut

\* The thread that runs has no page in an incoming transfer.
LEMMA RunnerNotRead ==
  ASSUME Inv, WaitInv, NEW pg \in Page, owner[pg] \notin blocked
  PROVE  \A i \in Live : i.dir = "in" => i.page # pg
<1> SUFFICES ASSUME NEW i \in Live, i.dir = "in", i.page = pg PROVE FALSE
  OBVIOUS
<1>1. i \in swapping /\ Waiter(i) = owner[pg]
  BY DEF Live, Waiter
<1>2. owner[pg] # None
  BY PageAssumption, StoreAssumption
<1> QED BY <1>1, <1>2 DEF WaitInv

\* A granted frame keeps ReadInv.
LEMMA GrantRead ==
  ASSUME Inv, ImageInv, WaitInv, ReadInv,
         NEW p, NEW pg, NEW f \in Frame, NEW gone \in SUBSET active,
         Granted(p, pg, f, gone), Zeroed(pg, f, gone) \/ Loading(p, pg, gone)
  PROVE  ReadInv'
<1>1. \A i \in Live : i.page \in Page /\ i.page # pg
  BY Sharing DEF Granted, Resident
<1>2. \A i \in Live : i.dir = "in" => hw'[i.page] = None /\ disk'[i.slot] = shadow'[i.page]
  BY <1>1 DEF ReadInv, Granted, Zeroed, Loading, Inv, TypeOK
<1>3. \A i \in Live : i.dir = "out" /\ hw'[i.page] = None => i.data = shadow'[i.page]
  <2>1. \A i \in Live : hw'[i.page] = hw[i.page]
    BY <1>1, Sharing DEF Granted
  <2> QED BY <1>1, <2>1 DEF ReadInv, Zeroed, Loading, Inv, TypeOK
<1>4. \A b \in Page \ {pg} : shadow'[b] = shadow[b]
  BY DEF Zeroed, Loading, Inv, TypeOK
<1>5. ASSUME NEW b \in Page \ {pg}, SwappedOut(b)' PROVE disk'[pte'[b]] = shadow'[b]
  <2>1. CASE \E v \in gone : v.page = b
    <3>1. PICK v \in gone : v.page = b
      BY <2>1
    <3>2. v \in active /\ v.page \notin dirty /\ (v.slot # None => pte'[b] = v.slot)
      BY <3>1 DEF Granted
    <3>3. v.slot # None /\ disk[v.slot] = mem[pte[b]]
      BY <3>1, <3>2 DEF ImageInv, CleanPagesHaveImage
    <3>4. mem[pte[b]] = shadow[b]
      BY <3>1, <3>2, Sharing DEF ReadInv, Resident
    <3> QED BY <1>4, <3>2, <3>3, <3>4 DEF Granted
  <2>2. CASE \A v \in gone : v.page # b
    BY <1>4, <1>5, <2>2 DEF Granted, ReadInv, SwappedOut
  <2> QED BY <2>1, <2>2
<1>6. ASSUME NEW b \in Page \ {pg}, Resident(b)', \A i \in Live : i.dir = "in" => i.page # b
      PROVE  mem'[pte'[b]] = shadow'[b]
  <2>1. \A v \in gone : v.page # b
    BY <1>6, StoreAssumption DEF Granted, Resident
  <2>2. pte'[b] = pte[b] /\ pte'[b] # f
    BY <2>1 DEF Granted
  <2>3. mem'[pte'[b]] = mem[pte[b]]
    BY <1>6, <2>2 DEF Granted, Resident, Inv, TypeOK
  <2> QED BY <1>4, <1>6, <2>2, <2>3 DEF ReadInv, Resident
<1>7. pte'[pg] = f /\ ~SwappedOut(pg)'
  BY StoreAssumption DEF Granted, SwappedOut
<1>8. CASE Zeroed(pg, f, gone)
  <2>1. Live' = Live
    BY <1>8 DEF Live, Zeroed
  <2>2. mem'[f] = Zero /\ shadow'[pg] = Zero
    BY <1>8 DEF Granted, Zeroed, Inv, TypeOK
  <2>3. \A b \in Page : SwappedOut(b)' => disk'[pte'[b]] = shadow'[b]
    BY <1>5, <1>7
  <2>4. \A b \in Page : Resident(b)' /\ (\A i \in Live : i.dir = "in" => i.page # b)
                          => mem'[pte'[b]] = shadow'[b]
    BY <1>6, <1>7, <2>2
  <2> QED BY <1>2, <1>3, <2>1, <2>3, <2>4 DEF ReadInv
<1>9. CASE Loading(p, pg, gone)
  <2> DEFINE k == ReadItem(pg)
  <2>1. k.page = pg /\ k.slot = pte[pg] /\ k.dir = "in" /\ k.process_deleted = FALSE
    BY DEF ReadItem
  <2>2. swapping' = swapping \cup {k} /\ pte[pg] \in Slot /\ hw'[pg] = None /\ shadow' = shadow
    BY <1>9 DEF Loading
  <2> HIDE DEF k
  <2>3. Live' = Live \cup {k}
    BY <2>1, <2>2 DEF Live
  <2>4. disk'[pte[pg]] = shadow'[pg]
    BY <2>2 DEF ReadInv, SwappedOut, Granted
  <2>5. \A b \in Page : SwappedOut(b)' => disk'[pte'[b]] = shadow'[b]
    BY <1>5, <1>7
  <2>6. \A b \in Page : Resident(b)' /\ (\A i \in Live' : i.dir = "in" => i.page # b)
                          => mem'[pte'[b]] = shadow'[b]
    BY <1>6, <2>1, <2>3
  <2> QED BY <1>2, <1>3, <2>1, <2>2, <2>3, <2>4, <2>5, <2>6 DEF ReadInv
<1> QED BY <1>8, <1>9

\* A page sent out keeps ReadInv.
LEMMA SentOutRead ==
  ASSUME Inv, ReadInv, NEW p, NEW v \in active, NEW i, SentOut(p, v, i)
  PROVE  ReadInv'
<1>1. Live' = Live \cup {i}
  BY DEF Live, SentOut
<1>2. \A j \in Live : hw'[j.page] = hw[j.page]
  BY Sharing DEF SentOut
<1>3. mem[pte[v.page]] = shadow[v.page]
  BY Sharing DEF ReadInv, Resident
<1>4. UNCHANGED <<pte, mem, disk, shadow>> /\ i.dir = "out" /\ i.page = v.page
      /\ i.data = mem[pte[v.page]]
  BY DEF SentOut
<1> QED BY <1>1, <1>2, <1>3, <1>4 DEF ReadInv, Resident, SwappedOut

\* The end of a swap-out keeps ReadInv.
LEMMA WriteRead ==
  ASSUME Inv, ReadInv, NEW i \in swapping, swap_write_callback(i)
  PROVE  ReadInv'
<1>1. /\ UNCHANGED <<hw, mem, shadow>> /\ i.dir = "out"
      /\ SwapWriteBatch(i) \/ SwapWriteDone(i) \/ SwapWriteAbandoned(i)
  BY DEF swap_write_callback, hwVars
<1>2. i.slot \in Slot /\ i.page \in Page
  BY DEF Inv, TypeOK, SwapItem
<1>3. \A s \in Slot : s # i.slot => disk'[s] = disk[s]
  BY <1>1, <1>2 DEF Inv, TypeOK, SwapWriteBatch, SwapWriteDone, SwapWriteAbandoned
<1>4. \A pg \in Page : SwappedOut(pg) => disk'[pte[pg]] = shadow[pg]
  BY <1>3, Sharing DEF ReadInv, SwappedOut
<1>5. \A k \in Live : k.dir = "in" => disk'[k.slot] = shadow[k.page]
  BY <1>1, <1>3, Sharing DEF ReadInv
<1>6. ASSUME NEW j, swapping' = (swapping \ {i}) \cup {j}, pte' = pte,
             j.page = i.page, j.dir = i.dir, j.data = i.data, j.process_deleted = i.process_deleted
      PROVE  ReadInv'
  <2>1. \A k \in Live' : k \in Live \/ (k = j /\ i \in Live)
    BY <1>6 DEF Live
  <2>2. \A k \in Live : k.dir = "in" => k \in Live'
    BY <1>1, <1>6 DEF Live
  <2> QED BY <1>1, <1>4, <1>5, <1>6, <2>1, <2>2 DEF ReadInv, Resident, SwappedOut
<1>7. ASSUME swapping' = swapping \ {i}, pte' = pte PROVE ReadInv'
  <2>1. \A k \in Live' : k \in Live
    BY <1>7 DEF Live
  <2>2. \A k \in Live : k.dir = "in" => k \in Live'
    BY <1>1, <1>7 DEF Live
  <2> QED BY <1>1, <1>4, <1>5, <1>7, <2>1, <2>2 DEF ReadInv, Resident, SwappedOut
<1>8. CASE SwapWriteBatch(i)
  <2> DEFINE j == [i EXCEPT !.to_swap = @ - 1]
  <2>1. swapping' = (swapping \ {i}) \cup {j} /\ pte' = pte
    BY <1>8 DEF SwapWriteBatch
  <2>2. /\ j.page = i.page /\ j.dir = i.dir /\ j.data = i.data
        /\ j.process_deleted = i.process_deleted
    BY DEF Inv, TypeOK, SwapItem
  <2> HIDE DEF j
  <2> QED BY <1>6, <2>1, <2>2
<1>9. CASE SwapWriteAbandoned(i) \/ (SwapWriteDone(i) /\ i.process_deleted)
  BY <1>7, <1>9 DEF SwapWriteAbandoned, SwapWriteDone
<1>10. CASE SwapWriteDone(i) /\ ~i.process_deleted
  <2>1. /\ swapping' = swapping \ {i} /\ hw[i.page] = None
        /\ pte' = [pte EXCEPT ![i.page] = i.slot] /\ disk' = [disk EXCEPT ![i.slot] = i.data]
    BY <1>10 DEF SwapWriteDone, ReleaseFrame, Untouched, is_referenced
  <2>2. i \in Live
    BY <1>10 DEF Live
  <2>3. disk'[i.slot] = shadow[i.page]
    BY <1>1, <1>2, <2>1, <2>2 DEF ReadInv, Inv, TypeOK
  <2>4. pte'[i.page] = i.slot /\ \A b \in Page \ {i.page} : pte'[b] = pte[b]
    BY <1>2, <2>1 DEF Inv, TypeOK
  <2>5. \A k \in Live' : k \in Live
    BY <2>1 DEF Live
  <2>6. \A k \in Live : k.dir = "in" => k \in Live'
    BY <1>1, <2>1 DEF Live
  <2>7. \A b \in Page : Resident(b)' => Resident(b) /\ b # i.page
    BY <1>2, <2>4, StoreAssumption DEF Resident
  <2>8. \A b \in Page : SwappedOut(b)' => disk'[pte'[b]] = shadow[b]
    BY <1>4, <2>3, <2>4 DEF SwappedOut
  <2> QED BY <1>1, <1>5, <2>4, <2>5, <2>6, <2>7, <2>8 DEF ReadInv
<1> QED BY <1>1, <1>8, <1>9, <1>10

\* The end of a swap-in keeps ReadInv.
LEMMA ReadRead ==
  ASSUME Inv, ImageInv, ReadInv, NEW i \in swapping, swap_read_callback(i)
  PROVE  ReadInv'
<1>1. /\ UNCHANGED <<pte, hw, disk, shadow>> /\ i.dir = "in"
      /\ SwapReadCancelled(i) \/ SwapReadBatch(i) \/ SwapReadDone(i)
  BY DEF swap_read_callback, hwVars, tableVars
<1>2. i.slot \in Slot /\ i.page \in Page
  BY DEF Inv, TypeOK, SwapItem
<1>m. \A g \in Frame : ~i.process_deleted /\ g # pte[i.page] => mem'[g] = mem[g]
  BY <1>1 DEF Inv, TypeOK, SwapReadCancelled, SwapReadBatch, SwapReadDone
<1>3. ~i.process_deleted => \A b \in Page \ {i.page} : Resident(b) => mem'[pte[b]] = mem[pte[b]]
  BY <1>2, <1>m, Sharing DEF Live, Resident
<1>4. CASE SwapReadCancelled(i)
  <2>1. Live' = Live /\ mem' = mem
    BY <1>4 DEF SwapReadCancelled, Live
  <2> QED BY <1>1, <2>1 DEF ReadInv, Resident, SwappedOut
<1>5. CASE SwapReadBatch(i)
  <2> DEFINE x == Mix(i.to_swap = 0, i.data, disk[i.slot])
             j == [i EXCEPT !.to_swap = @ + 1, !.data = x]
  <2>1. swapping' = (swapping \ {i}) \cup {j} /\ ~i.process_deleted
    BY <1>5 DEF SwapReadBatch
  <2>2. j.dir = "in" /\ j.slot = i.slot /\ j.page = i.page /\ j.process_deleted = i.process_deleted
    BY <1>1 DEF Inv, TypeOK, SwapItem
  <2> HIDE DEF j, x
  <2>3. i \in Live /\ Live' = (Live \ {i}) \cup {j}
    BY <2>1, <2>2 DEF Live
  <2>4. \A b \in Page : (\A k \in Live' : k.dir = "in" => k.page # b)
                          => b # i.page /\ \A k \in Live : k.dir = "in" => k.page # b
    BY <2>2, <2>3
  <2> QED BY <1>1, <1>3, <2>1, <2>2, <2>3, <2>4 DEF ReadInv, Resident, SwappedOut
<1>6. CASE SwapReadDone(i)
  <2> DEFINE x == Mix(i.to_swap = 0, i.data, disk[i.slot])
  <2>1. /\ swapping' = swapping \ {i} /\ ~i.process_deleted
        /\ mem' = [mem EXCEPT ![pte[i.page]] = x]
    BY <1>6 DEF SwapReadDone
  <2>2. i \in Live /\ Live' = Live \ {i} /\ pte[i.page] \in Frame
    BY <2>1, Sharing DEF Live
  <2>3. x = disk[i.slot]
    BY <1>1, <2>1, ReadGivesImage
  <2> HIDE DEF x
  <2>4. mem'[pte[i.page]] = shadow[i.page]
    BY <1>1, <2>1, <2>2, <2>3 DEF ReadInv, Inv, TypeOK
  <2>5. \A b \in Page \ {i.page} : (\A k \in Live' : k.dir = "in" => k.page # b)
                          => \A k \in Live : k.dir = "in" => k.page # b
    BY <2>2
  <2>6. \A b \in Page : Resident(b) /\ (\A k \in Live' : k.dir = "in" => k.page # b)
                          => mem'[pte[b]] = shadow[b]
    BY <1>3, <2>1, <2>4, <2>5 DEF ReadInv
  <2> QED BY <1>1, <2>2, <2>6 DEF ReadInv, Resident, SwappedOut
<1> QED BY <1>1, <1>4, <1>5, <1>6

\* The end of a process keeps ReadInv.
LEMMA DeleteRead ==
  ASSUME Inv, ReadInv, NEW p, NEW nilled, Given(p, Pages(p), nilled)
  PROVE  ReadInv'
<1>1. /\ \A j \in Live' : \E i \in Live : /\ Cancelled(i, j, p, Pages(p), nilled)
                                          /\ i.page \notin Pages(p)
      /\ \A i \in Live : i.page \notin Pages(p) =>
           \E j \in Live' : Cancelled(i, j, p, Pages(p), nilled)
  BY DEF Given, Live, Cancelled
<1>2. \A b \in Page : /\ (Resident(b)' => b \notin Pages(p) /\ Resident(b) /\ pte'[b] = pte[b])
                      /\ (SwappedOut(b)' => SwappedOut(b) /\ pte'[b] = pte[b])
  BY StoreAssumption DEF Given, Resident, SwappedOut
<1>3. \A b \in Page \ Pages(p) : hw'[b] = hw[b]
  BY DEF Given, Pages
<1>4. UNCHANGED <<mem, disk, shadow>>
  BY DEF Given
<1>5. \A j \in Live' : j.dir = "in" => hw'[j.page] = None /\ disk'[j.slot] = shadow'[j.page]
  BY <1>1, <1>3, <1>4, Sharing DEF ReadInv, Cancelled
<1>6. \A j \in Live' : j.dir = "out" /\ hw'[j.page] = None => j.data = shadow'[j.page]
  BY <1>1, <1>3, <1>4, Sharing DEF ReadInv, Cancelled
<1>7. ASSUME NEW b \in Page, Resident(b)', \A j \in Live' : j.dir = "in" => j.page # b
      PROVE  mem'[pte'[b]] = shadow'[b]
  <2>1. \A i \in Live : i.dir = "in" => i.page # b
    BY <1>1, <1>2, <1>7 DEF Cancelled
  <2> QED BY <1>2, <1>4, <1>7, <2>1 DEF ReadInv
<1>8. \A b \in Page : SwappedOut(b)' => disk'[pte'[b]] = shadow'[b]
  BY <1>2, <1>4 DEF ReadInv
<1> QED BY <1>5, <1>6, <1>7, <1>8 DEF ReadInv

\* A thread that runs keeps ReadInv.
LEMMA UserRunRead ==
  ASSUME Inv, WaitInv, ReadInv, NEW p \in Proc, User(p)
  PROVE  ReadInv'
<1>1. ASSUME NEW pg \in Pages(p), UserRead(p, pg) PROVE ReadInv'
  BY <1>1 DEF UserRead, ReadInv, Resident, SwappedOut, Live,
              frameVars, tableVars, hwVars, queueVars
<1>2. ASSUME NEW pg \in Pages(p), NEW x \in Val, UserWrite(p, pg, x) PROVE ReadInv'
  <2>1. /\ UNCHANGED <<pte, hw, swapping, disk>>
        /\ mem' = [mem EXCEPT ![hw[pg]] = x] /\ shadow' = [shadow EXCEPT ![pg] = x]
        /\ hw[pg] # None /\ pg \in Page
    BY <1>2 DEF UserWrite, tableVars, hwVars, queueVars, Pages
  <2>2. hw[pg] = pte[pg] /\ pte[pg] \in Frame
    BY <2>1, Sharing
  <2>3. mem'[pte[pg]] = shadow'[pg]
    BY <2>1, <2>2 DEF Inv, TypeOK
  <2>4. \A b \in Page \ {pg} : shadow'[b] = shadow[b] /\ (Resident(b) => mem'[pte[b]] = mem[pte[b]])
    BY <2>1, <2>2, Sharing DEF Inv, TypeOK, Resident
  <2>5. Live' = Live /\ ~SwappedOut(pg)
    BY <2>1, <2>2, StoreAssumption DEF Live, SwappedOut
  <2>6. \A i \in Live : i.dir = "in" => i.page # pg
    BY <2>1 DEF ReadInv
  <2> QED BY <2>1, <2>3, <2>4, <2>5, <2>6, Sharing DEF ReadInv, Resident, SwappedOut
<1> QED BY <1>1, <1>2 DEF User

\* A page fault keeps ReadInv.
LEMMA FaultRead ==
  ASSUME Inv, ImageInv, WaitInv, ReadInv, NEW p \in Proc, Fault(p)
  PROVE  ReadInv'
<1> SUFFICES ASSUME NEW pg \in Pages(p), NEW a \in Access, pager(p, pg, a)
             PROVE  ReadInv'
  BY DEF Fault
<1>1. CASE MapResident(p, pg, a)
  <2>1. /\ UNCHANGED <<pte, mem, swapping, disk, shadow>> /\ hw' = [hw EXCEPT ![pg] = pte[pg]]
        /\ pg \in Page /\ owner[pg] \notin blocked /\ pte[pg] \in Frame
    BY <1>1, FaultFacts DEF MapResident, frameVars, queueVars, PageFault, MayAccess, Resident
  <2>2. \A i \in Live : i.dir = "in" => i.page # pg
    BY <2>1, RunnerNotRead
  <2>3. \A b \in Page \ {pg} : hw'[b] = hw[b]
    BY <2>1 DEF Inv, TypeOK
  <2>4. hw'[pg] # None
    BY <2>1, StoreAssumption DEF Inv, TypeOK
  <2> QED BY <2>1, <2>2, <2>3, <2>4, Sharing DEF ReadInv, Resident, SwappedOut, Live
<1>2. CASE FaultWithFreeFrame(p, pg, a)
  BY <1>2, FreeFrameGrants, GrantRead
<1>3. CASE FaultOutOfFrames(p, pg, a)
  BY <1>3 DEF FaultOutOfFrames, ReadInv, Resident, SwappedOut, Live,
              frameVars, tableVars, hwVars, queueVars
<1>4. ASSUME NEW v \in active, NEW s \in Slot, FaultEvictingClean(p, pg, a, v, s)
      PROVE  ReadInv'
  <2>1. {v} \in SUBSET active
    OBVIOUS
  <2> QED BY <1>4, <2>1, CleanFrameGrants, GrantRead
<1>5. ASSUME NEW v \in active, NEW s \in Slot, FaultSwappingOut(p, pg, a, v, s)
      PROVE  ReadInv'
  BY <1>5, DirtyPageSentOut, SentOutRead
<1>6. ASSUME NEW v \in active, FaultOutOfSwap(p, pg, a, v) PROVE ReadInv'
  <2>1. /\ hw' = HwWithout(v)
        /\ UNCHANGED <<mem, pte, swapping, disk, shadow>>
    BY <1>6 DEF FaultOutOfSwap, frameVars, tableVars
  <2>2. \A j \in Live : hw'[j.page] = hw[j.page]
    BY <2>1, Sharing, UnmapsQueuedOnly
  <2> QED BY <2>1, <2>2 DEF ReadInv, Resident, SwappedOut, Live
<1> QED BY <1>1, <1>2, <1>3, <1>4, <1>5, <1>6 DEF pager

\* Every action keeps ReadInv.
LEMMA NextRead ==
  ASSUME Inv, ImageInv, WaitInv, ReadInv, StackTop = {}, Startable = {}, Flushers = {},
         [Next]_vars
  PROVE  ReadInv'
<1>1. CASE UNCHANGED vars
  BY <1>1 DEF vars, ReadInv, Resident, SwappedOut, Live
<1>2. ASSUME NEW p \in Proc, User(p) \/ Fault(p) PROVE ReadInv'
  BY <1>2, UserRunRead, FaultRead
<1>3. ASSUME NEW p \in Proc, Syscall(p) PROVE ReadInv'
  <2>1. CASE create_process(p)
    BY <2>1 DEF create_process, ReadInv, Resident, SwappedOut, Live,
                frameVars, tableVars, hwVars, queueVars
  <2>2. CASE delete_process(p)
    BY <2>2, DeleteGives, DeleteRead
  <2> QED BY <1>3, <2>1, <2>2 DEF Syscall, start_process, debug_flush
<1>4. CASE NfsReply
  BY <1>4, WriteRead, ReadRead DEF NfsReply
<1>5. ASSUME NEW i \in swapping, SwapError(i) PROVE ReadInv'
  <2>1. /\ Live' \subseteq Live /\ \A k \in Live : k.dir = "in" => k \in Live'
        /\ UNCHANGED <<pte, mem, disk, hw, shadow>>
    BY <1>5 DEF SwapError, Live, frameVars, tableVars, hwVars
  <2> QED BY <2>1 DEF ReadInv, Resident, SwappedOut
<1> QED BY <1>1, <1>2, <1>3, <1>4, <1>5 DEF Next, Halted

\* A process reads what it last wrote, through any evictions, transfers and deletions
\* of others.  Nobody may call start_process or sos_debug_flush: they unmap pages that
\* are being written, which the callback then takes for pages nobody has touched (the
\* run paging_lost_update).
THEOREM ReadsSafe ==
  ASSUME StackTop = {}, Startable = {}, Flushers = {}
  PROVE  Spec => []ReadsSeeLastWrite
<1> DEFINE I == ImageInv /\ WaitInv /\ ReadInv
<1>1. Init => I
  BY InitImage, InitWait, InitRead
<1>2. Inv /\ Inv' /\ I /\ [Next]_vars => I'
  BY NextImage, NextWait, NextRead
<1>3. Inv /\ I => ReadsSeeLastWrite
  BY Sharing DEF ReadInv, ReadsSeeLastWrite, is_referenced, Resident
<1> QED BY <1>1, <1>2, <1>3, StructureSafety, PTL DEF Spec

-----------------------------------------------------------------------------
(***************************************************************************)
(* The swap file.                                                          *)
(***************************************************************************)

\* Only the replies to writes change the swap file, each its own entry.
LEMMA DiskSteps ==
  ASSUME Inv, [Next]_vars, NEW s \in Slot, disk'[s] # disk[s]
  PROVE  \E i \in swapping : i.slot = s
<1>1. ASSUME disk' = disk PROVE FALSE
  BY <1>1
<1>2. CASE UNCHANGED vars
  BY <1>1, <1>2 DEF vars
<1>3. ASSUME NEW p \in Proc, User(p) PROVE FALSE
  BY <1>1, <1>3 DEF User, UserRead, UserWrite
<1>4. ASSUME NEW p \in Proc, Fault(p) PROVE FALSE
  <2>1. disk' = disk
    BY <1>4 DEF Fault, pager, MapResident, FaultWithFreeFrame, FaultOutOfFrames,
                FaultEvictingClean, FaultSwappingOut, FaultOutOfSwap, FirstReference, SwapIn
  <2> QED BY <1>1, <2>1
<1>5. ASSUME NEW p \in Proc, Syscall(p) PROVE FALSE
  BY <1>1, <1>5 DEF Syscall, create_process, start_process, delete_process, debug_flush
<1>6. ASSUME NEW i \in swapping, swap_write_callback(i) PROVE i.slot = s
  <2>1. \E x : disk' = [disk EXCEPT ![i.slot] = x]
    BY <1>6 DEF swap_write_callback, SwapWriteBatch, SwapWriteDone, SwapWriteAbandoned
  <2> QED BY <2>1 DEF Inv, TypeOK
<1>7. ASSUME NEW i \in swapping, swap_read_callback(i) PROVE FALSE
  BY <1>1, <1>7 DEF swap_read_callback
<1>8. ASSUME NEW i \in swapping, SwapError(i) PROVE FALSE
  BY <1>1, <1>8 DEF SwapError
<1> QED BY <1>2, <1>3, <1>4, <1>5, <1>6, <1>7, <1>8 DEF Next, Halted, NfsReply

\* The image of a page swapped out never changes: no late reply to a write reaches it.
THEOREM ImagesStable == ASSUME StackTop = {} PROVE Spec => SwapImageStable
<1> DEFINE A == \A pg \in Page : SwappedOut(pg) /\ pte'[pg] = pte[pg]
                                   => disk'[pte[pg]] = disk[pte[pg]]
<1>1. Inv /\ [Next]_vars => A
  BY DiskSteps, Sharing DEF SwappedOut
<1>2. Inv /\ [Next]_vars => [A]_vars
  BY <1>1
<1> QED BY <1>2, StructureSafety, PTL DEF Spec, SwapImageStable

\* Entry s loses its last holder and stays marked although it is not in a
\* transfer of a page given up.
Leaked(s) ==
  /\ s \in swap_used /\ Held(s) /\ ~Held(s)'
  /\ s \in swap_used' /\ panic' = "no"
  /\ \A i \in swapping : i.slot = s => ~i.process_deleted

\* No entry leaks where the holders stay.
LEMMA HeldSame ==
  ASSUME NEW s, Leaked(s), UNCHANGED <<pte, active, swapping>>
  PROVE  FALSE
  BY DEF Leaked, Held

\* A page fault leaks no swap entry.
LEMMA FaultKeepsEntries ==
  ASSUME Inv, NEW p \in Proc, NEW s \in Slot, Fault(p), Leaked(s)
  PROVE  FALSE
<1> SUFFICES ASSUME NEW pg \in Pages(p), NEW a \in Access, pager(p, pg, a)
             PROVE  FALSE
  BY DEF Fault
<1>g. ASSUME NEW f \in Frame, NEW gone \in SUBSET active, Granted(p, pg, f, gone),
             Zeroed(pg, f, gone) \/ Loading(p, pg, gone)
      PROVE  FALSE
  <2>1. \A i \in active \cup swapping : i.slot # s
    <3>1. \A i \in active \ gone : i \in active'
      BY <1>g DEF Zeroed, Loading
    <3>2. swapping \subseteq swapping'
      BY <1>g DEF Zeroed, Loading
    <3>3. \A i \in gone : i.slot = s => i.page \in Page /\ pte'[i.page] = s
      BY <1>g, StoreAssumption DEF Granted
    <3> QED BY <3>1, <3>2, <3>3 DEF Leaked, Held
  <2>2. PICK b \in Page : pte[b] = s
    BY <2>1 DEF Leaked, Held
  <2>3. CASE b = pg
    <3>1. ReadItem(pg) \in swapping' /\ ReadItem(pg).slot = s
      BY <1>g, <2>2, <2>3, StoreAssumption DEF Zeroed, Loading, ReadItem
    <3> QED BY <3>1 DEF Leaked, Held
  <2>4. CASE b # pg
    <3>1. \A v \in gone : v.page # b
      BY <2>2, Sharing, StoreAssumption
    <3> QED BY <1>g, <2>2, <2>4, <3>1 DEF Granted, Leaked, Held
  <2> QED BY <2>3, <2>4
<1>1. CASE MapResident(p, pg, a)
  BY <1>1, HeldSame DEF MapResident, queueVars
<1>2. CASE FaultWithFreeFrame(p, pg, a)
  BY <1>2, <1>g, FreeFrameGrants
<1>3. CASE FaultOutOfFrames(p, pg, a) \/ \E v \in active : FaultOutOfSwap(p, pg, a, v)
  BY <1>3 DEF FaultOutOfFrames, FaultOutOfSwap, Leaked
<1>4. ASSUME NEW v \in active, NEW t \in Slot, FaultEvictingClean(p, pg, a, v, t)
      PROVE  FALSE
  <2>1. {v} \in SUBSET active
    OBVIOUS
  <2> QED BY <1>4, <1>g, <2>1, CleanFrameGrants
<1>5. ASSUME NEW v \in active, NEW t \in Slot, FaultSwappingOut(p, pg, a, v, t)
      PROVE  FALSE
  <2>1. PICK i : SentOut(p, v, i)
    BY <1>5, DirtyPageSentOut
  <2>2. v.slot = s => i \in swapping' /\ i.slot = s
    BY <2>1, StoreAssumption DEF SentOut
  <2> QED BY <2>1, <2>2 DEF SentOut, Leaked, Held
<1> QED BY <1>1, <1>2, <1>3, <1>4, <1>5 DEF pager

\* The end of a transfer leaks no swap entry.
LEMMA CallbackKeepsEntries ==
  ASSUME Inv, NEW s \in Slot, NEW i \in swapping,
         swap_write_callback(i) \/ swap_read_callback(i), Leaked(s)
  PROVE  FALSE
<1>i. i \in SwapItem /\ i.page \in Page
  BY DEF Inv, TypeOK, SwapItem
<1>1. ASSUME NEW j \in swapping', j.slot = i.slot, UNCHANGED <<pte, active>>,
             swapping \ {i} \subseteq swapping'
      PROVE  FALSE
  BY <1>1 DEF Leaked, Held
<1>2. ASSUME swapping' = swapping \ {i}, i.process_deleted, UNCHANGED <<pte, active>>
      PROVE  FALSE
  BY <1>2 DEF Leaked, Held
<1>3. ASSUME swapping' = swapping \ {i}, NEW k \in active', k.slot = i.slot, pte' = pte,
             active \subseteq active'
      PROVE  FALSE
  BY <1>3 DEF Leaked, Held
<1>4. CASE SwapWriteBatch(i)
  <2> DEFINE j == [i EXCEPT !.to_swap = @ - 1]
  <2>1. swapping' = (swapping \ {i}) \cup {j} /\ UNCHANGED <<pte, active>>
    BY <1>4 DEF SwapWriteBatch
  <2>2. j.slot = i.slot
    BY <1>i DEF SwapItem
  <2> HIDE DEF j
  <2> QED BY <1>1, <2>1, <2>2
<1>5. CASE SwapWriteDone(i)
  <2>1. CASE i.process_deleted
    BY <1>2, <1>5, <2>1 DEF SwapWriteDone
  <2>2. CASE ~i.process_deleted
    <3>1. /\ pte' = [pte EXCEPT ![i.page] = i.slot] /\ swapping' = swapping \ {i}
          /\ active' = active
      BY <1>5, <2>2 DEF SwapWriteDone, ReleaseFrame
    <3>2. pte[i.page] \in Frame
      BY <2>2, Sharing DEF Live
    <3>3. \A b \in Page : pte[b] = s => pte'[b] = s
      BY <3>1, <3>2, StoreAssumption DEF Inv, TypeOK
    <3>4. pte'[i.page] = i.slot
      BY <1>i, <3>1 DEF Inv, TypeOK
    <3> QED BY <1>i, <3>1, <3>3, <3>4 DEF Leaked, Held
  <2> QED BY <2>1, <2>2
<1>6. CASE SwapWriteAbandoned(i)
  <2>1. swapping' = swapping \ {i} /\ pte' = pte
    BY <1>6 DEF SwapWriteAbandoned
  <2>2. CASE i.process_deleted
    BY <1>2, <1>6, <2>1, <2>2 DEF SwapWriteAbandoned
  <2>3. CASE ~i.process_deleted
    <3> DEFINE k == [page |-> i.page, slot |-> i.slot]
    <3>1. active' = active \cup {k} /\ k.slot = i.slot
      BY <1>6, <2>3 DEF SwapWriteAbandoned, Requeue
    <3> HIDE DEF k
    <3> QED BY <1>3, <2>1, <3>1
  <2> QED BY <2>2, <2>3
<1>7. ASSUME swap_read_callback(i) PROVE FALSE
  <2>1. pte' = pte
    BY <1>7 DEF swap_read_callback, tableVars
  <2>2. CASE SwapReadCancelled(i)
    BY <1>2, <2>1, <2>2 DEF SwapReadCancelled
  <2>3. CASE SwapReadBatch(i)
    <3> DEFINE x == Mix(i.to_swap = 0, i.data, disk[i.slot])
               j == [i EXCEPT !.to_swap = @ + 1, !.data = x]
    <3>1. swapping' = (swapping \ {i}) \cup {j} /\ active' = active
      BY <2>3 DEF SwapReadBatch
    <3>2. j.slot = i.slot
      BY <1>i DEF SwapItem
    <3> HIDE DEF j
    <3> QED BY <1>1, <2>1, <3>1, <3>2
  <2>4. CASE SwapReadDone(i)
    <3> DEFINE k == [page |-> i.page, slot |-> i.slot]
    <3>1. active' = active \cup {k} /\ k.slot = i.slot /\ swapping' = swapping \ {i}
      BY <2>4 DEF SwapReadDone, Requeue
    <3> HIDE DEF k
    <3> QED BY <1>3, <2>1, <3>1
  <2> QED BY <1>7, <2>2, <2>3, <2>4 DEF swap_read_callback
<1> QED BY <1>4, <1>5, <1>6, <1>7 DEF swap_write_callback

\* Giving pages back leaks no swap entry.
LEMMA GivenKeepsEntries ==
  ASSUME Inv, NEW s \in Slot, NEW p, NEW range, NEW nilled, Given(p, range, nilled), Leaked(s)
  PROVE  FALSE
<1>1. \A i \in swapping : i.slot # s
  BY DEF Given, Cancelled, Leaked, Held
<1>2. \A i \in active : i.slot # s
  BY DEF Given, Leaked, Held
<1>3. \A b \in Page : pte[b] # s
  BY DEF Given, Leaked, Held
<1> QED BY <1>1, <1>2, <1>3 DEF Leaked, Held

\* The swap file does not fill up: an entry is marked free in the very step in which
\* its last holder lets go of it, but for transfers of pages given up.
THEOREM EntriesSafe == ASSUME StackTop = {} PROVE Spec => EntriesReturned
<1> DEFINE A == \A s \in swap_used : Held(s) /\ ~Held(s)' =>
                  \/ s \notin swap_used'
                  \/ \E i \in swapping : i.slot = s /\ i.process_deleted
                  \/ panic' # "no"
<1>1. ASSUME Inv, [Next]_vars, NEW s \in Slot, Leaked(s) PROVE FALSE
  <2>1. CASE UNCHANGED vars
    BY <1>1, <2>1, HeldSame DEF vars
  <2>2. ASSUME NEW p \in Proc, User(p) PROVE FALSE
    BY <1>1, <2>2, HeldSame DEF User, UserRead, UserWrite, tableVars, queueVars
  <2>3. ASSUME NEW p \in Proc, Fault(p) PROVE FALSE
    BY <1>1, <2>3, FaultKeepsEntries
  <2>4. ASSUME NEW p \in Proc, Syscall(p) PROVE FALSE
    <3>1. CASE create_process(p) \/ debug_flush(p)
      BY <1>1, <3>1, HeldSame DEF create_process, debug_flush, tableVars, queueVars
    <3>2. CASE start_process(p)
      BY <1>1, <3>2, StartGives, GivenKeepsEntries
    <3>3. CASE delete_process(p)
      BY <1>1, <3>3, DeleteGives, GivenKeepsEntries
    <3> QED BY <2>4, <3>1, <3>2, <3>3 DEF Syscall
  <2>5. CASE NfsReply
    BY <1>1, <2>5, CallbackKeepsEntries DEF NfsReply
  <2>6. ASSUME NEW i \in swapping, SwapError(i) PROVE FALSE
    BY <1>1, <2>6 DEF SwapError, Leaked
  <2> QED BY <1>1, <2>1, <2>2, <2>3, <2>4, <2>5, <2>6 DEF Next, Halted
<1>2. Inv /\ [Next]_vars => [A]_vars
  BY <1>1 DEF Leaked, Inv, TypeOK
<1> QED BY <1>2, StructureSafety, PTL DEF Spec, EntriesReturned

-----------------------------------------------------------------------------
(***************************************************************************)
(* Frames in transfer.                                                     *)
(***************************************************************************)

\* Every page in transfer has a thread that waits for it, when nobody is deleted.
LiveAwaited == \A i \in Live : Waiter(i) \in Proc

\* Every action keeps LiveAwaited.
LEMMA NextAwaited ==
  ASSUME Inv, WaitInv, LiveAwaited, StackTop = {}, Killable = {}, [Next]_vars
  PROVE  LiveAwaited'
<1>w. \A j : Waiter(j)' = Waiter(j)
  BY DEF Waiter
<1>0. ASSUME swapping' \subseteq swapping PROVE LiveAwaited'
  BY <1>w, <1>0 DEF LiveAwaited, Live
<1>i. \A i \in swapping : i \in SwapItem
  BY DEF Inv, TypeOK
<1>1. CASE UNCHANGED vars
  BY <1>0, <1>1 DEF vars
<1>2. ASSUME NEW p \in Proc, User(p) PROVE LiveAwaited'
  BY <1>0, <1>2 DEF User, UserRead, UserWrite, queueVars
<1>3. ASSUME NEW p \in Proc, NEW pg \in Pages(p), NEW a \in Access, pager(p, pg, a)
      PROVE  LiveAwaited'
  <2>g. ASSUME NEW f, NEW gone, Granted(p, pg, f, gone),
               Zeroed(pg, f, gone) \/ Loading(p, pg, gone)
        PROVE  LiveAwaited'
    <3>1. Waiter(ReadItem(pg)) = p
      BY <2>g DEF Waiter, ReadItem, Granted
    <3>2. swapping' \subseteq swapping \cup {ReadItem(pg)}
      BY <2>g DEF Zeroed, Loading
    <3> HIDE DEF Waiter
    <3> QED BY <1>w, <3>1, <3>2 DEF LiveAwaited, Live
  <2>1. CASE MapResident(p, pg, a) \/ FaultOutOfFrames(p, pg, a)
    BY <1>0, <2>1 DEF MapResident, FaultOutOfFrames, queueVars
  <2>2. CASE FaultWithFreeFrame(p, pg, a)
    BY <2>2, <2>g, FreeFrameGrants
  <2>3. ASSUME NEW v \in active, NEW s \in Slot, FaultEvictingClean(p, pg, a, v, s)
        PROVE  LiveAwaited'
    BY <2>3, <2>g, CleanFrameGrants
  <2>4. ASSUME NEW v \in active, NEW s \in Slot, FaultSwappingOut(p, pg, a, v, s)
        PROVE  LiveAwaited'
    <3>1. PICK i : SentOut(p, v, i)
      BY <2>4, DirtyPageSentOut
    <3>2. swapping' = swapping \cup {i} /\ Waiter(i) = p
      BY <3>1 DEF SentOut, Waiter
    <3> QED BY <1>w, <3>2 DEF LiveAwaited, Live
  <2>5. ASSUME NEW v \in active, FaultOutOfSwap(p, pg, a, v) PROVE LiveAwaited'
    BY <1>0, <2>5 DEF FaultOutOfSwap
  <2> QED BY <1>3, <2>1, <2>2, <2>3, <2>4, <2>5 DEF pager
<1>4. ASSUME NEW p \in Proc, Syscall(p) PROVE LiveAwaited'
  <2>1. CASE create_process(p) \/ debug_flush(p)
    BY <1>0, <2>1 DEF create_process, debug_flush, queueVars
  <2>2. CASE start_process(p)
    <3>1. /\ \A j \in swapping' : \E i \in swapping : Cancelled(i, j, p, Pages(p) \cap Heap, Heap)
          /\ p \notin blocked
      BY <2>2, StartGives DEF Given
    <3>2. ASSUME NEW j \in Live' PROVE Waiter(j) \in Proc
      <4>1. PICK i \in swapping : Cancelled(i, j, p, Pages(p) \cap Heap, Heap)
        BY <3>1, <3>2 DEF Live
      <4>2. i \in Live /\ ~j.process_deleted
        BY <3>2, <4>1 DEF Live, Cancelled
      <4>3. Waiter(i) \in Proc /\ Waiter(i) # p
        BY <3>1, <4>1, <4>2, StoreAssumption DEF LiveAwaited, WaitInv
      <4>4. i.dir \in {"in", "out"}
        BY <1>i, <4>1 DEF SwapItem
      <4> QED BY <4>1, <4>2, <4>3, <4>4 DEF Cancelled, Waiter, Live
    <3> QED BY <1>w, <3>2 DEF LiveAwaited
  <2> QED BY <1>4, <2>1, <2>2 DEF Syscall, delete_process
<1>5. ASSUME NEW i \in swapping, swap_write_callback(i) \/ swap_read_callback(i)
      PROVE  LiveAwaited'
  <2>1. ASSUME NEW j, swapping' = (swapping \ {i}) \cup {j},
               j.page = i.page, j.dir = i.dir, j.initiator = i.initiator,
               j.process_deleted = i.process_deleted
        PROVE  LiveAwaited'
    <3>1. Waiter(j) = Waiter(i)
      BY <2>1 DEF Waiter
    <3>2. \A k \in Live' : k \in Live \/ (k = j /\ i \in Live)
      BY <2>1 DEF Live
    <3> HIDE DEF Waiter
    <3> QED BY <1>w, <3>1, <3>2 DEF LiveAwaited
  <2>2. CASE SwapWriteBatch(i)
    <3> DEFINE j == [i EXCEPT !.to_swap = @ - 1]
    <3>1. swapping' = (swapping \ {i}) \cup {j}
      BY <2>2 DEF SwapWriteBatch
    <3>2. /\ j.page = i.page /\ j.dir = i.dir /\ j.initiator = i.initiator
          /\ j.process_deleted = i.process_deleted
      BY <1>i DEF SwapItem
    <3> HIDE DEF j
    <3> QED BY <2>1, <3>1, <3>2
  <2>3. CASE SwapReadBatch(i)
    <3> DEFINE x == Mix(i.to_swap = 0, i.data, disk[i.slot])
               j == [i EXCEPT !.to_swap = @ + 1, !.data = x]
    <3>1. swapping' = (swapping \ {i}) \cup {j}
      BY <2>3 DEF SwapReadBatch
    <3>2. /\ j.page = i.page /\ j.dir = i.dir /\ j.initiator = i.initiator
          /\ j.process_deleted = i.process_deleted
      BY <1>i DEF SwapItem
    <3> HIDE DEF j
    <3> QED BY <2>1, <3>1, <3>2
  <2>4. CASE \/ SwapWriteDone(i) \/ SwapWriteAbandoned(i)
             \/ SwapReadCancelled(i) \/ SwapReadDone(i)
    BY <1>0, <2>4 DEF SwapWriteDone, SwapWriteAbandoned, SwapReadCancelled, SwapReadDone
  <2> QED BY <1>5, <2>2, <2>3, <2>4 DEF swap_write_callback, swap_read_callback
<1>6. ASSUME NEW i \in swapping, SwapError(i) PROVE LiveAwaited'
  BY <1>0, <1>6 DEF SwapError
<1> QED BY <1>1, <1>2, <1>3, <1>4, <1>5, <1>6 DEF Next, Halted, Fault, NfsReply

\* When nothing can be evicted, every frame holds IPC memory or a page in transfer,
\* for which another thread waits: there are too few frames.
LEMMA FramesHeld ==
  ASSUME Inv, WaitInv, LiveAwaited, NEW p \in Proc, p \notin blocked,
         panic = "no", free = {}, active = {},
         IsFiniteSet(Proc), IsFiniteSet(Ipc)
  PROVE  Cardinality(Frame) < Cardinality(Proc) + Cardinality(Ipc)
<1> DEFINE F1 == {f \in Frame : \E b \in Ipc : pte[b] = f}
           F2 == {f \in Frame : \E i \in Live : pte[i.page] = f}
           Others == Proc \ {p}
           ipc == [f \in F1 |-> CHOOSE b \in Ipc : pte[b] = f]
           item == [f \in F2 |-> CHOOSE i \in Live : pte[i.page] = f]
           who == [f \in F2 |-> Waiter(item[f])]
<1>1. Frame = F1 \cup F2
  <2>1. ASSUME NEW f \in Frame PROVE f \in F1 \/ f \in F2
    <3>1. PICK b \in Page : pte[b] = f
      BY DEF Inv, FrameConservation
    <3> QED BY <3>1 DEF Inv, QueuesMatchTables, Resident
  <2> QED BY <2>1
<1>2. \A f \in F1 : ipc[f] \in Ipc /\ pte[ipc[f]] = f
  OBVIOUS
<1>3. ipc \in Injection(F1, Ipc)
  <2>1. ipc \in [F1 -> Ipc]
    BY <1>2
  <2>2. \A f, g \in F1 : ipc[f] = ipc[g] => f = g
    BY <1>2
  <2> HIDE DEF ipc, F1
  <2> QED BY <2>1, <2>2 DEF Injection, IsInjective
<1>4. \A f \in F2 : item[f] \in Live /\ pte[item[f].page] = f
  OBVIOUS
<1>5. \A f \in F2 : Waiter(item[f]) \in Others
  <2> SUFFICES ASSUME NEW f \in F2 PROVE Waiter(item[f]) \in Others
    OBVIOUS
  <2> HIDE DEF item
  <2>1. item[f] \in swapping /\ Waiter(item[f]) \in Proc
    BY <1>4 DEF Live, LiveAwaited
  <2>2. Waiter(item[f]) \in blocked
    BY <2>1, StoreAssumption DEF WaitInv
  <2> QED BY <2>1, <2>2
<1>6. who \in Injection(F2, Others)
  <2>1. who \in [F2 -> Others]
    BY <1>5
  <2>2. ASSUME NEW f \in F2, NEW g \in F2, who[f] = who[g] PROVE f = g
    <3>1. Waiter(item[f]) = Waiter(item[g])
      BY <2>2
    <3> HIDE DEF item, who
    <3>2. item[f] \in swapping /\ item[g] \in swapping /\ Waiter(item[f]) # None
      BY <1>4, <1>5, StoreAssumption DEF Live
    <3>3. item[f] = item[g]
      BY <3>1, <3>2 DEF WaitInv
    <3> QED BY <1>4, <3>3
  <2> HIDE DEF who, F2, Others
  <2> QED BY <2>1, <2>2 DEF Injection, IsInjective
<1>7. IsFiniteSet(Others) /\ Cardinality(Others) = Cardinality(Proc) - 1
  BY FS_RemoveElement
<1> HIDE DEF F1, F2, Others, ipc, who, item
<1>8. IsFiniteSet(F1) /\ Cardinality(F1) <= Cardinality(Ipc)
  BY <1>3, FS_Injection
<1>9. IsFiniteSet(F2) /\ Cardinality(F2) <= Cardinality(Proc) - 1
  BY <1>6, <1>7, FS_Injection
<1>10. Cardinality(F1 \cup F2) = Cardinality(F1) + Cardinality(F2) - Cardinality(F1 \cap F2)
  BY <1>8, <1>9, FS_Union
<1>11. /\ Cardinality(F1) \in Nat /\ Cardinality(F2) \in Nat /\ Cardinality(F1 \cap F2) \in Nat
       /\ Cardinality(Proc) \in Nat /\ Cardinality(Ipc) \in Nat
  <2>1. IsFiniteSet(F1 \cap F2)
    BY <1>8, FS_Intersection
  <2> QED BY <1>8, <1>9, <2>1, FS_CardinalityType
<1> QED BY <1>1, <1>8, <1>9, <1>10, <1>11

\* As many frames as there are processes, besides the IPC memory, are enough: the
\* server never finds every frame in transfer. A transfer that outlives the process
\* it was begun for counts for nobody, hence Killable = {}.
THEOREM EvictionPossible ==
  ASSUME StackTop = {}, Killable = {}, IsFiniteSet(Proc), IsFiniteSet(Ipc),
         IsFiniteSet(Frame), Cardinality(Frame) >= Cardinality(Proc) + Cardinality(Ipc)
  PROVE  Spec => []AlwaysAPageToEvict
<1> DEFINE I == WaitInv /\ LiveAwaited /\ AlwaysAPageToEvict
<1>1. Init => I
  BY InitWait DEF Init, LiveAwaited, Live, AlwaysAPageToEvict
<1>2. ASSUME Inv, Inv', I, [Next]_vars PROVE I'
  <2>1. WaitInv' /\ LiveAwaited'
    BY <1>2, NextWait, NextAwaited
  <2>2. ASSUME NEW p \in Proc, NEW pg \in Pages(p), NEW a \in Access,
               FaultOutOfFrames(p, pg, a)
        PROVE  FALSE
    <3>1. p \notin blocked /\ panic = "no" /\ free = {} /\ active = {}
      BY <2>2 DEF FaultOutOfFrames, PageFault, MayAccess
    <3>2. Cardinality(Frame) < Cardinality(Proc) + Cardinality(Ipc)
      BY <1>2, <3>1, FramesHeld
    <3>3. Cardinality(Proc) \in Nat /\ Cardinality(Ipc) \in Nat /\ Cardinality(Frame) \in Nat
      BY FS_CardinalityType
    <3> QED BY <3>2, <3>3
  <2>3. panic' # "no_page"
    <3>1. CASE UNCHANGED vars
      BY <1>2, <3>1 DEF vars, AlwaysAPageToEvict
    <3>2. ASSUME NEW p \in Proc, User(p) \/ Syscall(p) PROVE panic' # "no_page"
      BY <1>2, <3>2 DEF User, UserRead, UserWrite, Syscall, create_process, start_process,
                        delete_process, debug_flush, AlwaysAPageToEvict
    <3>3. ASSUME NEW p \in Proc, NEW pg \in Pages(p), NEW a \in Access, pager(p, pg, a)
          PROVE  panic' # "no_page"
      <4>1. MapResident(p, pg, a) => panic' = panic
        BY DEF MapResident
      <4>2. FaultWithFreeFrame(p, pg, a) => panic' = panic
        BY DEF FaultWithFreeFrame, FirstReference, SwapIn
      <4>3. \A v, s : FaultEvictingClean(p, pg, a, v, s) => panic' = panic
        BY DEF FaultEvictingClean, FirstReference, SwapIn
      <4>4. \A v, s : FaultSwappingOut(p, pg, a, v, s) => panic' = panic
        BY DEF FaultSwappingOut
      <4>5. \A v : FaultOutOfSwap(p, pg, a, v) => panic' = "no_swap"
        BY DEF FaultOutOfSwap
      <4>6. panic' = panic \/ panic' = "no_swap"
        BY <2>2, <3>3, <4>1, <4>2, <4>3, <4>4, <4>5 DEF pager
      <4> QED BY <1>2, <4>6 DEF AlwaysAPageToEvict
    <3>4. CASE NfsReply
      BY <1>2, <3>4 DEF NfsReply, swap_write_callback, swap_read_callback, AlwaysAPageToEvict
    <3>5. ASSUME NEW i \in swapping, SwapError(i) PROVE panic' # "no_page"
      BY <3>5 DEF SwapError
    <3> QED BY <1>2, <3>1, <3>2, <3>3, <3>4, <3>5 DEF Next, Halted, Fault
  <2> QED BY <2>1, <2>3 DEF AlwaysAPageToEvict
<1>3. Inv /\ Inv' /\ I /\ [Next]_vars => I'
  BY <1>2
<1>4. I => AlwaysAPageToEvict
  OBVIOUS
<1> QED BY <1>1, <1>3, <1>4, StructureSafety, PTL DEF Spec
=============================================================================
