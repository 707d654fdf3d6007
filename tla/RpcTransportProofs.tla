------------------------- MODULE RpcTransportProofs -------------------------
(***************************************************************************)
(* Theorems about RpcTransport, for any number of calls and any network.   *)
(***************************************************************************)
EXTENDS RpcTransport, SequenceTheorems, WellFoundedInduction, TLAPS

Entry == [xid : Xid, timeout : 0 .. RESEND + 1]

Xids(q) == {q[i].xid : i \in 1 .. Len(q)}

\* No call is in the queue twice.
Distinct(q) == \A i, j \in 1 .. Len(q) : q[i].xid = q[j].xid => i = j

-----------------------------------------------------------------------------
(***************************************************************************)
(* What the operations on the queue return.                                *)
(***************************************************************************)

\* A set of naturals that is not empty has a least member.
LEMMA LeastNumber ==
  ASSUME NEW S \in SUBSET Nat, S # {}
  PROVE  \E m \in S : \A n \in S : m <= n
<1>1. PICK m \in S : \A n \in S : ~ <<n, m>> \in OpToRel(<, Nat)
  BY NatLessThanWellFounded, WFMin, Zenon
<1>2. \A n \in S : ~ (n < m)
  BY <1>1 DEF OpToRel
<1> QED BY <1>2

\* The search of the queue finds the call it looks for.
LEMMA BeforeFinds ==
  ASSUME queue \in Seq(Entry), NEW x \in Queued
  PROVE  Before(x) \in 1 .. Len(queue) /\ queue[Before(x)].xid = x
<1> DEFINE I == {i \in 1 .. Len(queue) : queue[i].xid = x}
<1>1. I # {} /\ I \subseteq Nat
  BY DEF Queued
<1>2. Before(x) = Min(I)
  BY <1>1 DEF Before, SelectInSeq
<1>3. PICK m \in I : \A i \in I : m <= i
  BY <1>1, LeastNumber
<1>4. Min(I) \in I
  BY <1>3 DEF Min
<1> QED BY <1>2, <1>4

\* Appending an entry adds its call.
LEMMA AppendEntry ==
  ASSUME NEW q \in Seq(Entry), NEW e \in Entry
  PROVE  /\ Append(q, e) \in Seq(Entry)
         /\ Xids(Append(q, e)) = Xids(q) \cup {e.xid}
         /\ Distinct(q) /\ e.xid \notin Xids(q) => Distinct(Append(q, e))
<1>1. Append(q, e) \in Seq(Entry) /\ Len(Append(q, e)) = Len(q) + 1
  BY DEF Entry
<1>2. \A i \in 1 .. Len(q) + 1 : Append(q, e)[i] = IF i <= Len(q) THEN q[i] ELSE e
  OBVIOUS
<1>3. Xids(Append(q, e)) = Xids(q) \cup {e.xid}
  BY <1>1, <1>2 DEF Xids
<1>4. ASSUME Distinct(q), e.xid \notin Xids(q) PROVE Distinct(Append(q, e))
  BY <1>1, <1>2, <1>4 DEF Distinct, Xids
<1> QED BY <1>1, <1>3, <1>4

\* A prefix of the queue has no call twice.
LEMMA CutQueue ==
  ASSUME NEW q \in Seq(Entry), NEW k \in 0 .. Len(q), Distinct(q)
  PROVE  /\ SubSeq(q, 1, k) \in Seq(Entry)
         /\ Xids(SubSeq(q, 1, k)) \subseteq Xids(q)
         /\ Distinct(SubSeq(q, 1, k))
<1>1. SubSeq(q, 1, k) \in Seq(Entry) /\ Len(SubSeq(q, 1, k)) = k
  OBVIOUS
<1>2. \A i \in 1 .. k : SubSeq(q, 1, k)[i] = q[i]
  OBVIOUS
<1> QED BY <1>1, <1>2 DEF Xids, Distinct

\* Removing an entry removes its call alone.
LEMMA RemoveEntry ==
  ASSUME NEW q \in Seq(Entry), NEW k \in 1 .. Len(q), Distinct(q)
  PROVE  /\ RemoveAt(q, k) \in Seq(Entry)
         /\ Xids(RemoveAt(q, k)) = Xids(q) \ {q[k].xid}
         /\ Distinct(RemoveAt(q, k))
         /\ k # Len(q) =>
              Len(RemoveAt(q, k)) = Len(q) - 1 /\ RemoveAt(q, k)[Len(q) - 1] = q[Len(q)]
<1> DEFINE r == RemoveAt(q, k)
           front == SubSeq(q, 1, k - 1)
           back == SubSeq(q, k + 1, Len(q))
<1>1. /\ front \in Seq(Entry) /\ Len(front) = k - 1
      /\ \A i \in 1 .. k - 1 : front[i] = q[i]
  OBVIOUS
<1>2. /\ back \in Seq(Entry) /\ Len(back) = Len(q) - k
      /\ \A i \in 1 .. Len(q) - k : back[i] = q[k + i]
  OBVIOUS
<1>3. /\ r \in Seq(Entry) /\ Len(r) = Len(q) - 1
      /\ \A i \in 1 .. Len(q) - 1 : r[i] = IF i < k THEN q[i] ELSE q[i + 1]
  <2>1. r = front \o back
    BY DEF RemoveAt
  <2> HIDE DEF front, back, r
  <2>0. Len(q) \in Nat /\ k \in Int
    OBVIOUS
  <2>2. front \o back \in Seq(Entry) /\ Len(front \o back) = Len(q) - 1
    <3>1. front \o back \in Seq(Entry) /\ Len(front \o back) = Len(front) + Len(back)
      BY <1>1, <1>2, ConcatProperties, Zenon
    <3> QED BY <3>1, <2>0, <1>1, <1>2
  <2>3. ASSUME NEW i \in 1 .. Len(q) - 1
        PROVE  (front \o back)[i] = IF i < k THEN q[i] ELSE q[i + 1]
    <3>1. (front \o back)[i] = IF i <= k - 1 THEN front[i] ELSE back[i - (k - 1)]
      BY <1>1, <1>2, ConcatProperties
    <3>2. CASE i < k
      BY <3>1, <3>2, <1>1
    <3>3. CASE i >= k
      <4>1. i - (k - 1) \in 1 .. Len(q) - k /\ k + (i - (k - 1)) = i + 1
        BY <3>3
      <4>2. back[i - (k - 1)] = q[i + 1]
        BY <4>1, <1>2
      <4> QED BY <3>1, <3>3, <4>2
    <3>4. i < k \/ i >= k
      BY <2>0
    <3> QED BY <3>2, <3>3, <3>4, Zenon
  <2> QED BY <2>1, <2>2, <2>3
<1> HIDE DEF r
<1>4. Distinct(r)
  BY <1>3 DEF Distinct
<1>5. Xids(r) \subseteq Xids(q) \ {q[k].xid}
  BY <1>3 DEF Distinct, Xids
<1>6. ASSUME NEW i \in 1 .. Len(q), q[i].xid # q[k].xid PROVE q[i].xid \in Xids(r)
  <2>1. CASE i < k
    BY <1>3, <2>1 DEF Xids
  <2>2. CASE i > k
    <3>1. i - 1 \in 1 .. Len(q) - 1 /\ ~(i - 1 < k) /\ (i - 1) + 1 = i
      BY <2>2
    <3>2. r[i - 1] = q[i]
      BY <3>1, <1>3
    <3> QED BY <3>1, <3>2, <1>3 DEF Xids
  <2> QED BY <1>6, <2>1, <2>2
<1>7. Xids(q) \ {q[k].xid} \subseteq Xids(r)
  BY <1>6 DEF Xids
<1>8. k # Len(q) => r[Len(q) - 1] = q[Len(q)]
  BY <1>3
<1> QED BY <1>3, <1>4, <1>5, <1>7, <1>8 DEF r

\* Linking an entry behind any item of the queue makes no call double.
LEMMA LinkedBehind ==
  ASSUME queue \in Seq(Entry), Distinct(queue), NEW tail, NEW x \in Xid \ Queued, RESEND \in Nat
  PROVE  /\ Linked(tail, x) \in Seq(Entry)
         /\ Xids(Linked(tail, x)) \subseteq Queued \cup {x}
         /\ Distinct(Linked(tail, x))
<1>0. Item(x) \in Entry /\ Item(x).xid = x
  BY DEF Item, Entry
<1>1. CASE tail = None
  BY <1>0, <1>1 DEF Linked, Xids, Distinct
<1>2. CASE tail # None /\ tail \in Queued
  <2> DEFINE front == SubSeq(queue, 1, Before(tail))
  <2>1. Linked(tail, x) = Append(front, Item(x))
    BY <1>2 DEF Linked
  <2>2. front \in Seq(Entry) /\ Xids(front) \subseteq Xids(queue) /\ Distinct(front)
    BY <1>2, BeforeFinds, CutQueue
  <2> HIDE DEF front
  <2>3. Xids(queue) = Queued
    BY DEF Xids, Queued
  <2>4. x \notin Xids(front)
    BY <2>2, <2>3
  <2>5. /\ Append(front, Item(x)) \in Seq(Entry)
        /\ Xids(Append(front, Item(x))) = Xids(front) \cup {x}
        /\ Distinct(Append(front, Item(x)))
    BY <2>2, <2>4, <1>0, AppendEntry
  <2> QED BY <2>1, <2>2, <2>3, <2>5
<1>3. CASE tail # None /\ tail \notin Queued
  BY <1>3 DEF Linked, Queued, Xids
<1> QED BY <1>1, <1>2, <1>3

\* Linking an entry behind the last item loses no call.
LEMMA LinkedLast ==
  ASSUME queue \in Seq(Entry), Distinct(queue), NEW x \in Xid \ Queued, RESEND \in Nat
  PROVE  Xids(Linked(LastItem, x)) = Queued \cup {x}
<1>0. Item(x) \in Entry /\ Item(x).xid = x
  BY DEF Item, Entry
<1>1. CASE queue = <<>>
  BY <1>0, <1>1 DEF Linked, LastItem, Queued, Xids
<1>2. CASE queue # <<>>
  <2>1. Len(queue) \in 1 .. Len(queue) /\ queue[Len(queue)] \in Entry
    BY <1>2
  <2>2. LastItem = queue[Len(queue)].xid /\ LastItem \in Queued /\ LastItem # None
    BY <1>2, <2>1 DEF LastItem, Queued, Entry, Xid, None
  <2>3. Before(LastItem) = Len(queue)
    BY <2>1, <2>2, BeforeFinds DEF Distinct
  <2>4. Linked(LastItem, x) = Append(queue, Item(x))
    BY <2>2, <2>3, SubSeqFull DEF Linked
  <2> QED BY <2>4, <1>0, AppendEntry DEF Queued, Xids
<1> QED BY <1>1, <1>2

-----------------------------------------------------------------------------
(***************************************************************************)
(* The inductive invariant.                                                *)
(***************************************************************************)

\* Only calls that were made and not answered are in the queue, and none is
\* answered that was not made, or answered twice.
AnsweredOnce ==
  \A x \in Xid :
    /\ answered[x] \in {0, 1}
    /\ x \in Queued => x \in Made /\ answered[x] = 0
    /\ answered[x] = 1 => x \in Made

\* The init thread has one call at a time as long as it mounts the directory, so
\* that it finds the queue empty when it looks for the end of it, up to and
\* including its first call that it does not wait for.
OneAtATime ==
  /\ init_xid <= cur_xid
  /\ cur_xid <= MountCalls => init_xid = cur_xid
  /\ init # "idle" => init_xid = cur_xid /\ init_xid \in 1 .. MountCalls + BootCalls
  /\ init \in {"waiting", "woken"} => init_xid <= MountCalls
  /\ init = "waiting" => init_xid \in Queued
  /\ init = "adding" /\ init_xid <= MountCalls + 1 => queue = <<>> /\ init_tail = None
  /\ \A x \in 1 .. cur_xid : x <= MountCalls =>
       answered[x] = 1 \/ (init \in {"adding", "waiting"} /\ x = init_xid)

\* As long as the item that the init thread found last is in the queue, it is the last,
\* and if it found none the queue is empty: nobody else puts calls there meanwhile.
TailIsLast ==
  init = "adding" =>
    /\ init_tail = None => queue = <<>>
    /\ init_tail \in Queued => LastItem = init_tail

Inv == TypeOK /\ Distinct(queue) /\ AnsweredOnce /\ OneAtATime /\ TailIsLast

\* The constants of the transport, one by one.
LEMMA TypeConstants ==
  /\ MountCalls \in Nat /\ BootCalls \in Nat /\ RESEND \in Nat /\ MaxCalls \in Nat
  /\ MountCalls + BootCalls <= MaxCalls
BY RpcAssumption

\* The invariant holds at the start.
LEMMA InitInv == Init => Inv
<1> SUFFICES ASSUME Init PROVE Inv
  OBVIOUS
<1>1. TypeOK
  BY TypeConstants DEF Init, TypeOK, None, Xid
<1>2. Distinct(queue) /\ AnsweredOnce
  BY DEF Init, Distinct, AnsweredOnce, Queued, Made
<1>3. OneAtATime
  BY TypeConstants DEF Init, OneAtATime, None
<1>4. TailIsLast
  BY DEF Init, TailIsLast
<1> QED BY <1>1, <1>2, <1>3, <1>4 DEF Inv

\* While the init thread mounts the directory and is not in a call, the queue is empty.
LEMMA EmptyBetweenMounts ==
  ASSUME Inv, init = "idle", cur_xid <= MountCalls
  PROVE  queue = <<>>
<1>1. ASSUME NEW x \in Xid, x \in Queued PROVE FALSE
  <2>1. x \in 1 .. cur_xid /\ answered[x] = 0
    BY <1>1 DEF Inv, AnsweredOnce, Made
  <2>2. x <= MountCalls
    BY <2>1, TypeConstants DEF Inv, TypeOK
  <2> QED BY <2>1, <2>2 DEF Inv, OneAtATime
<1>2. queue \in Seq(Entry)
  BY DEF Inv, TypeOK, Entry
<1>3. ASSUME queue # <<>> PROVE FALSE
  <2>1. 1 \in 1 .. Len(queue) /\ queue[1] \in Entry
    BY <1>2, <1>3
  <2>2. queue[1].xid \in Xid /\ queue[1].xid \in Queued
    BY <2>1 DEF Entry, Queued
  <2> QED BY <2>2, <1>1
<1> QED BY <1>3

-----------------------------------------------------------------------------
(***************************************************************************)
(* Each step keeps the invariant.                                          *)
(***************************************************************************)

\* What the steps below need of the types.
LEMMA Types ==
  ASSUME Inv
  PROVE  /\ queue \in Seq(Entry) /\ Xids(queue) = Queued
         /\ cur_xid \in 0 .. MaxCalls /\ cur_xid \in Int
         /\ answered \in [Xid -> Nat]
         /\ request \subseteq Xid /\ reply \subseteq Xid
         /\ init_xid \in 0 .. MaxCalls
<1>1. Xids(queue) = Queued
  BY DEF Xids, Queued
<1>2. cur_xid \in Int /\ init_xid \in 0 .. MaxCalls
  BY TypeConstants DEF Inv, TypeOK, None, Xid
<1> QED BY <1>1, <1>2 DEF Inv, TypeOK, Entry

\* rpc_send keeps the invariant and queues its call.
LEMMA SendInv ==
  ASSUME Inv, rpc_send
  PROVE  Inv' /\ Queued' = Queued \cup {cur_xid + 1} /\ Made' = Made \cup {cur_xid + 1}
<1> DEFINE x == cur_xid + 1
<1>0. x \in Xid /\ x \notin Queued /\ x \notin Made /\ init = "idle"
  <2>1. init = "idle" /\ cur_xid < MaxCalls
    BY DEF rpc_send, InitDone
  <2>2. x \in Xid
    BY <2>1, Types, TypeConstants DEF Xid
  <2>3. x \notin Made
    BY Types DEF Made
  <2>4. x \notin Queued
    BY <2>2, <2>3 DEF Inv, AnsweredOnce
  <2> QED BY <2>1, <2>2, <2>3, <2>4
<1>1. queue' \in Seq(Entry) /\ Xids(queue') = Queued \cup {x} /\ Distinct(queue')
  <2>1. queue' = Linked(LastItem, x)
    BY DEF rpc_send
  <2>2. /\ Linked(LastItem, x) \in Seq(Entry) /\ Distinct(Linked(LastItem, x))
        /\ Xids(Linked(LastItem, x)) = Queued \cup {x}
    BY <1>0, Types, TypeConstants, LinkedLast, LinkedBehind DEF Inv
  <2> QED BY <2>1, <2>2
<1>2. Queued' = Queued \cup {x}
  BY <1>1 DEF Queued, Xids
<1>3. Made' = Made \cup {x}
  <2>1. cur_xid' = cur_xid + 1 /\ init' = init
    BY DEF rpc_send, boot
  <2>2. 1 .. cur_xid + 1 = (1 .. cur_xid) \cup {x}
    BY Types
  <2> QED BY <2>1, <2>2, <1>0 DEF Made
<1>4. TypeOK'
  <2>1. request' \subseteq Xid
    BY <1>0, Types DEF rpc_send
  <2>2. cur_xid' \in 0 .. MaxCalls
    BY Types, TypeConstants DEF rpc_send
  <2>3. UNCHANGED <<reply, answered, init, init_xid, init_tail>>
    BY DEF rpc_send, boot
  <2> QED BY <1>1, <2>1, <2>2, <2>3 DEF Inv, TypeOK, Entry
<1>5. AnsweredOnce'
  BY <1>0, <1>2, <1>3 DEF rpc_send, Inv, AnsweredOnce
<1>6. OneAtATime'
  <2>1. cur_xid >= MountCalls + BootCalls /\ cur_xid' = cur_xid + 1
    BY DEF rpc_send, InitDone
  <2>2. UNCHANGED <<answered, init, init_xid, init_tail>>
    BY DEF rpc_send, boot
  <2> QED BY <1>0, <2>1, <2>2, Types, TypeConstants DEF Inv, OneAtATime
<1>7. TailIsLast'
  BY <1>0 DEF rpc_send, boot, TailIsLast
<1> QED BY <1>1, <1>2, <1>3, <1>4, <1>5, <1>6, <1>7 DEF Inv

\* my_recv keeps the invariant and answers a queued call or none.
LEMMA RecvInv ==
  ASSUME Inv, NEW x \in Xid, my_recv(x)
  PROVE  /\ Inv' /\ Made' = Made
         /\ \/ x \in Queued /\ Queued' = Queued \ {x} /\ answered' = [answered EXCEPT ![x] = 1]
            \/ Queued' = Queued /\ answered' = answered
<1>0. UNCHANGED <<cur_xid, request, init_xid, init_tail>> /\ reply' \subseteq Xid
  BY Types DEF my_recv, Delivered
<1>1. CASE x \in Queued
  <2>1. /\ queue' = RemoveAt(queue, Before(x)) /\ init' = signal(x)
        /\ answered' = [answered EXCEPT ![x] = @ + 1]
    BY <1>1 DEF my_recv, get_from_queue
  <2>2. queue' \in Seq(Entry) /\ Xids(queue') = Xids(queue) \ {x} /\ Distinct(queue')
    BY <1>1, <2>1, Types, BeforeFinds, RemoveEntry DEF Inv
  <2>3. Queued' = Queued \ {x}
    BY <2>2, Types DEF Queued, Xids
  <2>4. answered[x] = 0 /\ x \in Made
    BY <1>1 DEF Inv, AnsweredOnce
  <2>5. answered' = [answered EXCEPT ![x] = 1]
    BY <2>1, <2>4, Types
  <2>6. init' = "adding" <=> init = "adding"
    BY <2>1 DEF signal
  <2>7. Made' = Made
    BY <1>0, <2>6 DEF Made
  <2>8. TypeOK'
    <3>1. answered' \in [Xid -> Nat]
      BY <2>5, Types
    <3>2. init' \in {"idle", "adding", "waiting", "woken"}
      BY <2>1 DEF Inv, TypeOK, signal
    <3> QED BY <1>0, <2>2, <3>1, <3>2 DEF Inv, TypeOK, Entry
  <2>9. AnsweredOnce'
    BY <2>3, <2>4, <2>5, <2>7, Types DEF Inv, AnsweredOnce
  <2>10. OneAtATime'
    <3>1. x \in 1 .. cur_xid
      BY <2>4 DEF Made
    <3>2. CASE x <= MountCalls
      <4>1. init \in {"adding", "waiting"} /\ x = init_xid
        BY <2>4, <3>1, <3>2 DEF Inv, OneAtATime
      <4>2. init = "waiting"
        BY <4>1, <2>4 DEF Made
      <4>3. init' = "woken"
        BY <2>1, <3>2, <4>2 DEF signal
      <4>4. \A y \in 1 .. cur_xid : y <= MountCalls => answered'[y] = 1
        <5>1. \A y \in 1 .. cur_xid : y \in Xid
          BY Types, TypeConstants DEF Xid
        <5>2. \A y \in 1 .. cur_xid : y <= MountCalls /\ y # x => answered[y] = 1
          BY <4>1 DEF Inv, OneAtATime
        <5> QED BY <5>1, <5>2, <2>5, Types
      <4> QED BY <4>1, <4>2, <4>3, <4>4, <1>0, <3>2 DEF Inv, OneAtATime
    <3>3. CASE x > MountCalls
      <4>1. init' = init
        BY <2>1, <3>3, TypeConstants DEF signal, Xid
      <4>2. init = "waiting" => x # init_xid
        BY <3>3, Types, TypeConstants DEF Inv, OneAtATime, Xid
      <4>3. ~(init = "adding" /\ init_xid <= MountCalls + 1)
        BY <1>1, Types DEF Inv, OneAtATime, Queued
      <4>4. \A y \in 1 .. cur_xid : y <= MountCalls => answered'[y] = answered[y]
        BY <2>5, <3>3, Types, TypeConstants DEF Xid
      <4> QED BY <4>1, <4>2, <4>3, <4>4, <1>0, <2>3 DEF Inv, OneAtATime
    <3> QED BY <3>2, <3>3, TypeConstants DEF Xid
  <2>11. TailIsLast'
    <3> SUFFICES ASSUME init' = "adding"
                 PROVE  init_tail # None /\ (init_tail \in Queued' => LastItem' = init_tail)
      BY <1>0 DEF TailIsLast
    <3>1. Len(queue) \in Nat /\ Len(queue) > 0 /\ init = "adding"
      BY <1>1, <2>6, Types DEF Queued
    <3>2. init_tail # None /\ (init_tail \in Queued => LastItem = init_tail)
      BY <3>1 DEF Inv, TailIsLast
    <3>3. ASSUME init_tail \in Queued' PROVE LastItem' = init_tail
      <4>1. queue[Len(queue)].xid = init_tail /\ init_tail # x
        BY <2>3, <3>1, <3>2, <3>3 DEF LastItem
      <4>2. Before(x) \in 1 .. Len(queue) /\ Before(x) # Len(queue)
        BY <1>1, <4>1, Types, BeforeFinds
      <4>3. Len(queue') = Len(queue) - 1 /\ queue'[Len(queue) - 1] = queue[Len(queue)]
        BY <2>1, <4>2, Types, RemoveEntry DEF Inv
      <4>4. queue' # <<>>
        BY <3>1, <4>2, <4>3
      <4> QED BY <4>1, <4>3, <4>4 DEF LastItem
    <3> QED BY <3>2, <3>3
  <2> QED BY <1>1, <2>2, <2>3, <2>5, <2>7, <2>8, <2>9, <2>10, <2>11 DEF Inv
<1>2. CASE x \notin Queued
  <2>1. UNCHANGED <<queue, answered, init>>
    BY <1>2 DEF my_recv
  <2>2. Queued' = Queued /\ Made' = Made
    BY <1>0, <2>1 DEF Queued, Made
  <2>3. TypeOK' /\ Distinct(queue') /\ AnsweredOnce' /\ OneAtATime'
    BY <1>0, <2>1, <2>2 DEF Inv, TypeOK, Distinct, AnsweredOnce, OneAtATime
  <2>4. TailIsLast'
    BY <1>0, <2>1, <2>2 DEF Inv, TailIsLast, LastItem
  <2> QED BY <2>1, <2>2, <2>3, <2>4 DEF Inv
<1> QED BY <1>1, <1>2

\* nfs_timeout keeps the invariant and the queue.
LEMMA TimeoutInv ==
  ASSUME Inv, nfs_timeout
  PROVE  Inv' /\ Queued' = Queued /\ Made' = Made /\ answered' = answered
<1>0. UNCHANGED <<cur_xid, reply, answered, init, init_xid, init_tail>> /\ queue # <<>>
  BY DEF nfs_timeout, boot
<1>1. \A i \in 1 .. Len(queue) : queue[i] \in Entry
  BY Types
<1>2. \A e \in Entry : Counted(e) \in Entry /\ Counted(e).xid = e.xid
  BY TypeConstants DEF Counted, Due, Entry
<1>3. /\ queue' \in Seq(Entry) /\ Len(queue') = Len(queue)
      /\ \A i \in 1 .. Len(queue) : queue'[i].xid = queue[i].xid
  <2>1. queue' = [i \in 1 .. Len(queue) |-> Counted(queue[i])] /\ Len(queue) \in Nat
    BY Types DEF nfs_timeout
  <2>2. \A i \in 1 .. Len(queue) : Counted(queue[i]) \in Entry
    BY <1>1, <1>2
  <2> QED BY <1>1, <1>2, <2>1, <2>2
<1>4. Queued' = Queued /\ Distinct(queue')
  BY <1>3 DEF Queued, Distinct, Inv
<1>5. Made' = Made
  BY <1>0 DEF Made
<1>6. request' \subseteq Xid
  BY <1>1, Types DEF nfs_timeout, Resent, Entry
<1>7. TypeOK'
  BY <1>0, <1>3, <1>6 DEF Inv, TypeOK, Entry
<1>8. AnsweredOnce'
  BY <1>0, <1>4, <1>5 DEF Inv, AnsweredOnce
<1>9. OneAtATime'
  BY <1>0, <1>4 DEF Inv, OneAtATime
<1>10. TailIsLast'
  <2>1. queue' # <<>> /\ LastItem' = LastItem
    <3>1. Len(queue) \in Nat \ {0} /\ Len(queue') = Len(queue)
      BY <1>0, <1>3, Types
    <3>2. queue' # <<>> /\ queue'[Len(queue)].xid = queue[Len(queue)].xid
      BY <1>3, <3>1
    <3> QED BY <1>0, <3>1, <3>2 DEF LastItem
  <2> QED BY <1>0, <1>4, <2>1 DEF Inv, TailIsLast
<1> QED BY <1>0, <1>4, <1>5, <1>7, <1>8, <1>9, <1>10 DEF Inv

\* add_to_queue keeps the invariant and the queue.
LEMMA AddInv ==
  ASSUME Inv, add_to_queue
  PROVE  Inv' /\ Queued' = Queued /\ Made' = Made /\ answered' = answered
<1> DEFINE x == cur_xid + 1
<1>0. /\ init = "idle" /\ init' = "adding" /\ cur_xid' = x /\ init_xid' = x
      /\ init_tail' = LastItem /\ UNCHANGED <<queue, request, reply, answered>>
      /\ x \in 1 .. MountCalls + BootCalls /\ x \in Xid
  <2>1. /\ init = "idle" /\ init' = "adding" /\ cur_xid' = x /\ init_xid' = x
        /\ init_tail' = LastItem /\ UNCHANGED <<queue, request, reply, answered>>
        /\ cur_xid < MountCalls + BootCalls
    BY DEF add_to_queue, net
  <2>2. x \in 1 .. MountCalls + BootCalls /\ x \in Xid
    <3>1. cur_xid \in Nat /\ cur_xid < MountCalls + BootCalls
      BY <2>1, Types, TypeConstants
    <3> QED BY <3>1, TypeConstants DEF Xid
  <2> QED BY <2>1, <2>2
<1>1. Queued' = Queued
  BY <1>0 DEF Queued
<1>2. Made' = Made
  <2>1. (1 .. x) \ {x} = 1 .. cur_xid
    BY Types
  <2> QED BY <1>0, <2>1 DEF Made
<1>3. LastItem \in Xid \cup {None}
  <2>1. CASE queue # <<>>
    <3>1. queue[Len(queue)] \in Entry
      BY <2>1, Types
    <3> QED BY <2>1, <3>1 DEF LastItem, Entry
  <2> QED BY <2>1 DEF LastItem
<1>4. TypeOK'
  <2>1. cur_xid' \in 0 .. MaxCalls
    BY <1>0, TypeConstants
  <2> QED BY <1>0, <1>3, <2>1 DEF Inv, TypeOK
<1>5. AnsweredOnce'
  BY <1>0, <1>1, <1>2 DEF Inv, AnsweredOnce
<1>6. OneAtATime'
  <2>1. x <= MountCalls + 1 => queue = <<>> /\ LastItem = None
    <3>1. x <= MountCalls + 1 => cur_xid <= MountCalls
      BY Types, TypeConstants
    <3> QED BY <3>1, <1>0, EmptyBetweenMounts DEF LastItem
  <2>2. \A y \in 1 .. x : y \in 1 .. cur_xid \/ y = x
    BY Types
  <2> QED BY <1>0, <2>1, <2>2 DEF Inv, OneAtATime
<1>7. Distinct(queue')
  BY <1>0 DEF Inv
<1>8. TailIsLast'
  <2>1. LastItem = None => queue = <<>>
    <3>1. queue # <<>> => queue[Len(queue)] \in Entry
      BY Types
    <3> QED BY <3>1 DEF LastItem, Entry, Xid, None
  <2> QED BY <1>0, <1>1, <2>1 DEF TailIsLast, LastItem
<1> QED BY <1>0, <1>1, <1>2, <1>4, <1>5, <1>6, <1>7, <1>8 DEF Inv

\* rpc_call keeps the invariant, and queues its call unless that is one that races with
\* an answer.
LEMMA CallInv ==
  ASSUME Inv, rpc_call
  PROVE  /\ Inv' /\ Made' = Made \cup {init_xid} /\ init_xid \notin Made
         /\ answered' = answered
         /\ \/ Queued' = Queued \cup {init_xid}
            \/ Queued' = Queued /\ init_xid \in Racing
<1>0. /\ init = "adding" /\ queue' = Linked(init_tail, init_xid)
      /\ init' = IF init_xid <= MountCalls THEN "waiting" ELSE "idle"
      /\ UNCHANGED <<cur_xid, reply, answered, init_xid, init_tail>>
  BY DEF rpc_call
<1>1. init_xid = cur_xid /\ init_xid \in 1 .. MountCalls + BootCalls /\ init_xid \in Xid
  BY <1>0, TypeConstants DEF Inv, OneAtATime, Xid
<1>2. init_xid \notin Made /\ init_xid \notin Queued /\ answered[init_xid] = 0
  BY <1>0, <1>1 DEF Made, Inv, AnsweredOnce
<1>3. queue' \in Seq(Entry) /\ Xids(queue') \subseteq Queued \cup {init_xid} /\ Distinct(queue')
  BY <1>0, <1>1, <1>2, Types, TypeConstants, LinkedBehind DEF Inv
<1>4. Queued' \subseteq Queued \cup {init_xid}
  BY <1>3 DEF Queued, Xids
<1>5. Made' = Made \cup {init_xid}
  BY <1>0, <1>1, Types DEF Made
<1>6. init_xid <= MountCalls + 1 => Queued' = Queued \cup {init_xid} /\ init_xid \in Queued'
  <2> SUFFICES ASSUME init_xid <= MountCalls + 1
               PROVE  Queued' = Queued \cup {init_xid} /\ init_xid \in Queued'
    OBVIOUS
  <2>1. queue = <<>> /\ init_tail = None
    BY <1>0 DEF Inv, OneAtATime
  <2>2. queue' = <<Item(init_xid)>>
    BY <1>0, <2>1 DEF Linked
  <2> QED BY <2>1, <2>2 DEF Queued, Item
<1>7. TypeOK'
  <2>1. request' \subseteq Xid
    BY <1>1, Types DEF rpc_call
  <2> QED BY <1>0, <1>3, <2>1 DEF Inv, TypeOK, Entry
<1>8. AnsweredOnce'
  BY <1>0, <1>2, <1>4, <1>5 DEF Inv, AnsweredOnce
<1>9. OneAtATime'
  <2>1. init_xid <= MountCalls => init_xid \in Queued'
    BY <1>1, <1>6, TypeConstants
  <2>2. init_xid <= cur_xid /\ (init' # "adding") /\ (init' # "woken")
    BY <1>0, <1>1, Types
  <2>3. \A y \in 1 .. cur_xid : y <= MountCalls =>
          answered[y] = 1 \/ (init' = "waiting" /\ y = init_xid)
    BY <1>0 DEF Inv, OneAtATime
  <2> QED BY <1>0, <1>1, <2>1, <2>2, <2>3 DEF OneAtATime
<1>10. TailIsLast'
  BY <1>0 DEF TailIsLast
<1>11. Queued' = Queued \cup {init_xid} \/ (Queued' = Queued /\ init_xid \in Racing)
  <2>1. CASE init_tail \in Queued
    <3>1. queue' = Linked(LastItem, init_xid)
      BY <1>0, <2>1 DEF Inv, TailIsLast
    <3>2. Xids(queue') = Queued \cup {init_xid}
      BY <1>1, <1>2, <3>1, Types, TypeConstants, LinkedLast DEF Inv
    <3> QED BY <3>2 DEF Queued, Xids
  <2>2. CASE init_tail = None
    <3>1. queue = <<>> /\ queue' = <<Item(init_xid)>>
      BY <1>0, <2>2 DEF Inv, TailIsLast, Linked
    <3> QED BY <3>1 DEF Queued, Item
  <2>3. CASE init_tail # None /\ init_tail \notin Queued
    <3>1. queue' = queue
      BY <1>0, <2>3 DEF Linked
    <3>2. ~(init_xid <= MountCalls + 1)
      BY <1>0, <2>3 DEF Inv, OneAtATime
    <3>3. init_xid \in Racing
      BY <1>1, <3>2, TypeConstants DEF Racing
    <3> QED BY <3>1, <3>3 DEF Queued
  <2> QED BY <2>1, <2>2, <2>3
<1> QED BY <1>0, <1>2, <1>3, <1>5, <1>7, <1>8, <1>9, <1>10, <1>11 DEF Inv

\* What the network does keeps the invariant and the queue.
LEMMA NetworkInv ==
  ASSUME Inv, UNCHANGED <<cur_xid, queue, answered, init_xid, init_tail>>,
         request' \subseteq Xid, reply' \subseteq Xid,
         init' = init \/ (init = "woken" /\ init' = "idle")
  PROVE  Inv' /\ Queued' = Queued /\ Made' = Made /\ answered' = answered
<1>1. Queued' = Queued /\ Made' = Made
  BY DEF Queued, Made
<1>2. TypeOK'
  BY DEF Inv, TypeOK
<1>3. AnsweredOnce'
  BY <1>1 DEF Inv, AnsweredOnce
<1>4. OneAtATime'
  BY <1>1 DEF Inv, OneAtATime
<1>5. TailIsLast'
  BY <1>1 DEF Inv, TailIsLast, LastItem
<1> QED BY <1>1, <1>2, <1>3, <1>4, <1>5 DEF Inv

\* Every step keeps the invariant, and it makes one call, answers one, or changes
\* neither the calls made nor the queue, or forgets a racing call.
LEMMA StepInv ==
  ASSUME Inv, [Next]_vars
  PROVE  /\ Inv'
         /\ RacyCalls!Next \/ UNCHANGED <<Made, Queued, Done>>
<1>1. CASE rpc_send
  <2>1. /\ cur_xid + 1 \in Xid /\ cur_xid + 1 \notin Made /\ UNCHANGED answered
    <3>1. cur_xid < MaxCalls /\ UNCHANGED answered
      BY <1>1 DEF rpc_send
    <3>2. cur_xid + 1 \in Xid
      BY <3>1, Types, TypeConstants DEF Xid
    <3>3. cur_xid + 1 \notin Made
      BY Types DEF Made
    <3> QED BY <3>1, <3>2, <3>3
  <2>2. RacyCalls!Make(cur_xid + 1)
    BY <1>1, <2>1, SendInv DEF RacyCalls!Make, Done
  <2> QED BY <1>1, <2>1, <2>2, SendInv DEF RacyCalls!Next
<1>2. ASSUME NEW x \in Xid, my_recv(x)
      PROVE  Inv' /\ (RacyCalls!Next \/ UNCHANGED <<Made, Queued, Done>>)
  <2>1. CASE x \in Queued /\ Queued' = Queued \ {x} /\ answered' = [answered EXCEPT ![x] = 1]
    <3>1. Done' = Done \cup {x}
      BY <2>1, Types DEF Done
    <3>2. RacyCalls!Answer(x)
      BY <1>2, <2>1, <3>1, RecvInv DEF RacyCalls!Answer, Done
    <3> QED BY <1>2, <3>2, RecvInv DEF RacyCalls!Next
  <2>2. CASE Queued' = Queued /\ answered' = answered
    BY <1>2, <2>2, RecvInv DEF Done
  <2> QED BY <1>2, <2>1, <2>2, RecvInv
<1>3. CASE nfs_timeout
  BY <1>3, TimeoutInv DEF Done
<1>4. CASE add_to_queue
  BY <1>4, AddInv DEF Done
<1>5. CASE rpc_call
  <2>1. init_xid \in Xid
    BY <1>5, TypeConstants DEF rpc_call, Inv, OneAtATime, Xid
  <2>2. CASE Queued' = Queued \cup {init_xid}
    BY <1>5, <2>1, <2>2, CallInv DEF RacyCalls!Make, RacyCalls!Next, Done
  <2>3. CASE Queued' = Queued /\ init_xid \in Racing
    BY <1>5, <2>1, <2>3, CallInv DEF RacyCalls!Forget, RacyCalls!Next, Done
  <2> QED BY <1>5, <2>2, <2>3, CallInv
<1>6. CASE rpc_call_returns
  <2>1. /\ UNCHANGED <<cur_xid, queue, answered, init_xid, init_tail, request, reply>>
        /\ init = "woken" /\ init' = "idle"
    BY <1>6 DEF rpc_call_returns, net
  <2> QED BY <2>1, Types, NetworkInv DEF Done
<1>7. ASSUME NEW x \in Xid, Serve(x) \/ Lose(x)
      PROVE  Inv' /\ UNCHANGED <<Made, Queued, Done>>
  <2>1. UNCHANGED <<cur_xid, queue, answered, init_xid, init_tail, init>>
    BY <1>7 DEF Serve, Lose, boot
  <2>2. request' \subseteq Xid /\ reply' \subseteq Xid
    BY <1>7, Types DEF Serve, Lose, Delivered
  <2> QED BY <2>1, <2>2, NetworkInv DEF Done
<1>8. CASE UNCHANGED vars
  <2>1. UNCHANGED <<cur_xid, queue, answered, init_xid, init_tail, request, reply, init>>
    BY <1>8 DEF vars, net, boot
  <2> QED BY <2>1, Types, NetworkInv DEF Done
<1> QED BY <1>1, <1>2, <1>3, <1>4, <1>5, <1>6, <1>7, <1>8 DEF Next, Root, InitThread, Network

\* The queue never holds a call twice, or one that is answered or was not made.
THEOREM QueueSafety == Spec => []Inv
<1>1. Inv /\ [Next]_vars => Inv'
  BY StepInv
<1> QED BY <1>1, InitInv, PTL DEF Spec

\* rpc_call returns with the answer to its own call, however often packets are
\* lost, repeated and late, and it does not miss it.
THEOREM AnswersAreOwn == Spec => []WaitsForItsOwnAnswer
<1>1. Inv => WaitsForItsOwnAnswer
  <2> SUFFICES ASSUME Inv, init_xid \in 1 .. MountCalls
               PROVE  /\ init = "waiting" => init_xid \in Queued
                      /\ init \in {"woken", "idle"} => answered[init_xid] = 1
    BY DEF WaitsForItsOwnAnswer, Inv
  <2>1. init_xid \in 1 .. cur_xid /\ init_xid <= MountCalls
    BY Types DEF Inv, OneAtATime
  <2> QED BY <2>1 DEF Inv, OneAtATime
<1> QED BY <1>1, QueueSafety, PTL

\* Each call made is in the queue until it is answered, and that happens once; only a
\* call of io_init after its first can be forgotten, while it is made.
THEOREM TransportLosesRacingCallsOnly == Spec => LosesRacingCallsOnly
<1>1. Init => RacyCalls!Init
  BY DEF Init, RacyCalls!Init, Made, Queued, Done
<1>2. Inv /\ [Next]_vars => [RacyCalls!Next]_<<Made, Queued, Done>>
  BY StepInv
<1> QED BY <1>1, <1>2, QueueSafety, PTL DEF Spec, LosesRacingCallsOnly, RacyCalls!Spec
=============================================================================
