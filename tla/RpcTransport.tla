---------------------------- MODULE RpcTransport ----------------------------
(***************************************************************************)
(* The RPC transport under NFS (src/libs/nfs/src/transport.c): a queue of  *)
(* calls that wait for their answers, matched by transaction id, and sent  *)
(* again by nfs_timeout, over a network that loses, duplicates and         *)
(* reorders packets.                                                       *)
(*                                                                         *)
(* The root thread runs the interrupt handlers (my_recv, nfs_timeout) and  *)
(* makes calls; its steps are not interrupted by one another. While the    *)
(* system boots a second thread, init, makes calls too, and can be         *)
(* preempted in the middle of add_to_queue. It mounts the directory with   *)
(* rpc_call, which waits for the answer, and then, in io_init, sends the   *)
(* creation of the swap file and the first readdir without waiting.        *)
(***************************************************************************)
EXTENDS Integers, Sequences, SequencesExt

CONSTANTS
  MountCalls,     \* calls of network_init, which the init thread waits for
  BootCalls,      \* calls of io_init, which it does not wait for
  TimeoutCalled,  \* whether anybody calls nfs_timeout, as transport.c asks for
  RESEND,         \* nfs_timeout sends again a call that was passed more often than this
  MaxCalls        \* bound: calls made

ASSUME RpcAssumption ==
  /\ {MountCalls, BootCalls, RESEND, MaxCalls} \subseteq Nat
  /\ MountCalls + BootCalls <= MaxCalls
  /\ TimeoutCalled \in BOOLEAN

Xid  == 1 .. MaxCalls
None == 0

VARIABLES
  cur_xid,     \* the last transaction id given out
  queue,       \* sequence of records [xid, timeout]
  request,     \* the calls in the network
  reply,       \* the answers in the network
  answered,    \* how often the function of each call was called
  init,        \* what the init thread does: idle, adding, waiting, woken
  init_xid,    \* its last call
  init_tail    \* the queue item it found to be the last, or None

net  == <<request, reply>>
boot == <<init, init_xid, init_tail>>
vars == <<cur_xid, queue, net, answered, boot>>

Item(x)   == [xid |-> x, timeout |-> 0]
Queued    == {queue[i].xid : i \in 1 .. Len(queue)}
Before(x) == SelectInSeq(queue, LAMBDA q : q.xid = x)

\* The network keeps a packet it delivers, to deliver it again, or does not.
Delivered(packets, x) == {packets, packets \ {x}}

-----------------------------------------------------------------------------
\* Mutant: the item is left in the queue.
get_from_queue_kept(x) == queue

\* Mutant: the first item goes, whatever its id.
get_from_queue_first(x) == Tail(queue)

\* get_from_queue: the queue without the item of x.
get_from_queue(x) == RemoveAt(queue, Before(x))

\* The queue after "tmp->next = q_item" (or "queue = q_item", if tail is None):
\* whatever came behind the tail is cut off, and an item that is no longer in
\* the queue takes the new one with it.
Linked(tail, x) ==
  IF tail = None THEN <<Item(x)>>
  ELSE IF tail \in Queued THEN Append(SubSeq(queue, 1, Before(tail)), Item(x))
  ELSE queue

LastItem == IF queue = <<>> THEN None ELSE queue[Len(queue)].xid

-----------------------------------------------------------------------------
\* The root thread makes calls for the processes and from the callbacks of
\* readdir, all of them after the init thread has made its own.
InitDone == init = "idle" /\ cur_xid >= MountCalls + BootCalls

\* rpc_send by the root thread
rpc_send ==
  /\ InitDone
  /\ cur_xid < MaxCalls
  /\ cur_xid' = cur_xid + 1
  /\ queue' = Linked(LastItem, cur_xid + 1)
  /\ request' = request \cup {cur_xid + 1}
  /\ UNCHANGED <<reply, answered, boot>>

\* signal, the function of a call made with rpc_call: it sends an empty message
\* to the init thread, which cannot tell one from another.
signal(x) == IF x <= MountCalls /\ init = "waiting" THEN "woken" ELSE init

\* my_recv: an answer to no call in the queue is dropped.
my_recv(x) ==
  /\ x \in reply
  /\ reply' \in Delivered(reply, x)
  /\ IF x \in Queued
     THEN /\ queue' = get_from_queue(x)
          /\ answered' = [answered EXCEPT ![x] = @ + 1]
          /\ init' = signal(x)
     ELSE UNCHANGED <<queue, answered, init>>
  /\ UNCHANGED <<cur_xid, request, init_xid, init_tail>>

\* "timeout++ > 5": the call is sent again and counted from 0.
Due(q) == q.timeout > RESEND

Counted(q) == [q EXCEPT !.timeout = IF Due(q) THEN 0 ELSE @ + 1]

\* Mutant: nothing is sent.
ResentNothing == request

\* The network after nfs_timeout has sent the calls that are due.
Resent ==
  request \cup {queue[i].xid : i \in {j \in 1 .. Len(queue) : Due(queue[j])}}

nfs_timeout ==
  /\ TimeoutCalled
  /\ queue # <<>>
  /\ queue' = [i \in 1 .. Len(queue) |-> Counted(queue[i])]
  /\ request' = Resent
  /\ UNCHANGED <<cur_xid, reply, answered, boot>>

-----------------------------------------------------------------------------
\* A call of the init thread: add_to_queue looks for the end of the list ...
add_to_queue ==
  /\ init = "idle"
  /\ cur_xid < MountCalls + BootCalls
  /\ cur_xid' = cur_xid + 1
  /\ init' = "adding"
  /\ init_xid' = cur_xid + 1
  /\ init_tail' = LastItem
  /\ UNCHANGED <<queue, net, answered>>

\* ... and links the item there; the call is sent, and rpc_call waits.
rpc_call ==
  /\ init = "adding"
  /\ queue' = Linked(init_tail, init_xid)
  /\ request' = request \cup {init_xid}
  /\ init' = IF init_xid <= MountCalls THEN "waiting" ELSE "idle"
  /\ UNCHANGED <<cur_xid, reply, answered, init_xid, init_tail>>

\* The init thread has its message and goes on.
rpc_call_returns ==
  /\ init = "woken"
  /\ init' = "idle"
  /\ UNCHANGED <<cur_xid, queue, net, answered, init_xid, init_tail>>

-----------------------------------------------------------------------------
\* The server answers a call it gets, as often as it gets it.
Serve(x) ==
  /\ x \in request
  /\ request' \in Delivered(request, x)
  /\ reply' = reply \cup {x}
  /\ UNCHANGED <<cur_xid, queue, answered, boot>>

\* The network loses a packet.
Lose(x) ==
  /\ \/ x \in request /\ request' = request \ {x} /\ UNCHANGED reply
     \/ x \in reply /\ reply' = reply \ {x} /\ UNCHANGED request
  /\ UNCHANGED <<cur_xid, queue, answered, boot>>

-----------------------------------------------------------------------------
Init ==
  /\ cur_xid = 0
  /\ queue = <<>>
  /\ request = {} /\ reply = {}
  /\ answered = [x \in Xid |-> 0]
  /\ init = "idle" /\ init_xid = None /\ init_tail = None

Root == rpc_send \/ (\E x \in Xid : my_recv(x)) \/ nfs_timeout

InitThread == add_to_queue \/ rpc_call \/ rpc_call_returns

Network == \E x \in Xid : Serve(x) \/ Lose(x)

Next == Root \/ InitThread \/ Network

Spec == Init /\ [][Next]_vars

\* The network delivers a packet that is sent again and again, the server answers and
\* my_recv is called (asked for the first call of the queue only, which is enough), the
\* init thread runs, and nfs_timeout is called by whoever calls it.
FairSpec ==
  /\ Spec
  /\ WF_vars(nfs_timeout)
  /\ WF_vars(InitThread)
  /\ SF_vars(queue # <<>> /\ Serve(queue[1].xid))
  /\ SF_vars(queue # <<>> /\ my_recv(queue[1].xid))

-----------------------------------------------------------------------------
\* Types of the queue and the network.
TypeOK ==
  /\ cur_xid \in 0 .. MaxCalls
  /\ queue \in Seq([xid : Xid, timeout : 0 .. RESEND + 1])
  /\ request \subseteq Xid /\ reply \subseteq Xid
  /\ answered \in [Xid -> Nat]
  /\ init \in {"idle", "adding", "waiting", "woken"}
  /\ {init_xid, init_tail} \subseteq Xid \cup {None}

\* The calls whose caller has returned from rpc_send, or waits for the answer
Made == (1 .. cur_xid) \ (IF init = "adding" THEN {init_xid} ELSE {})

Done == {x \in Xid : answered[x] = 1}

\* What the callers rely on: no call may be forgotten.
Calls == INSTANCE RpcCalls WITH
  Call <- Xid, Racing <- {}, made <- Made, outstanding <- Queued, done <- Done

\* A call that was made is in the queue until it is answered ("Add to end of the linked
\* list", transport.c), and it is answered once at most, however often it is sent and its
\* answer delivered: an answer never takes another call with it, and no call is forgotten
\* (add_to_queue, get_from_queue, my_recv).
ImplementsCalls == Calls!Spec

\* The calls of io_init that it makes while one it does not wait for is under way
Racing == MountCalls + 2 .. MountCalls + BootCalls

\* What they have: these may be.
RacyCalls == INSTANCE RpcCalls WITH
  Call <- Xid, made <- Made, outstanding <- Queued, done <- Done

\* The same, but for the calls of io_init after its first: without a lock in add_to_queue
\* one of them, and no call of anybody else, can be lost while it is made, and neither it
\* nor its loss ever disturbs another call (add_to_queue, get_from_queue, my_recv).
LosesRacingCallsOnly == RacyCalls!Spec

\* Every call in the queue is answered in the end (transport.c: "Items in the queue are
\* resent"), and so is every call made that could not race with an answer while it was
\* put there: again and again none is outstanding, as only MaxCalls are made.
EveryCallAnswered ==
  []<>(Queued = {} /\ \A x \in (1 .. cur_xid) \ Racing : answered[x] > 0)

\* The init thread goes on after rpc_call only when that very call has been
\* answered, and as long as it waits the call is still in the queue: a repeated
\* answer to the call before neither wakes it nor leaves it waiting for ever
\* (transport.c: rpc_call, signal).
WaitsForItsOwnAnswer ==
  /\ TypeOK
  /\ init_xid \in 1 .. MountCalls =>
       /\ init = "waiting" => init_xid \in Queued
       /\ init \in {"woken", "idle"} => answered[init_xid] = 1
=============================================================================
