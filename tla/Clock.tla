------------------------------- MODULE Clock -------------------------------
(***************************************************************************)
(* The clock driver (src/libs/clock/src/clock.c): the 32 bit time stamp    *)
(* register with its overflow interrupt, the queue of sleepers behind      *)
(* general purpose timer 0, and what process deletion does to it.          *)
(*                                                                         *)
(* Time is counted in ticks of the register; TICKS / USECS ticks make one  *)
(* microsecond. The widths of the registers and of C's integers, and the   *)
(* constants 1000 and 500 of the code, are parameters, so that a small     *)
(* instance meets every boundary. Handlers take no time. An interrupt is a *)
(* bit of OST_STATUS and a message to syscall_loop that may wait there.    *)
(***************************************************************************)
EXTENDS Integers, Sequences, FiniteSets, SequencesExt

CONSTANTS
  Thread,      \* threads that may sleep
  Mortal,      \* those of them that may be deleted
  SleepMs,     \* arguments of sleep
  MS,          \* microseconds in a millisecond (1000)
  SLACK,       \* alarms due within SLACK microseconds ring at once (500)
  TICKS,       \* ticks / microseconds of the hardware clock (3333 / 50)
  USECS,
  TS_WRAP,     \* values of the time stamp register (2^32)
  T0_WRAP,     \* values of the timer 0 register (2^32)
  INT_WRAP,    \* values of int (2^32)
  U64_WRAP,    \* values of timestamp_t (2^64)
  MaxTicks     \* bound: ticks of real time

ASSUME ClockAssumption ==
  /\ Mortal \subseteq Thread /\ SleepMs \subseteq Nat
  /\ {MS, TICKS, USECS, TS_WRAP, T0_WRAP, INT_WRAP, U64_WRAP} \subseteq Nat \ {0}
  /\ SLACK \in Nat /\ MaxTicks \in Nat

Off == -1

VARIABLES
  ticks,    \* real time since start_timer
  high,     \* current_timestamp_high
  queue,    \* the alarms behind timer_queue_head, in order
  timer0,   \* ticks left on timer 0, or Off
  status,   \* the interrupt bits of OST_STATUS that are set
  irqs,     \* interrupt messages waiting for syscall_loop
  asleep,   \* for a thread blocked in sleep, when it may wake (ghost), or Off
  early,    \* a thread was woken before its time (ghost)
  panic     \* why the server stopped, or "no"

vars == <<ticks, high, queue, timer0, status, irqs, asleep, early, panic>>

-----------------------------------------------------------------------------
TICKS_TO_MICROSECONDS(t) == (t * USECS) \div TICKS
MICROSECONDS_TO_TICKS(us) == ((us * TICKS) % U64_WRAP) \div USECS

OST_TS == ticks % TS_WRAP

get_time_stamp == high + TICKS_TO_MICROSECONDS(OST_TS)

\* Real time in microseconds (ghost).
RealTime == TICKS_TO_MICROSECONDS(ticks)

\* x as a signed number of the given width.
Signed(x, wrap) == ((x + wrap \div 2) % wrap) - wrap \div 2

\* TIMER0_SET(ticks) and TIMER0_START: the two low bits of the register are
\* control bits, so the count loses them.
TIMER0_SET(t) == LET reg == t % T0_WRAP IN reg - (reg % 4)

Until(alarm) == (alarm.expiration_time - get_time_stamp) % U64_WRAP

-----------------------------------------------------------------------------
\* A new alarm goes in front of the first that expires later.
InsertPosition(alarm) ==
  LET later == {i \in 1 .. Len(queue) :
                  alarm.expiration_time < queue[i].expiration_time}
  IN IF later = {} THEN Len(queue) + 1
     ELSE CHOOSE i \in later : \A j \in later : i <= j

timer_queue_insert(alarm) == InsertAt(queue, InsertPosition(alarm), alarm)

\* Mutant: the delay is taken in milliseconds.
SleepDelayMs(ms) == Signed(ms % INT_WRAP, INT_WRAP) % U64_WRAP

\* sleep_time * 1000 in int, then widened to uint64_t.
SleepDelay(ms) == Signed((ms * MS) % INT_WRAP, INT_WRAP) % U64_WRAP

\* Mutant: register_timer does not program the timer for a new front alarm.
TimerForLate(q, alarm, delay) ==
  IF Len(q) = 1 THEN TIMER0_SET(MICROSECONDS_TO_TICKS(delay)) ELSE timer0

\* Timer 0 after register_timer has left the queue as q.
TimerFor(q, alarm, delay) ==
  IF Head(q) = alarm THEN TIMER0_SET(MICROSECONDS_TO_TICKS(delay)) ELSE timer0

\* sleep_timer and register_timer. Before start_timer, and when malloc has no room for the
\* alarm, register_timer returns before it touches anything and the caller is told: to
\* what is modelled here, a stuttering step.
sleep_timer(t, ms) ==
  LET delay == SleepDelay(ms)
      alarm == [owner |-> t,
                expiration_time |-> (get_time_stamp + delay) % U64_WRAP]
      q     == timer_queue_insert(alarm)
  IN
  /\ panic = "no"
  /\ asleep[t] = Off
  /\ queue' = q
  /\ timer0' = TimerFor(q, alarm, delay)
  /\ asleep' = [asleep EXCEPT ![t] = RealTime + ms * MS]
  /\ UNCHANGED <<ticks, high, status, irqs, early, panic>>

-----------------------------------------------------------------------------
\* The alarms that timer0_irq rings: it takes the head while that is due.
Due(alarm) == Signed(Until(alarm), U64_WRAP) <= SLACK

Ringing == {i \in 1 .. Len(queue) : \A j \in 1 .. i : Due(queue[j])}

\* Writing OST_STATUS back with "|=" clears every bit that is set.
ClearStatus == {}

TimerAfterIrq(q) ==
  IF q = <<>> THEN timer0
  ELSE TIMER0_SET(MICROSECONDS_TO_TICKS(Until(Head(q))))

timer0_irq ==
  LET n     == Cardinality(Ringing)
      rung  == {queue[i].owner : i \in Ringing}
      q     == SubSeq(queue, n + 1, Len(queue))
  IN
  /\ panic = "no"
  /\ "t0" \in irqs /\ "t0" \in status
  /\ queue # <<>>
  /\ irqs' = irqs \ {"t0"}
  /\ status' = ClearStatus
  /\ queue' = q
  /\ timer0' = TimerAfterIrq(q)
  /\ asleep' = [t \in Thread |-> IF t \in rung THEN Off ELSE asleep[t]]
  /\ early' = (early \/ \E t \in rung : RealTime + SLACK < asleep[t])
  /\ UNCHANGED <<ticks, high, panic>>

\* The assertions at the head of timer0_irq and timer_overflow_irq.
timer0_irq_asserts ==
  /\ panic = "no"
  /\ "t0" \in irqs
  /\ "t0" \notin status \/ queue = <<>>
  /\ panic' = IF "t0" \notin status THEN "status" ELSE "no alarm"
  /\ UNCHANGED <<ticks, high, queue, timer0, status, irqs, asleep, early>>

\* Mutant: the overflow is added twice.
OverflowTwice == high + 2 * TICKS_TO_MICROSECONDS(TS_WRAP - 1)

HighAfterOverflow == high + TICKS_TO_MICROSECONDS(TS_WRAP - 1)

timer_overflow_irq ==
  /\ panic = "no"
  /\ "ts" \in irqs
  /\ irqs' = irqs \ {"ts"}
  /\ IF "ts" \in status
     THEN /\ high' = HighAfterOverflow
          /\ status' = ClearStatus
          /\ panic' = panic
     ELSE /\ panic' = "status"
          /\ UNCHANGED <<high, status>>
  /\ UNCHANGED <<ticks, queue, timer0, asleep, early>>

-----------------------------------------------------------------------------
\* Mutant: only an alarm at the head of the queue is removed.
WithoutHeadOf(t) ==
  IF queue # <<>> /\ Head(queue).owner = t THEN Tail(queue) ELSE queue

\* The alarms that remove_timers leaves. A thread has at most one.
Without(t) ==
  IF \E i \in 1 .. Len(queue) : queue[i].owner = t
  THEN RemoveAt(queue, CHOOSE i \in 1 .. Len(queue) : queue[i].owner = t)
  ELSE queue

\* remove_timers programs the timer for the new head, if there is one, and does
\* not stop it otherwise.
TimerWithout(t) ==
  IF Without(t) = <<>> \/ Head(queue).owner # t THEN timer0
  ELSE LET left == Until(Head(Without(t)))
       IN TIMER0_SET(MICROSECONDS_TO_TICKS(IF left > 1 THEN left ELSE 1))

\* delete_process of thread t as far as the clock is concerned. With a queue
\* that is not empty remove_timers always reads the owner of a NULL alarm, past
\* the last element or past the emptied head: the build faults or goes on.
remove_timers(t) ==
  /\ panic = "no"
  /\ t \in Mortal
  /\ queue' = Without(t)
  /\ timer0' = IF queue = <<>> THEN timer0 ELSE TimerWithout(t)
  /\ panic' \in IF queue = <<>> THEN {"no"} ELSE {"no", "null"}
  /\ asleep' = [asleep EXCEPT ![t] = Off]
  /\ UNCHANGED <<ticks, high, status, irqs, early>>

-----------------------------------------------------------------------------
\* One tick of the hardware: the time stamp register wraps with an interrupt,
\* and timer 0 counts down once and interrupts at zero. An overflow interrupt is
\* taken up before the register wraps again, a minute later.
Tick ==
  LET wraps == (ticks + 1) % TS_WRAP = 0
      rings == timer0 \in {0, 1}
      raised == {b \in {"ts", "t0"} : (b = "ts" /\ wraps) \/ (b = "t0" /\ rings)}
  IN
  /\ panic = "no"
  /\ ticks < MaxTicks
  /\ wraps => "ts" \notin irqs
  /\ ticks' = ticks + 1
  /\ timer0' = IF rings THEN Off ELSE IF timer0 = Off THEN Off ELSE timer0 - 1
  /\ status' = status \cup raised
  /\ irqs' = irqs \cup raised
  /\ UNCHANGED <<high, queue, asleep, early, panic>>

\* start_timer
Init ==
  /\ ticks = 0
  /\ high = 0
  /\ queue = <<>>
  /\ timer0 = Off
  /\ status = {}
  /\ irqs = {}
  /\ asleep = [t \in Thread |-> Off]
  /\ early = FALSE
  /\ panic = "no"

Next ==
  \/ Tick
  \/ \E t \in Thread, ms \in SleepMs : sleep_timer(t, ms)
  \/ \E t \in Thread : remove_timers(t)
  \/ timer0_irq
  \/ timer0_irq_asserts
  \/ timer_overflow_irq

Spec == Init /\ [][Next]_vars

-----------------------------------------------------------------------------
\* Types of the driver's variables, of the hardware's and of the ghosts.
TypeOK ==
  /\ ticks \in 0 .. MaxTicks
  /\ high \in Nat
  /\ queue \in Seq([owner : Thread, expiration_time : 0 .. U64_WRAP - 1])
  /\ timer0 \in Off .. T0_WRAP - 1
  /\ status \subseteq {"ts", "t0"} /\ irqs \subseteq {"ts", "t0"}
  /\ asleep \in [Thread -> Nat \cup {Off}]
  /\ early \in BOOLEAN
  /\ panic \in {"no", "null", "no alarm", "status"}

\* A thread is blocked in sleep exactly when it has an alarm, and then it has
\* one: no sleeper is forgotten, none is woken twice, and a deleted thread
\* leaves no alarm that would wake the next owner of its thread id
\* (clock.c: register_timer, timer0_irq, remove_timers).
EverySleeperQueued ==
  /\ \A t \in Thread :
       asleep[t] # Off <=> \E i \in 1 .. Len(queue) : queue[i].owner = t
  /\ \A i, j \in 1 .. Len(queue) : i # j => queue[i].owner # queue[j].owner

\* The queue is sorted, so that the head is the alarm to program next
\* (clock.c: "Queue is sorted based on the expiration time").
QueueSorted ==
  \A i, j \in 1 .. Len(queue) :
    i < j => queue[i].expiration_time <= queue[j].expiration_time

\* The alarm queue is what its comments promise: sorted, with one alarm for every
\* sleeper and none for anyone else, whoever comes, wakes or is deleted
\* (clock.c: timer_queue_insert, timer0_irq, remove_timers).
AlarmQueueSound == TypeOK /\ EverySleeperQueued /\ QueueSorted

\* While anyone sleeps an interrupt is on its way, so whoever sleeps wakes up;
\* and until the time stamp register wraps for the first time it comes no later
\* than a microsecond after the first alarm, seen from any time up to that alarm
\* (clock.c: register_timer, timer0_irq, remove_timers). Once the first alarm is
\* overdue the code does not promise it: two heads of the queue deleted in the
\* microsecond after they were due leave the next one a delay below zero, and
\* remove_timers takes that for a very long one.
AlarmOnItsWay ==
  panic = "no" /\ queue # <<>> /\ "t0" \notin irqs =>
    /\ timer0 # Off
    /\ ticks < TS_WRAP /\ get_time_stamp <= Head(queue).expiration_time =>
         TICKS_TO_MICROSECONDS(ticks + timer0) <= Head(queue).expiration_time + 1

\* Nobody wakes more than SLACK microseconds before the time it asked for
\* (sos.h: sleep "Sleeps for the specified number of milliseconds"), until the
\* time stamp register wraps for the first time: a thread that goes to sleep
\* between the wrap and its interrupt reckons from a time too small.
NobodyWakesEarly == ticks < TS_WRAP => ~early

\* The high part counts every wrap of the register, less the one tick that each
\* adds too little, as long as no interrupt waits (clock.c: timer_overflow_irq).
HighCountsWraps ==
  panic = "no" /\ "ts" \notin irqs =>
    high = (ticks \div TS_WRAP) * TICKS_TO_MICROSECONDS(TS_WRAP - 1)
=============================================================================
