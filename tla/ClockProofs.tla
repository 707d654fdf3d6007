---------------------------- MODULE ClockProofs ----------------------------
(***************************************************************************)
(* Proofs about Clock: the queue is always exact and sorted, every wrap of *)
(* the time stamp is counted once, nobody wakes early, and whoever sleeps  *)
(* has an interrupt coming. Times, widths and the number of threads are    *)
(* arbitrary; the last two results take the widths not to be too small.    *)
(***************************************************************************)
EXTENDS Clock, FiniteSetTheorems, SequenceTheorems, WellFoundedInduction, TLAPS

\* InsertAt puts e at position i and keeps the order of the others.
LEMMA InsertAtPointwise ==
  ASSUME NEW S, NEW s \in Seq(S), NEW e \in S, NEW i \in 1 .. Len(s) + 1
  PROVE  /\ InsertAt(s, i, e) \in Seq(S)
         /\ Len(InsertAt(s, i, e)) = Len(s) + 1
         /\ \A k \in 1 .. Len(s) + 1 :
              InsertAt(s, i, e)[k] =
                IF k < i THEN s[k] ELSE IF k = i THEN e ELSE s[k - 1]
<1> DEFINE a == SubSeq(s, 1, i - 1)
           b == SubSeq(s, i, Len(s))
           c == a \o <<e>>
           r == c \o b
<1>1. /\ a \in Seq(S) /\ Len(a) = i - 1
      /\ \A k \in 1 .. i - 1 : a[k] = s[k]
  OBVIOUS
<1>2. /\ b \in Seq(S) /\ Len(b) = Len(s) + 1 - i
      /\ \A k \in 1 .. Len(s) + 1 - i : b[k] = s[i + k - 1]
  OBVIOUS
<1>3. InsertAt(s, i, e) = r
  BY DEF InsertAt
<1> HIDE DEF a, b
<1>4. /\ c \in Seq(S) /\ Len(c) = i
      /\ \A k \in 1 .. i : c[k] = IF k = i THEN e ELSE s[k]
  BY <1>1
<1> HIDE DEF c
<1>5. /\ r \in Seq(S) /\ Len(r) = Len(c) + Len(b)
      /\ \A k \in 1 .. Len(c) + Len(b) :
           r[k] = IF k <= Len(c) THEN c[k] ELSE b[k - Len(c)]
  BY <1>2, <1>4, ConcatProperties, Zenon
<1> HIDE DEF r
<1>6. Len(r) = Len(s) + 1
  BY <1>2, <1>4, <1>5
<1>7. \A k \in 1 .. Len(s) + 1 :
        r[k] = IF k < i THEN s[k] ELSE IF k = i THEN e ELSE s[k - 1]
  BY <1>2, <1>4, <1>5
<1>8. QED  BY <1>3, <1>5, <1>6, <1>7

\* RemoveAt takes position i out and keeps the order of the others.
LEMMA RemoveAtPointwise ==
  ASSUME NEW S, NEW s \in Seq(S), NEW i \in 1 .. Len(s)
  PROVE  /\ RemoveAt(s, i) \in Seq(S)
         /\ Len(RemoveAt(s, i)) = Len(s) - 1
         /\ \A k \in 1 .. Len(s) - 1 :
              RemoveAt(s, i)[k] = IF k < i THEN s[k] ELSE s[k + 1]
<1> DEFINE a == SubSeq(s, 1, i - 1)
           b == SubSeq(s, i + 1, Len(s))
           r == a \o b
<1>1. /\ a \in Seq(S) /\ Len(a) = i - 1
      /\ \A k \in 1 .. i - 1 : a[k] = s[k]
  OBVIOUS
<1>2. /\ b \in Seq(S) /\ Len(b) = Len(s) - i
      /\ \A k \in 1 .. Len(s) - i : b[k] = s[i + k]
  OBVIOUS
<1>3. RemoveAt(s, i) = r
  BY DEF RemoveAt
<1> HIDE DEF a, b
<1>4. /\ r \in Seq(S) /\ Len(r) = Len(a) + Len(b)
      /\ \A k \in 1 .. Len(a) + Len(b) :
           r[k] = IF k <= Len(a) THEN a[k] ELSE b[k - Len(a)]
  BY <1>1, <1>2, ConcatProperties, Zenon
<1> HIDE DEF r
<1>5. Len(r) = Len(s) - 1 /\ Len(a) + Len(b) = Len(s) - 1
  BY <1>1, <1>2, <1>4
<1> DEFINE l == Len(s) - 1
<1>6. \A k \in 1 .. l : r[k] = IF k <= i - 1 THEN a[k] ELSE b[k - (i - 1)]
  BY <1>1, <1>4, <1>5, Zenon
<1>7. ASSUME NEW k \in 1 .. Len(s) - 1
      PROVE  r[k] = IF k < i THEN s[k] ELSE s[k + 1]
  <2>1. CASE k < i
    BY <2>1, <1>1, <1>6
  <2>2. CASE k >= i
    <3>1. k - (i - 1) \in 1 .. Len(s) - i /\ i + (k - (i - 1)) = k + 1
      BY <2>2
    <3>2. r[k] = b[k - (i - 1)]
      BY <2>2, <1>1, <1>6
    <3>3. b[k - (i - 1)] = s[k + 1]
      BY <3>1, <1>2
    <3>4. QED  BY <2>2, <3>2, <3>3
  <2>3. QED  BY <2>1, <2>2
<1>8. QED  BY <1>3, <1>4, <1>5, <1>7

\* A set of naturals that is not empty has a least member.
LEMMA LeastMember ==
  ASSUME NEW T, T \subseteq Nat, T # {}
  PROVE  \E m \in T : \A n \in T : m <= n
<1>1. PICK m \in T : \A n \in T : ~(<<n, m>> \in OpToRel(<, Nat))
  BY NatLessThanWellFounded, WFMin
<1>2. ASSUME NEW n \in T, n < m
      PROVE  FALSE
  <2>1. <<n, m>> \in Nat \X Nat
    OBVIOUS
  <2>2. <<n, m>>[1] < <<n, m>>[2]
    BY <1>2
  <2>3. <<n, m>> \in OpToRel(<, Nat)
    BY <2>1, <2>2, Zenon DEF OpToRel
  <2>4. QED  BY <1>1, <2>3
<1>3. QED  BY <1>2

-----------------------------------------------------------------------------
\* The arithmetic of the clock.
LEMMA DivNat ==
  ASSUME NEW x \in Nat, NEW y \in Nat \ {0}
  PROVE  x \div y \in Nat
OBVIOUS

\* A remainder is below its modulus.
LEMMA ModRange ==
  ASSUME NEW x \in Int, NEW y \in Nat \ {0}
  PROVE  x % y \in 0 .. y - 1
OBVIOUS

\* A product of naturals is one.
LEMMA ProdNat ==
  ASSUME NEW x \in Nat, NEW y \in Nat
  PROVE  x * y \in Nat
OBVIOUS

\* A remainder is no more than the number.
LEMMA ModAtMost ==
  ASSUME NEW x \in Nat, NEW y \in Nat \ {0}
  PROVE  x % y <= x
OBVIOUS

\* A number below the modulus is its own remainder.
LEMMA ModSmall ==
  ASSUME NEW y \in Nat \ {0}, NEW x \in 0 .. y - 1
  PROVE  x % y = x
OBVIOUS

\* Division keeps the order.
LEMMA DivMonotone ==
  ASSUME NEW x \in Nat, NEW z \in Nat, x <= z, NEW y \in Nat \ {0}
  PROVE  x \div y <= z \div y
<1>1. x \div y \in Nat /\ z \div y \in Nat
  BY DivNat
<1>2. y * (x \div y) <= x /\ z < y * (z \div y) + y
  OBVIOUS
<1> DEFINE p == x \div y
           q == z \div y
<1> HIDE DEF p, q
<1>3. y * p < y * (q + 1)
  BY <1>1, <1>2 DEF p, q
<1>4. p < q + 1
  <2>1. SUFFICES ASSUME p >= q + 1 PROVE FALSE
    BY <1>1 DEF p, q
  <2>2. y * p >= y * (q + 1)
    BY <2>1, <1>1 DEF p, q
  <2>3. QED  BY <2>2, <1>3, <1>1 DEF p, q
<1>5. QED  BY <1>4, <1>1 DEF p, q

\* A signed number of the given width is itself while it is in the range.
LEMMA SignedSmall ==
  ASSUME NEW w \in Nat \ {0}, NEW x \in Int,
         - (w \div 2) <= x, x < w \div 2
  PROVE  Signed(x % w, w) = x
<1> DEFINE h == w \div 2
<1>1. h \in Nat /\ 2 * h <= w
  OBVIOUS
<1> HIDE DEF h
<1>2. CASE x >= 0
  <2>1. x % w = x
    BY <1>2, <1>1 DEF h
  <2>2. (x + h) % w = x + h
    BY <1>2, <1>1 DEF h
  <2>3. QED  BY <2>1, <2>2 DEF Signed, h
<1>3. CASE x < 0
  <2>1. x % w = x + w
    BY <1>3, <1>1 DEF h
  <2>2. ((x + w) + h) % w = x + h
    BY <1>3, <1>1 DEF h
  <2>3. QED  BY <2>1, <2>2, <1>1 DEF Signed, h
<1>4. QED  BY <1>2, <1>3

-----------------------------------------------------------------------------
Alarm == [owner : Thread, expiration_time : 0 .. U64_WRAP - 1]

\* The constants of the clock, one by one.
LEMMA ConstantTypes ==
  /\ MS \in Nat \ {0} /\ TICKS \in Nat \ {0} /\ USECS \in Nat \ {0}
  /\ TS_WRAP \in Nat \ {0} /\ T0_WRAP \in Nat \ {0}
  /\ INT_WRAP \in Nat \ {0} /\ U64_WRAP \in Nat \ {0}
  /\ SLACK \in Nat /\ MaxTicks \in Nat /\ SleepMs \subseteq Nat
BY ClockAssumption

\* What the conversions return.
LEMMA ConversionTypes ==
  ASSUME NEW x \in Nat
  PROVE  /\ TICKS_TO_MICROSECONDS(x) \in Nat
         /\ MICROSECONDS_TO_TICKS(x) \in Nat
         /\ TIMER0_SET(x) \in 0 .. T0_WRAP - 1
         /\ TIMER0_SET(x) <= x
<1>1. TICKS_TO_MICROSECONDS(x) \in Nat
  BY ConstantTypes, ProdNat, DivNat DEF TICKS_TO_MICROSECONDS
<1>2. MICROSECONDS_TO_TICKS(x) \in Nat
  <2>1. x * TICKS \in Nat
    BY ConstantTypes, ProdNat
  <2>2. (x * TICKS) % U64_WRAP \in Nat
    BY <2>1, ConstantTypes, ModRange
  <2>3. QED  BY <2>2, ConstantTypes, DivNat DEF MICROSECONDS_TO_TICKS
<1> DEFINE r == x % T0_WRAP
<1>3. r \in 0 .. T0_WRAP - 1 /\ r <= x
  <2>1. x \in Int /\ T0_WRAP \in Nat \ {0}
    BY ConstantTypes
  <2>2. QED  BY <2>1, ModRange, ModAtMost
<1>4. TIMER0_SET(x) = r - (r % 4)
  BY DEF TIMER0_SET
<1> HIDE DEF r
<1>5. TIMER0_SET(x) \in 0 .. T0_WRAP - 1 /\ TIMER0_SET(x) <= x
  BY <1>3, <1>4, ConstantTypes
<1>6. QED  BY <1>1, <1>2, <1>5

\* The queue holds alarms.
LEMMA QueueType ==
  ASSUME TypeOK
  PROVE  /\ queue \in Seq(Alarm) /\ Len(queue) \in Nat
         /\ \A i \in 1 .. Len(queue) :
              /\ queue[i] \in Alarm /\ queue[i].owner \in Thread
              /\ queue[i].expiration_time \in 0 .. U64_WRAP - 1
              /\ queue[i].expiration_time \in Int
<1>1. queue \in Seq(Alarm)
  BY Zenon DEF TypeOK, Alarm
<1>2. Len(queue) \in Nat /\ \A i \in 1 .. Len(queue) : queue[i] \in Alarm
  BY <1>1
<1>3. \A a \in Alarm : /\ a.owner \in Thread
                      /\ a.expiration_time \in 0 .. U64_WRAP - 1
  BY DEF Alarm
<1>4. \A x \in 0 .. U64_WRAP - 1 : x \in Int
  BY ConstantTypes
<1>5. QED  BY <1>1, <1>2, <1>3, <1>4, Zenon

\* The time is a natural number, and timer 0 holds what was written to it.
LEMMA TimeTypes ==
  ASSUME TypeOK
  PROVE  /\ get_time_stamp \in Nat
         /\ RealTime \in Nat
         /\ \A a \in Alarm : Until(a) \in 0 .. U64_WRAP - 1
         /\ \A x \in Nat : TIMER0_SET(MICROSECONDS_TO_TICKS(x)) \in 0 .. T0_WRAP - 1
         /\ \A ms \in SleepMs : SleepDelay(ms) \in 0 .. U64_WRAP - 1
<1>1. ticks \in Nat /\ high \in Nat
  <2>1. ticks \in 0 .. MaxTicks /\ high \in Nat
    BY Zenon DEF TypeOK
  <2>2. QED  BY <2>1, ConstantTypes
<1>2. OST_TS \in Nat
  BY <1>1, ConstantTypes, ModRange DEF OST_TS
<1>3. get_time_stamp \in Nat /\ RealTime \in Nat
  BY <1>1, <1>2, ConversionTypes DEF get_time_stamp, RealTime
<1>4. ASSUME NEW a \in Alarm
      PROVE  Until(a) \in 0 .. U64_WRAP - 1
  <2>1. a.expiration_time - get_time_stamp \in Int
    BY <1>3, ConstantTypes DEF Alarm
  <2>2. QED  BY <2>1, ConstantTypes, ModRange DEF Until
<1>5. \A x \in Nat : TIMER0_SET(MICROSECONDS_TO_TICKS(x)) \in 0 .. T0_WRAP - 1
  BY ConversionTypes
<1>6. ASSUME NEW ms \in SleepMs
      PROVE  SleepDelay(ms) \in 0 .. U64_WRAP - 1
  <2>1. ms * MS \in Nat
    BY ConstantTypes, ProdNat
  <2>2. (ms * MS) % INT_WRAP \in Nat
    BY <2>1, ConstantTypes, ModRange
  <2>3. Signed((ms * MS) % INT_WRAP, INT_WRAP) \in Int
    BY <2>2, ConstantTypes DEF Signed
  <2>4. QED  BY <2>3, ConstantTypes, ModRange DEF SleepDelay
<1>7. QED  BY <1>3, <1>4, <1>5, <1>6

-----------------------------------------------------------------------------
\* Every alarm before the place of a new one expires no later, every alarm from
\* there on expires later: the queue stays sorted.
LEMMA InsertPositionSound ==
  ASSUME TypeOK, QueueSorted, NEW a \in Alarm
  PROVE  /\ InsertPosition(a) \in 1 .. Len(queue) + 1
         /\ \A i \in 1 .. Len(queue) :
              i < InsertPosition(a) =>
                queue[i].expiration_time <= a.expiration_time
         /\ \A i \in 1 .. Len(queue) :
              i >= InsertPosition(a) =>
                a.expiration_time < queue[i].expiration_time
<1> DEFINE p == InsertPosition(a)
           later == {i \in 1 .. Len(queue) :
                       a.expiration_time < queue[i].expiration_time}
<1>1. queue \in Seq(Alarm) /\ Len(queue) \in Nat
  BY QueueType
<1>2. \A i \in 1 .. Len(queue) : queue[i].expiration_time \in Int
  BY QueueType
<1>3. a.expiration_time \in Int
  BY ConstantTypes DEF Alarm
<1>4. CASE later = {}
  <2>1. p = Len(queue) + 1
    BY <1>4 DEF InsertPosition
  <2>2. QED  BY <1>1, <1>2, <1>3, <1>4, <2>1
<1>5. CASE later # {}
  <2>1. later \subseteq Nat
    BY <1>1
  <2>2. \E m \in later : \A n \in later : m <= n
    BY <2>1, <1>5, LeastMember
  <2>3. p = CHOOSE i \in later : \A j \in later : i <= j
    BY <1>5 DEF InsertPosition
  <2>4. p \in later /\ \A j \in later : p <= j
    BY <2>2, <2>3
  <2>5. ASSUME NEW i \in 1 .. Len(queue), i < p
        PROVE  queue[i].expiration_time <= a.expiration_time
    BY <2>4, <2>5, <1>1, <1>2, <1>3
  <2>6. ASSUME NEW i \in 1 .. Len(queue), i >= p
        PROVE  a.expiration_time < queue[i].expiration_time
    <3>1. queue[p].expiration_time <= queue[i].expiration_time
      BY <2>4, <2>6, <1>1, <1>2 DEF QueueSorted
    <3>2. a.expiration_time < queue[p].expiration_time /\ p \in 1 .. Len(queue)
      BY <2>4
    <3>3. QED  BY <3>1, <3>2, <1>2, <1>3
  <2>7. p \in 1 .. Len(queue) + 1
    BY <2>4, <1>1
  <2>8. QED  BY <2>5, <2>6, <2>7
<1>6. QED  BY <1>4, <1>5

\* timer0_irq rings the alarms at the front that are due, and the one after them
\* is not due.
LEMMA RingingIsPrefix ==
  ASSUME TypeOK
  PROVE  \E n \in 0 .. Len(queue) :
           /\ Ringing = 1 .. n
           /\ Cardinality(Ringing) = n
           /\ n < Len(queue) => ~Due(queue[n + 1])
<1>1. Len(queue) \in Nat
  BY QueueType
<1> DEFINE l == Len(queue)
           T == {i \in 1 .. l + 1 : i = l + 1 \/ ~Due(queue[i])}
<1> HIDE DEF l
<1>2. T \subseteq Nat /\ l + 1 \in T
  BY <1>1 DEF l
<1> HIDE DEF T
<1>3. PICK m \in T : \A n \in T : m <= n
  BY <1>2, LeastMember
<1> USE DEF T
<1>4. m \in 1 .. l + 1
  BY <1>3
<1>5. \A i \in 1 .. m - 1 : Due(queue[i])
  BY <1>3, <1>4, <1>1 DEF l
<1>6. m < l + 1 => ~Due(queue[m])
  BY <1>3, <1>4, <1>1 DEF l
<1>7. Ringing = 1 .. m - 1
  <2>1. ASSUME NEW i \in 1 .. m - 1
        PROVE  i \in Ringing
    BY <2>1, <1>1, <1>4, <1>5 DEF Ringing, l
  <2>2. ASSUME NEW i \in Ringing
        PROVE  i \in 1 .. m - 1
    BY <2>2, <1>1, <1>4, <1>6 DEF Ringing, l
  <2>3. QED  BY <2>1, <2>2
<1>8. Cardinality(1 .. m - 1) = m - 1
  <2>1. Cardinality(1 .. m - 1) = IF 1 > m - 1 THEN 0 ELSE (m - 1) - 1 + 1
    BY <1>4, <1>1, FS_Interval DEF l
  <2>2. QED  BY <2>1, <1>4, <1>1 DEF l
<1>9. m - 1 \in 0 .. l /\ (m - 1) + 1 = m
  BY <1>4, <1>1 DEF l
<1>10. QED  BY <1>6, <1>7, <1>8, <1>9 DEF l

-----------------------------------------------------------------------------
\* What the operations do to the queue, position by position.
\* Alarm a has joined the queue at position p, behind those that expire no later
\* and before those that expire later.
Joined(a, p) ==
  /\ queue' \in Seq(Alarm)
  /\ Len(queue') = Len(queue) + 1
  /\ p \in 1 .. Len(queue) + 1
  /\ \A k \in 1 .. Len(queue) + 1 :
       queue'[k] = IF k < p THEN queue[k] ELSE IF k = p THEN a ELSE queue[k - 1]
  /\ \A i \in 1 .. Len(queue) :
       i < p => queue[i].expiration_time <= a.expiration_time
  /\ \A i \in 1 .. Len(queue) :
       i >= p => a.expiration_time < queue[i].expiration_time

\* The first n alarms have left the queue.
Rung(n) ==
  /\ queue' \in Seq(Alarm)
  /\ n \in 0 .. Len(queue)
  /\ Len(queue') = Len(queue) - n
  /\ \A k \in 1 .. Len(queue) - n : queue'[k] = queue[k + n]

\* The alarm at position p has left the queue.
Left(p) ==
  /\ queue' \in Seq(Alarm)
  /\ p \in 1 .. Len(queue)
  /\ Len(queue') = Len(queue) - 1
  /\ \A k \in 1 .. Len(queue) - 1 :
       queue'[k] = IF k < p THEN queue[k] ELSE queue[k + 1]

\* The alarm that sleep_timer makes.
NewAlarm(t, ms) ==
  [owner |-> t, expiration_time |-> (get_time_stamp + SleepDelay(ms)) % U64_WRAP]

\* The new alarm is an alarm of its sleeper.
LEMMA NewAlarmType ==
  ASSUME TypeOK, NEW t \in Thread, NEW ms \in SleepMs
  PROVE  /\ NewAlarm(t, ms) \in Alarm
         /\ NewAlarm(t, ms).owner = t
         /\ NewAlarm(t, ms).expiration_time =
              (get_time_stamp + SleepDelay(ms)) % U64_WRAP
         /\ NewAlarm(t, ms).expiration_time \in 0 .. U64_WRAP - 1
<1> DEFINE x == get_time_stamp + SleepDelay(ms)
<1>1. x \in Int
  BY TimeTypes, ConstantTypes
<1> HIDE DEF x
<1>2. x % U64_WRAP \in 0 .. U64_WRAP - 1
  BY <1>1, ConstantTypes, ModRange
<1>3. NewAlarm(t, ms) = [owner |-> t, expiration_time |-> x % U64_WRAP]
  BY DEF NewAlarm, x
<1>4. QED  BY <1>2, <1>3 DEF Alarm, x

\* sleep_timer, seen from the queue.
LEMMA SleepEffect ==
  ASSUME TypeOK, QueueSorted, NEW t \in Thread, NEW ms \in SleepMs, sleep_timer(t, ms)
  PROVE  /\ \E p \in 1 .. Len(queue) + 1 : Joined(NewAlarm(t, ms), p)
         /\ asleep[t] = Off
         /\ asleep' = [asleep EXCEPT ![t] = RealTime + ms * MS]
         /\ timer0' = IF Head(queue') = NewAlarm(t, ms)
                      THEN TIMER0_SET(MICROSECONDS_TO_TICKS(SleepDelay(ms)))
                      ELSE timer0
         /\ UNCHANGED <<ticks, high, status, irqs, early, panic>>
<1> DEFINE a == NewAlarm(t, ms)
           p == InsertPosition(a)
<1>1. /\ queue' = InsertAt(queue, p, a)
      /\ asleep[t] = Off
      /\ asleep' = [asleep EXCEPT ![t] = RealTime + ms * MS]
      /\ UNCHANGED <<ticks, high, status, irqs, early, panic>>
  BY DEF sleep_timer, timer_queue_insert, NewAlarm
<1>2. timer0' = IF Head(queue') = a
                THEN TIMER0_SET(MICROSECONDS_TO_TICKS(SleepDelay(ms)))
                ELSE timer0
  BY DEF sleep_timer, timer_queue_insert, NewAlarm, TimerFor
<1>3. a \in Alarm
  BY NewAlarmType
<1> HIDE DEF a
<1>4. /\ p \in 1 .. Len(queue) + 1
      /\ \A i \in 1 .. Len(queue) :
           i < p => queue[i].expiration_time <= a.expiration_time
      /\ \A i \in 1 .. Len(queue) :
           i >= p => a.expiration_time < queue[i].expiration_time
  BY <1>3, InsertPositionSound
<1> HIDE DEF p
<1>5. queue \in Seq(Alarm)
  BY QueueType
<1>6. /\ queue' \in Seq(Alarm)
      /\ Len(queue') = Len(queue) + 1
      /\ \A k \in 1 .. Len(queue) + 1 :
           queue'[k] = IF k < p THEN queue[k] ELSE IF k = p THEN a ELSE queue[k - 1]
  <2>1. p \in 1 .. Len(queue) + 1
    BY <1>4
  <2> DEFINE r == InsertAt(queue, p, a)
  <2>2. /\ r \in Seq(Alarm)
        /\ Len(r) = Len(queue) + 1
        /\ \A k \in 1 .. Len(queue) + 1 :
             r[k] = IF k < p THEN queue[k] ELSE IF k = p THEN a ELSE queue[k - 1]
    BY <1>3, <1>5, <2>1, InsertAtPointwise
  <2>3. queue' = r
    BY <1>1
  <2> HIDE DEF r
  <2>4. QED  BY <2>2, <2>3
<1>7. Joined(a, p)
  BY <1>4, <1>6, Zenon DEF Joined
<1>8. QED  BY <1>1, <1>2, <1>4, <1>7 DEF a

\* timer0_irq, seen from the queue.
LEMMA IrqEffect ==
  ASSUME TypeOK, timer0_irq
  PROVE  \E n \in 0 .. Len(queue) :
           /\ Rung(n)
           /\ Ringing = 1 .. n
           /\ n < Len(queue) => ~Due(queue[n + 1])
           /\ timer0' = TimerAfterIrq(queue')
<1>1. PICK n \in 0 .. Len(queue) :
        /\ Ringing = 1 .. n
        /\ Cardinality(Ringing) = n
        /\ n < Len(queue) => ~Due(queue[n + 1])
  BY RingingIsPrefix
<1>2. queue' = SubSeq(queue, n + 1, Len(queue)) /\ timer0' = TimerAfterIrq(queue')
  BY <1>1 DEF timer0_irq
<1>3. queue \in Seq(Alarm) /\ Len(queue) \in Nat
  BY QueueType
<1>4. /\ SubSeq(queue, n + 1, Len(queue)) \in Seq(Alarm)
      /\ Len(SubSeq(queue, n + 1, Len(queue))) = Len(queue) - n
      /\ \A k \in 1 .. Len(queue) - n :
           SubSeq(queue, n + 1, Len(queue))[k] = queue[k + n]
  BY <1>3
<1>5. Rung(n)
  BY <1>2, <1>4 DEF Rung
<1>6. QED  BY <1>1, <1>2, <1>5

\* remove_timers, seen from the queue.
LEMMA RemoveEffect ==
  ASSUME TypeOK, NEW t \in Thread, remove_timers(t)
  PROVE  \/ /\ \E p \in 1 .. Len(queue) : queue[p].owner = t /\ Left(p)
            /\ timer0' = TimerWithout(t)
         \/ /\ \A i \in 1 .. Len(queue) : queue[i].owner # t
            /\ queue' = queue
            /\ timer0' = timer0
<1>1. queue \in Seq(Alarm) /\ Len(queue) \in Nat
  BY QueueType
<1>2. CASE \E i \in 1 .. Len(queue) : queue[i].owner = t
  <2> DEFINE p == CHOOSE i \in 1 .. Len(queue) : queue[i].owner = t
  <2>1. p \in 1 .. Len(queue) /\ queue[p].owner = t
    BY <1>2
  <2>2. queue' = RemoveAt(queue, p)
    BY <1>2 DEF remove_timers, Without
  <2> HIDE DEF p
  <2>3. Left(p)
    BY <1>1, <2>1, <2>2, RemoveAtPointwise, Zenon DEF Left
  <2>4. queue # <<>>
    BY <2>1, <1>1
  <2>5. timer0' = TimerWithout(t)
    BY <2>4 DEF remove_timers
  <2>6. QED  BY <2>1, <2>3, <2>5
<1>3. CASE ~(\E i \in 1 .. Len(queue) : queue[i].owner = t)
  <2>1. Without(t) = queue
    BY <1>3 DEF Without
  <2>2. queue' = queue
    BY <2>1 DEF remove_timers
  <2>3. queue # <<>> => Head(queue) = queue[1] /\ 1 \in 1 .. Len(queue)
    BY <1>1
  <2>4. queue # <<>> => Head(queue).owner # t
    BY <2>3, <1>3
  <2>5. timer0' = timer0
    BY <2>1, <2>4 DEF remove_timers, TimerWithout
  <2>6. QED  BY <1>3, <2>2, <2>5
<1>4. QED  BY <1>2, <1>3

-----------------------------------------------------------------------------
\* The queue is sound when the driver starts.
LEMMA InitSound == Init => AlarmQueueSound
<1> SUFFICES ASSUME Init PROVE AlarmQueueSound
  OBVIOUS
<1>1. queue = <<>> /\ Len(queue) = 0 /\ queue \in Seq(Alarm)
  BY DEF Init
<1>2. TypeOK
  <2>1. 0 \in 0 .. MaxTicks /\ Off \in Off .. T0_WRAP - 1 /\ 0 \in Nat
    BY ConstantTypes DEF Off
  <2>2. asleep \in [Thread -> Nat \cup {Off}]
    BY DEF Init
  <2>3. queue \in Seq([owner : Thread, expiration_time : 0 .. U64_WRAP - 1])
    BY <1>1 DEF Alarm
  <2>4. QED  BY <2>1, <2>2, <2>3 DEF Init, TypeOK
<1>3. EverySleeperQueued /\ QueueSorted
  BY <1>1 DEF Init, EverySleeperQueued, QueueSorted
<1>4. QED  BY <1>2, <1>3 DEF AlarmQueueSound

\* Every action keeps the types.
LEMMA TypeStep ==
  ASSUME TypeOK, QueueSorted, [Next]_vars
  PROVE  TypeOK'
<1> DEFINE QType == queue' \in Seq(Alarm)
           Rest == /\ ticks' \in 0 .. MaxTicks /\ high' \in Nat
                   /\ timer0' \in Off .. T0_WRAP - 1
                   /\ status' \subseteq {"ts", "t0"} /\ irqs' \subseteq {"ts", "t0"}
                   /\ asleep' \in [Thread -> Nat \cup {Off}]
                   /\ early' \in BOOLEAN
                   /\ panic' \in {"no", "null", "no alarm", "status"}
<1> SUFFICES QType /\ Rest
  BY Zenon DEF TypeOK, Alarm
<1>0. /\ ticks \in 0 .. MaxTicks /\ high \in Nat
      /\ timer0 \in Off .. T0_WRAP - 1
      /\ status \subseteq {"ts", "t0"} /\ irqs \subseteq {"ts", "t0"}
      /\ asleep \in [Thread -> Nat \cup {Off}]
      /\ early \in BOOLEAN
      /\ panic \in {"no", "null", "no alarm", "status"}
      /\ queue \in Seq(Alarm)
  BY Zenon DEF TypeOK, Alarm
<1>00. \A x \in 0 .. T0_WRAP - 1 : x \in Off .. T0_WRAP - 1
  BY ConstantTypes DEF Off
<1>1. CASE Tick
  <2>1. QType
    BY <1>0, <1>1, Zenon DEF Tick
  <2>2. ticks' \in 0 .. MaxTicks
    BY <1>0, <1>1, ConstantTypes DEF Tick
  <2>3. timer0' \in Off .. T0_WRAP - 1
    BY <1>0, <1>1, ConstantTypes DEF Tick, Off
  <2>4. status' \subseteq {"ts", "t0"} /\ irqs' \subseteq {"ts", "t0"}
    BY <1>0, <1>1 DEF Tick
  <2>5. UNCHANGED <<high, asleep, early, panic>>
    BY <1>1 DEF Tick
  <2>6. QED  BY <1>0, <2>1, <2>2, <2>3, <2>4, <2>5
<1>2. ASSUME NEW t \in Thread, NEW ms \in SleepMs, sleep_timer(t, ms)
      PROVE  QType /\ Rest
  <2>1. QType
    BY <1>2, SleepEffect DEF Joined
  <2>2. timer0' \in Off .. T0_WRAP - 1
    <3>1. SleepDelay(ms) \in Nat
      BY TimeTypes, ConstantTypes
    <3>2. TIMER0_SET(MICROSECONDS_TO_TICKS(SleepDelay(ms))) \in 0 .. T0_WRAP - 1
      BY <3>1, TimeTypes
    <3>3. QED  BY <1>0, <1>00, <1>2, <3>2, SleepEffect
  <2>3. asleep' \in [Thread -> Nat \cup {Off}]
    <3>1. RealTime + ms * MS \in Nat
      BY TimeTypes, ConstantTypes, ProdNat
    <3>2. asleep' = [asleep EXCEPT ![t] = RealTime + ms * MS]
      BY <1>2, SleepEffect
    <3>3. QED  BY <1>0, <3>1, <3>2
  <2>4. UNCHANGED <<ticks, high, status, irqs, early, panic>>
    BY <1>2, SleepEffect
  <2>5. QED  BY <1>0, <2>1, <2>2, <2>3, <2>4
<1>3. ASSUME NEW t \in Thread, remove_timers(t)
      PROVE  QType /\ Rest
  <2>1. QType
    BY <1>0, <1>3, RemoveEffect DEF Left
  <2>2. timer0' \in Off .. T0_WRAP - 1
    <3>1. timer0' \in {timer0, TimerWithout(t)}
      BY <1>3 DEF remove_timers
    <3>2. TimerWithout(t) \in Off .. T0_WRAP - 1
      <4>1. CASE Without(t) = <<>> \/ Head(queue).owner # t
        BY <4>1, <1>0 DEF TimerWithout
      <4>2. CASE ~(Without(t) = <<>> \/ Head(queue).owner # t)
        <5> DEFINE left == Until(Head(Without(t)))
                   d == IF left > 1 THEN left ELSE 1
        <5>1. Without(t) \in Seq(Alarm)
          <6>1. CASE queue = <<>>
            <7>1. Len(queue) = 0
              BY <6>1
            <7>2. \A i \in 1 .. Len(queue) : FALSE
              BY <7>1
            <7>3. Without(t) = queue
              BY <7>2, Zenon DEF Without
            <7>4. QED  BY <7>3, <1>0
          <6>2. CASE queue # <<>>
            BY <6>2, <1>3, <2>1 DEF remove_timers
          <6>3. QED  BY <6>1, <6>2
        <5>2. Head(Without(t)) \in Alarm
          BY <5>1, <4>2
        <5>3. left \in Nat
          BY <5>2, TimeTypes, ConstantTypes
        <5>4. TimerWithout(t) = TIMER0_SET(MICROSECONDS_TO_TICKS(d))
          BY <4>2 DEF TimerWithout
        <5> HIDE DEF left
        <5>5. d \in Nat
          BY <5>3
        <5>6. QED  BY <5>4, <5>5, <1>00, TimeTypes
      <4>3. QED  BY <4>1, <4>2
    <3>3. QED  BY <3>1, <3>2, <1>0
  <2>3. asleep' \in [Thread -> Nat \cup {Off}]
    BY <1>0, <1>3 DEF remove_timers
  <2>4. panic' \in {"no", "null", "no alarm", "status"}
    BY <1>3 DEF remove_timers
  <2>5. UNCHANGED <<ticks, high, status, irqs, early>>
    BY <1>3 DEF remove_timers
  <2>6. QED  BY <1>0, <2>1, <2>2, <2>3, <2>4, <2>5
<1>4. CASE timer0_irq
  <2>1. PICK n \in 0 .. Len(queue) : Rung(n) /\ timer0' = TimerAfterIrq(queue')
    BY <1>4, IrqEffect
  <2>2. QType
    BY <2>1 DEF Rung
  <2>3. timer0' \in Off .. T0_WRAP - 1
    <3>1. CASE queue' = <<>>
      BY <3>1, <2>1, <1>0 DEF TimerAfterIrq
    <3>2. CASE queue' # <<>>
      <4>1. Head(queue') \in Alarm
        BY <3>2, <2>2
      <4>2. Until(Head(queue')) \in Nat
        <5>1. \A a \in Alarm : Until(a) \in Nat
          BY TimeTypes, ConstantTypes
        <5>2. QED  BY <4>1, <5>1, Zenon
      <4>3. timer0' = TIMER0_SET(MICROSECONDS_TO_TICKS(Until(Head(queue'))))
        BY <2>1, <3>2 DEF TimerAfterIrq
      <4>4. QED  BY <4>2, <4>3, <1>00, TimeTypes
    <3>3. QED  BY <3>1, <3>2
  <2>4. asleep' \in [Thread -> Nat \cup {Off}] /\ early' \in BOOLEAN
    BY <1>0, <1>4 DEF timer0_irq
  <2>5. status' \subseteq {"ts", "t0"} /\ irqs' \subseteq {"ts", "t0"}
    BY <1>0, <1>4 DEF timer0_irq, ClearStatus
  <2>6. UNCHANGED <<ticks, high, panic>>
    BY <1>4 DEF timer0_irq
  <2>7. QED  BY <1>0, <2>2, <2>3, <2>4, <2>5, <2>6
<1>5. CASE timer0_irq_asserts
  BY <1>0, <1>5 DEF timer0_irq_asserts
<1>6. CASE timer_overflow_irq
  <2>1. HighAfterOverflow \in Nat
    <3>1. TS_WRAP - 1 \in Nat
      BY ConstantTypes
    <3>2. TICKS_TO_MICROSECONDS(TS_WRAP - 1) \in Nat
      BY <3>1, ConversionTypes
    <3>3. high \in Nat
      BY <1>0
    <3>4. QED  BY <3>2, <3>3 DEF HighAfterOverflow
  <2>2. QED  BY <1>0, <1>6, <2>1 DEF timer_overflow_irq, ClearStatus
<1>7. CASE UNCHANGED vars
  BY <1>0, <1>7 DEF vars
<1>8. QED  BY <1>1, <1>2, <1>3, <1>4, <1>5, <1>6, <1>7 DEF Next

-----------------------------------------------------------------------------
\* A new sleeper: its alarm joins the queue, nobody else's changes.
LEMMA SleepSound ==
  ASSUME AlarmQueueSound, NEW t \in Thread, NEW ms \in SleepMs, sleep_timer(t, ms)
  PROVE  EverySleeperQueued' /\ QueueSorted'
<1> DEFINE a == NewAlarm(t, ms)
           l == Len(queue)
<1>0. TypeOK /\ EverySleeperQueued /\ QueueSorted
  BY DEF AlarmQueueSound
<1>1. PICK p \in 1 .. Len(queue) + 1 : Joined(a, p)
  BY <1>0, SleepEffect
<1>2. a.owner = t /\ a.expiration_time \in Int
  <2>1. a.owner = t /\ a.expiration_time \in 0 .. U64_WRAP - 1
    BY <1>0, NewAlarmType
  <2>2. QED  BY <2>1, ConstantTypes
<1>3. l \in Nat /\ \A i \in 1 .. l : queue[i].expiration_time \in Int
  BY <1>0, QueueType
<1> HIDE DEF a, l
<1>4. /\ Len(queue') = l + 1 /\ p \in 1 .. l + 1
      /\ \A k \in 1 .. l + 1 :
           queue'[k] = IF k < p THEN queue[k] ELSE IF k = p THEN a ELSE queue[k - 1]
      /\ \A i \in 1 .. l :
           i < p => queue[i].expiration_time <= a.expiration_time
      /\ \A i \in 1 .. l :
           i >= p => a.expiration_time < queue[i].expiration_time
  BY <1>1 DEF Joined, l
<1>5. /\ \A u \in Thread :
           asleep[u] # Off <=> \E i \in 1 .. l : queue[i].owner = u
      /\ \A i, j \in 1 .. l : i # j => queue[i].owner # queue[j].owner
  BY <1>0 DEF EverySleeperQueued, l
<1>6. /\ asleep[t] = Off
      /\ \A u \in Thread : u # t => asleep'[u] = asleep[u]
      /\ asleep'[t] # Off
  <2>1. asleep \in [Thread -> Nat \cup {Off}]
    BY <1>0, Zenon DEF TypeOK
  <2>2. /\ asleep[t] = Off
        /\ asleep' = [asleep EXCEPT ![t] = RealTime + ms * MS]
    BY <1>0, SleepEffect
  <2>3. RealTime + ms * MS \in Nat
    <3>1. RealTime \in Nat /\ ms * MS \in Nat
      BY <1>0, TimeTypes, ConstantTypes, ProdNat
    <3>2. QED  BY <3>1
  <2>4. RealTime + ms * MS # Off
    BY <2>3 DEF Off
  <2>5. QED  BY <2>1, <2>2, <2>4
<1>7. \A i \in 1 .. l : queue[i].owner # t
  BY <1>5, <1>6
<1>8. ASSUME NEW u \in Thread
      PROVE  asleep'[u] # Off <=> \E k \in 1 .. l + 1 : queue'[k].owner = u
  <2>1. CASE u = t
    BY <2>1, <1>2, <1>4, <1>6
  <2>2. CASE u # t
    <3>1. ASSUME NEW i \in 1 .. l, queue[i].owner = u
          PROVE  \E k \in 1 .. l + 1 : queue'[k].owner = u
      <4>1. CASE i < p
        <5>1. i \in 1 .. l + 1 /\ queue'[i] = queue[i]
          BY <4>1, <1>3, <1>4
        <5>2. QED  BY <5>1, <3>1
      <4>2. CASE i >= p
        <5>1. i + 1 \in 1 .. l + 1 /\ queue'[i + 1] = queue[i]
          BY <4>2, <1>3, <1>4
        <5>2. QED  BY <5>1, <3>1
      <4>3. QED  BY <4>1, <4>2, <1>4, <1>3
    <3>2. ASSUME NEW k \in 1 .. l + 1, queue'[k].owner = u
          PROVE  \E i \in 1 .. l : queue[i].owner = u
      <4>1. k # p
        BY <3>2, <2>2, <1>2, <1>4
      <4>2. CASE k < p
        BY <4>2, <3>2, <1>3, <1>4
      <4>3. CASE k > p
        <5>1. k - 1 \in 1 .. l /\ queue'[k] = queue[k - 1]
          BY <4>3, <1>3, <1>4
        <5>2. QED  BY <5>1, <3>2
      <4>4. QED  BY <4>1, <4>2, <4>3, <1>4, <1>3
    <3>3. QED  BY <3>1, <3>2, <2>2, <1>5, <1>6
  <2>3. QED  BY <2>1, <2>2
<1>9. ASSUME NEW i \in 1 .. l + 1, NEW j \in 1 .. l + 1, i < j
      PROVE  /\ queue'[i].owner # queue'[j].owner
             /\ queue'[i].expiration_time <= queue'[j].expiration_time
  <2>1. \A x, y \in 1 .. l : x < y =>
           /\ queue[x].owner # queue[y].owner
           /\ queue[x].expiration_time <= queue[y].expiration_time
    BY <1>0, <1>3, <1>5 DEF QueueSorted, l
  <2>2. CASE j < p
    BY <2>1, <2>2, <1>9, <1>3, <1>4
  <2>3. CASE j = p
    <3>1. i \in 1 .. l /\ queue'[i] = queue[i] /\ queue'[j] = a
      BY <2>3, <1>9, <1>3, <1>4
    <3>2. QED  BY <3>1, <2>3, <1>9, <1>2, <1>4, <1>7
  <2>4. CASE j > p /\ i = p
    <3>1. j - 1 \in 1 .. l /\ j - 1 >= p /\ queue'[i] = a /\ queue'[j] = queue[j - 1]
      BY <2>4, <1>9, <1>3, <1>4
    <3>2. a.expiration_time < queue[j - 1].expiration_time
      BY <3>1, <1>4
    <3>3. QED  BY <3>1, <3>2, <1>2, <1>3, <1>7
  <2>5. CASE j > p /\ i < p
    <3>1. j - 1 \in 1 .. l /\ i \in 1 .. l /\ i < j - 1
          /\ queue'[i] = queue[i] /\ queue'[j] = queue[j - 1]
      BY <2>5, <1>9, <1>3, <1>4
    <3>2. QED  BY <3>1, <2>1
  <2>6. CASE j > p /\ i > p
    <3>1. j - 1 \in 1 .. l /\ i - 1 \in 1 .. l /\ i - 1 < j - 1
          /\ queue'[i] = queue[i - 1] /\ queue'[j] = queue[j - 1]
      BY <2>6, <1>9, <1>3, <1>4
    <3>2. QED  BY <3>1, <2>1
  <2>7. QED  BY <2>2, <2>3, <2>4, <2>5, <2>6, <1>3, <1>4
<1>10. QueueSorted'
  BY <1>4, <1>9 DEF QueueSorted
<1>11. EverySleeperQueued'
  <2>1. \A i, j \in 1 .. l + 1 : i # j => queue'[i].owner # queue'[j].owner
    <3>1. \A i, j \in 1 .. l + 1 : i # j => i < j \/ j < i
      BY <1>3
    <3>2. QED  BY <3>1, <1>9
  <2>2. QED  BY <2>1, <1>4, <1>8 DEF EverySleeperQueued
<1>12. QED  BY <1>10, <1>11

\* The interrupt of timer 0: the alarms at the front ring and their owners wake.
LEMMA IrqSound ==
  ASSUME AlarmQueueSound, timer0_irq
  PROVE  EverySleeperQueued' /\ QueueSorted'
<1> DEFINE l == Len(queue)
<1>0. TypeOK /\ EverySleeperQueued /\ QueueSorted
  BY DEF AlarmQueueSound
<1>1. PICK n \in 0 .. Len(queue) : Rung(n) /\ Ringing = 1 .. n
  BY <1>0, IrqEffect
<1>2. l \in Nat
  BY <1>0, QueueType
<1>3. asleep' = [u \in Thread |->
                   IF u \in {queue[i].owner : i \in 1 .. n} THEN Off ELSE asleep[u]]
  BY <1>1 DEF timer0_irq
<1> HIDE DEF l
<1>4. /\ n \in 0 .. l /\ Len(queue') = l - n
      /\ \A k \in 1 .. l - n : queue'[k] = queue[k + n]
  BY <1>1 DEF Rung, l
<1>5. /\ \A u \in Thread :
           asleep[u] # Off <=> \E i \in 1 .. l : queue[i].owner = u
      /\ \A i, j \in 1 .. l : i # j => queue[i].owner # queue[j].owner
  BY <1>0 DEF EverySleeperQueued, l
<1>6. ASSUME NEW u \in Thread
      PROVE  asleep'[u] # Off <=> \E k \in 1 .. l - n : queue'[k].owner = u
  <2>1. ASSUME NEW i \in 1 .. n, queue[i].owner = u
        PROVE  asleep'[u] = Off /\ \A k \in 1 .. l - n : queue'[k].owner # u
    <3>1. asleep'[u] = Off
      BY <1>3, <2>1
    <3>2. ASSUME NEW k \in 1 .. l - n
          PROVE  queue'[k].owner # u
      <4>1. k + n \in 1 .. l /\ i \in 1 .. l /\ i # k + n /\ queue'[k] = queue[k + n]
        BY <1>2, <1>4
      <4>2. QED  BY <4>1, <1>5, <2>1
    <3>3. QED  BY <3>1, <3>2
  <2>2. ASSUME \A i \in 1 .. n : queue[i].owner # u
        PROVE  asleep'[u] # Off <=> \E k \in 1 .. l - n : queue'[k].owner = u
    <3>1. asleep'[u] = asleep[u]
      BY <1>3, <2>2
    <3>2. ASSUME NEW i \in 1 .. l, queue[i].owner = u
          PROVE  \E k \in 1 .. l - n : queue'[k].owner = u
      <4>1. i - n \in 1 .. l - n /\ (i - n) + n = i
        BY <3>2, <2>2, <1>2, <1>4
      <4>2. queue'[i - n] = queue[i]
        BY <4>1, <1>4
      <4>3. QED  BY <4>1, <4>2, <3>2
    <3>3. ASSUME NEW k \in 1 .. l - n, queue'[k].owner = u
          PROVE  \E i \in 1 .. l : queue[i].owner = u
      <4>1. k + n \in 1 .. l /\ queue'[k] = queue[k + n]
        BY <1>2, <1>4
      <4>2. QED  BY <4>1, <3>3
    <3>4. QED  BY <3>1, <3>2, <3>3, <1>5
  <2>3. QED  BY <2>1, <2>2
<1>7. ASSUME NEW i \in 1 .. l - n, NEW j \in 1 .. l - n
      PROVE  /\ i # j => queue'[i].owner # queue'[j].owner
             /\ i < j => queue'[i].expiration_time <= queue'[j].expiration_time
  <2>1. /\ i + n \in 1 .. l /\ j + n \in 1 .. l
        /\ i # j => i + n # j + n
        /\ i < j => i + n < j + n
        /\ queue'[i] = queue[i + n] /\ queue'[j] = queue[j + n]
    BY <1>2, <1>4
  <2>2. QED  BY <2>1, <1>0, <1>5 DEF QueueSorted, l
<1>8. QED  BY <1>4, <1>6, <1>7 DEF EverySleeperQueued, QueueSorted

\* The end of a process: its alarm leaves the queue, wherever it is.
LEMMA RemoveSound ==
  ASSUME AlarmQueueSound, NEW t \in Thread, remove_timers(t)
  PROVE  EverySleeperQueued' /\ QueueSorted'
<1> DEFINE l == Len(queue)
<1>0. TypeOK /\ EverySleeperQueued /\ QueueSorted
  BY DEF AlarmQueueSound
<1>1. l \in Nat
  BY <1>0, QueueType
<1>2. asleep'[t] = Off /\ \A u \in Thread : u # t => asleep'[u] = asleep[u]
  <2>1. asleep \in [Thread -> Nat \cup {Off}]
    BY <1>0, Zenon DEF TypeOK
  <2>2. asleep' = [asleep EXCEPT ![t] = Off]
    BY DEF remove_timers
  <2>3. QED  BY <2>1, <2>2
<1> HIDE DEF l
<1>3. /\ \A u \in Thread :
           asleep[u] # Off <=> \E i \in 1 .. l : queue[i].owner = u
      /\ \A i, j \in 1 .. l : i # j => queue[i].owner # queue[j].owner
  BY <1>0 DEF EverySleeperQueued, l
<1>4. ASSUME NEW p \in 1 .. l, queue[p].owner = t, Left(p)
      PROVE  EverySleeperQueued' /\ QueueSorted'
  <2>1. /\ Len(queue') = l - 1
        /\ \A k \in 1 .. l - 1 :
             queue'[k] = IF k < p THEN queue[k] ELSE queue[k + 1]
    BY <1>4 DEF Left, l
  <2>2. \A i \in 1 .. l : i # p => queue[i].owner # t
    BY <1>3, <1>4
  <2>3. ASSUME NEW k \in 1 .. l - 1
        PROVE  \E i \in 1 .. l : i # p /\ queue'[k] = queue[i]
    <3>1. CASE k < p
      <4>1. k \in 1 .. l /\ k # p /\ queue'[k] = queue[k]
        BY <3>1, <2>1, <1>1
      <4>2. QED  BY <4>1
    <3>2. CASE k >= p
      <4>1. k + 1 \in 1 .. l /\ k + 1 # p /\ queue'[k] = queue[k + 1]
        BY <3>2, <2>1, <1>1
      <4>2. QED  BY <4>1
    <3>3. QED  BY <3>1, <3>2, <1>1
  <2>4. ASSUME NEW i \in 1 .. l, i # p
        PROVE  \E k \in 1 .. l - 1 : queue'[k] = queue[i]
    <3>1. CASE i < p
      <4>1. i \in 1 .. l - 1 /\ queue'[i] = queue[i]
        BY <3>1, <2>1, <1>1
      <4>2. QED  BY <4>1
    <3>2. CASE i > p
      <4>1. i - 1 \in 1 .. l - 1 /\ i - 1 >= p /\ (i - 1) + 1 = i
        BY <3>2, <1>1
      <4>2. queue'[i - 1] = queue[i]
        BY <4>1, <2>1, <1>1
      <4>3. QED  BY <4>1, <4>2
    <3>3. QED  BY <3>1, <3>2, <2>4, <1>1
  <2>5. ASSUME NEW u \in Thread
        PROVE  asleep'[u] # Off <=> \E k \in 1 .. l - 1 : queue'[k].owner = u
    <3>1. CASE u = t
      BY <3>1, <2>2, <2>3, <1>2
    <3>2. CASE u # t
      BY <3>2, <2>3, <2>4, <1>2, <1>3, <1>4
    <3>3. QED  BY <3>1, <3>2
  <2>6. ASSUME NEW i \in 1 .. l - 1, NEW j \in 1 .. l - 1, i < j
        PROVE  /\ queue'[i].owner # queue'[j].owner
               /\ queue'[i].expiration_time <= queue'[j].expiration_time
    <3>1. \A x, y \in 1 .. l : x < y =>
             /\ queue[x].owner # queue[y].owner
             /\ queue[x].expiration_time <= queue[y].expiration_time
      BY <1>0, <1>1, <1>3 DEF QueueSorted, l
    <3>2. CASE j < p
      BY <3>1, <3>2, <2>6, <2>1, <1>1
    <3>3. CASE j >= p /\ i < p
      <4>1. /\ i \in 1 .. l /\ j + 1 \in 1 .. l /\ i < j + 1
            /\ queue'[i] = queue[i] /\ queue'[j] = queue[j + 1]
        BY <3>3, <2>6, <2>1, <1>1
      <4>2. QED  BY <4>1, <3>1
    <3>4. CASE i >= p
      <4>1. /\ i + 1 \in 1 .. l /\ j + 1 \in 1 .. l /\ i + 1 < j + 1
            /\ queue'[i] = queue[i + 1] /\ queue'[j] = queue[j + 1]
        BY <3>4, <2>6, <2>1, <1>1
      <4>2. QED  BY <4>1, <3>1
    <3>5. QED  BY <3>2, <3>3, <3>4, <1>1
  <2>7. \A i, j \in 1 .. l - 1 : i # j => queue'[i].owner # queue'[j].owner
    <3>1. \A i, j \in 1 .. l - 1 : i # j => i < j \/ j < i
      BY <1>1
    <3>2. QED  BY <3>1, <2>6
  <2>8. QED  BY <2>1, <2>5, <2>6, <2>7 DEF EverySleeperQueued, QueueSorted
<1>5. CASE (\A i \in 1 .. l : queue[i].owner # t) /\ queue' = queue
  <2>1. asleep[t] = Off
    BY <1>3, <1>5
  <2>2. \A u \in Thread : asleep'[u] = asleep[u]
    BY <2>1, <1>2
  <2>3. QED  BY <2>2, <1>0, <1>5 DEF EverySleeperQueued, QueueSorted
<1>6. QED  BY <1>0, <1>4, <1>5, RemoveEffect DEF l

\* The alarm queue is sorted and has exactly one alarm for every sleeper, for any
\* number of threads, any times and any order of sleeps, interrupts and deletions
\* (clock.c: timer_queue_insert, timer0_irq, remove_timers).
THEOREM AlarmQueueStaysSound == Spec => []AlarmQueueSound
<1>1. Init => AlarmQueueSound
  BY InitSound
<1>2. AlarmQueueSound /\ [Next]_vars => AlarmQueueSound'
  <2> SUFFICES ASSUME AlarmQueueSound, [Next]_vars PROVE AlarmQueueSound'
    OBVIOUS
  <2>1. TypeOK'
    BY TypeStep DEF AlarmQueueSound
  <2> SUFFICES EverySleeperQueued' /\ QueueSorted'
    BY <2>1 DEF AlarmQueueSound
  <2>2. ASSUME UNCHANGED <<queue, asleep>>
        PROVE  EverySleeperQueued' /\ QueueSorted'
    BY <2>2 DEF AlarmQueueSound, EverySleeperQueued, QueueSorted
  <2>3. CASE Tick
    BY <2>2, <2>3 DEF Tick
  <2>4. ASSUME NEW t \in Thread, NEW ms \in SleepMs, sleep_timer(t, ms)
        PROVE  EverySleeperQueued' /\ QueueSorted'
    BY <2>4, SleepSound
  <2>5. ASSUME NEW t \in Thread, remove_timers(t)
        PROVE  EverySleeperQueued' /\ QueueSorted'
    BY <2>5, RemoveSound
  <2>6. CASE timer0_irq
    BY <2>6, IrqSound
  <2>7. CASE timer0_irq_asserts
    BY <2>2, <2>7 DEF timer0_irq_asserts
  <2>8. CASE timer_overflow_irq
    BY <2>2, <2>8 DEF timer_overflow_irq
  <2>9. CASE UNCHANGED vars
    BY <2>2, <2>9 DEF vars
  <2>10. QED  BY <2>3, <2>4, <2>5, <2>6, <2>7, <2>8, <2>9 DEF Next
<1>3. QED  BY <1>1, <1>2, PTL DEF Spec

-----------------------------------------------------------------------------
\* What one wrap of the time stamp register adds to the high part.
PerWrap == TICKS_TO_MICROSECONDS(TS_WRAP - 1)

\* The high part misses at most the one wrap whose interrupt still waits, and
\* before the first wrap there is nothing to count.
HighInv ==
  /\ ticks < TS_WRAP => high = 0 /\ "ts" \notin irqs
  /\ panic = "no" =>
       high + (IF "ts" \in irqs THEN PerWrap ELSE 0) = (ticks \div TS_WRAP) * PerWrap

\* A tick takes the register past its last value exactly when it wraps.
LEMMA WrapCount ==
  ASSUME NEW x \in Nat, NEW w \in Nat \ {0}
  PROVE  /\ x \div w \in Nat
         /\ (x + 1) % w = 0 => (x + 1) \div w = (x \div w) + 1
         /\ (x + 1) % w # 0 => (x + 1) \div w = x \div w
         /\ x < w => x \div w = 0
         /\ x + 1 < w => (x + 1) % w # 0
OBVIOUS

\* Every action keeps HighInv.
LEMMA HighStep ==
  ASSUME TypeOK, HighInv, [Next]_vars
  PROVE  HighInv'
<1>1. ticks \in Nat /\ high \in Nat /\ PerWrap \in Nat
  <2>1. ticks \in 0 .. MaxTicks /\ high \in Nat
    BY Zenon DEF TypeOK
  <2>2. TS_WRAP - 1 \in Nat
    BY ConstantTypes
  <2>3. PerWrap \in Nat
    BY <2>2, ConversionTypes DEF PerWrap
  <2>4. QED  BY <2>1, <2>3, ConstantTypes
<1>2. CASE Tick
  <2> DEFINE w == ticks \div TS_WRAP
             v == (ticks + 1) \div TS_WRAP
  <2>1. /\ w \in Nat
        /\ (ticks + 1) % TS_WRAP = 0 => v = w + 1
        /\ (ticks + 1) % TS_WRAP # 0 => v = w
        /\ ticks + 1 < TS_WRAP => (ticks + 1) % TS_WRAP # 0
    BY <1>1, ConstantTypes, WrapCount
  <2>2. /\ panic = "no" /\ panic' = panic /\ high' = high /\ ticks' = ticks + 1
        /\ (ticks + 1) % TS_WRAP = 0 => "ts" \notin irqs /\ "ts" \in irqs'
        /\ (ticks + 1) % TS_WRAP # 0 => ("ts" \in irqs' <=> "ts" \in irqs)
    BY <1>2 DEF Tick
  <2>3. high + (IF "ts" \in irqs THEN PerWrap ELSE 0) = w * PerWrap
    BY <2>2 DEF HighInv
  <2>4. (w + 1) * PerWrap = w * PerWrap + PerWrap
    BY <2>1, <1>1
  <2> HIDE DEF w, v
  <2>5. high + (IF "ts" \in irqs' THEN PerWrap ELSE 0) = v * PerWrap
    BY <2>1, <2>2, <2>3, <2>4, <1>1
  <2>6. ticks + 1 < TS_WRAP => high = 0 /\ "ts" \notin irqs'
    BY <2>1, <2>2, <1>1, ConstantTypes DEF HighInv
  <2>7. QED  BY <2>2, <2>5, <2>6 DEF HighInv, v
<1>3. CASE timer_overflow_irq
  <2>1. "ts" \in irqs /\ irqs' = irqs \ {"ts"} /\ ticks' = ticks /\ panic = "no"
    BY <1>3 DEF timer_overflow_irq
  <2>2. ~(ticks < TS_WRAP)
    BY <2>1 DEF HighInv
  <2>3. panic' = "no" => high' = high + PerWrap
    BY <1>3 DEF timer_overflow_irq, HighAfterOverflow, PerWrap
  <2>4. high + PerWrap = (ticks \div TS_WRAP) * PerWrap
    BY <2>1 DEF HighInv
  <2>5. panic' = "no" => high' + 0 = (ticks \div TS_WRAP) * PerWrap
    BY <2>3, <2>4, <1>1
  <2>6. QED  BY <2>1, <2>2, <2>5 DEF HighInv
<1>4. ASSUME UNCHANGED <<ticks, high>>, "ts" \in irqs' <=> "ts" \in irqs,
             panic' = "no" => panic = "no"
      PROVE  HighInv'
  BY <1>4 DEF HighInv
<1>5. ASSUME NEW t \in Thread, NEW ms \in SleepMs, sleep_timer(t, ms)
      PROVE  HighInv'
  BY <1>4, <1>5 DEF sleep_timer
<1>6. ASSUME NEW t \in Thread, remove_timers(t)
      PROVE  HighInv'
  BY <1>4, <1>6 DEF remove_timers
<1>7. CASE timer0_irq
  BY <1>4, <1>7 DEF timer0_irq
<1>8. CASE timer0_irq_asserts
  BY <1>4, <1>8 DEF timer0_irq_asserts
<1>9. CASE UNCHANGED vars
  BY <1>4, <1>9 DEF vars
<1>10. QED  BY <1>2, <1>3, <1>5, <1>6, <1>7, <1>8, <1>9 DEF Next

\* HighInv holds when the driver starts.
LEMMA InitHigh == Init => HighInv
<1> SUFFICES ASSUME Init PROVE HighInv
  OBVIOUS
<1>1. 0 \div TS_WRAP = 0
  BY ConstantTypes
<1>2. PerWrap \in Nat
  <2>1. TS_WRAP - 1 \in Nat
    BY ConstantTypes
  <2>2. QED  BY <2>1, ConversionTypes DEF PerWrap
<1>3. QED  BY <1>1, <1>2 DEF Init, HighInv

\* The high part counts every wrap of the register once, however late its
\* interrupt is taken up, for every width of the register and every frequency
\* (clock.c: timer_overflow_irq).
THEOREM WrapsAreCounted == Spec => []HighCountsWraps
<1>1. Init => HighInv
  BY InitHigh
<1>2. TypeOK /\ HighInv /\ [Next]_vars => HighInv'
  BY HighStep
<1>3. TypeOK /\ HighInv => HighCountsWraps
  <2> SUFFICES ASSUME TypeOK, HighInv, panic = "no", "ts" \notin irqs
               PROVE  high = (ticks \div TS_WRAP) * PerWrap
    BY DEF HighCountsWraps, PerWrap
  <2>1. high \in Nat
    BY Zenon DEF TypeOK
  <2>2. QED  BY <2>1 DEF HighInv
<1>4. AlarmQueueSound => TypeOK
  BY DEF AlarmQueueSound
<1>5. QED  BY <1>1, <1>2, <1>3, <1>4, AlarmQueueStaysSound, PTL DEF Spec

-----------------------------------------------------------------------------
\* The longest sleep fits an int in microseconds (35 minutes on the machine).
SleepsFit == \A ms \in SleepMs : ms * MS < INT_WRAP \div 2

\* A time stamp has room for a wrap of the register and the longest sleep, with a
\* bit to spare for the sign (64 seconds and 35 minutes in 63 bits).
WordsFit == TICKS_TO_MICROSECONDS(TS_WRAP) + INT_WRAP \div 2 <= U64_WRAP \div 2

\* Half of a width, rounded down.
LEMMA HalfWrap ==
  ASSUME NEW w \in Nat \ {0}
  PROVE  w \div 2 \in Nat /\ 2 * (w \div 2) <= w
OBVIOUS

\* Until the register wraps for the first time, the time stamp is the time.
LEMMA EarlyTime ==
  ASSUME TypeOK, HighInv, ticks < TS_WRAP
  PROVE  /\ ticks \in Nat /\ RealTime \in Nat
         /\ get_time_stamp = RealTime
         /\ RealTime <= TICKS_TO_MICROSECONDS(TS_WRAP)
<1>1. ticks \in Nat
  <2>1. ticks \in 0 .. MaxTicks
    BY Zenon DEF TypeOK
  <2>2. QED  BY <2>1, ConstantTypes
<1>2. ticks % TS_WRAP = ticks
  <2>1. ticks \in 0 .. TS_WRAP - 1
    BY <1>1, ConstantTypes
  <2>2. QED  BY <2>1, ConstantTypes, ModSmall
<1>3. RealTime \in Nat
  BY <1>1, ConversionTypes DEF RealTime
<1>4. get_time_stamp = RealTime
  <2>1. high = 0
    BY DEF HighInv
  <2>2. get_time_stamp = high + RealTime
    BY <1>2 DEF get_time_stamp, OST_TS, RealTime
  <2>3. QED  BY <2>1, <2>2, <1>3
<1>5. RealTime <= TICKS_TO_MICROSECONDS(TS_WRAP)
  <2>1. ticks * USECS \in Nat /\ TS_WRAP * USECS \in Nat
    BY <1>1, ConstantTypes, ProdNat
  <2>2. ticks * USECS <= TS_WRAP * USECS
    BY <1>1, ConstantTypes
  <2>3. QED
    BY <2>1, <2>2, ConstantTypes, DivMonotone DEF RealTime, TICKS_TO_MICROSECONDS
<1>6. QED  BY <1>1, <1>3, <1>4, <1>5

\* A sleep that fits is as long as was asked for.
LEMMA DelayExact ==
  ASSUME SleepsFit, WordsFit, NEW ms \in SleepMs
  PROVE  /\ SleepDelay(ms) = ms * MS
         /\ ms * MS \in Nat
         /\ ms * MS < INT_WRAP \div 2
<1> DEFINE d == ms * MS
<1>1. d \in Nat /\ d < INT_WRAP \div 2
  BY ConstantTypes, ProdNat DEF SleepsFit
<1> HIDE DEF d
<1>2. INT_WRAP \div 2 \in Nat /\ U64_WRAP \div 2 \in Nat /\ 2 * (U64_WRAP \div 2) <= U64_WRAP
  BY ConstantTypes, HalfWrap
<1>3. Signed(d % INT_WRAP, INT_WRAP) = d
  BY <1>1, <1>2, ConstantTypes, SignedSmall
<1>4. TICKS_TO_MICROSECONDS(TS_WRAP) \in Nat
  BY ConstantTypes, ConversionTypes
<1>5. d \in 0 .. U64_WRAP - 1
  BY <1>1, <1>2, <1>4, ConstantTypes DEF WordsFit
<1>6. d % U64_WRAP = d
  BY <1>5, ConstantTypes, ModSmall
<1>7. QED  BY <1>1, <1>3, <1>6 DEF SleepDelay, d

\* Before the first wrap a new alarm expires when its sleeper asked to wake.
LEMMA ExpiryExact ==
  ASSUME SleepsFit, WordsFit, TypeOK, HighInv, ticks < TS_WRAP,
         NEW t \in Thread, NEW ms \in SleepMs
  PROVE  /\ NewAlarm(t, ms).expiration_time = RealTime + ms * MS
         /\ RealTime + ms * MS < U64_WRAP \div 2
<1> DEFINE d == ms * MS
           r == RealTime
<1>1. SleepDelay(ms) = d /\ d \in Nat /\ d < INT_WRAP \div 2
  BY DelayExact
<1>2. r \in Nat /\ get_time_stamp = r /\ r <= TICKS_TO_MICROSECONDS(TS_WRAP)
  BY EarlyTime
<1>3. TICKS_TO_MICROSECONDS(TS_WRAP) \in Nat
  BY ConstantTypes, ConversionTypes
<1>4. INT_WRAP \div 2 \in Nat /\ U64_WRAP \div 2 \in Nat /\ 2 * (U64_WRAP \div 2) <= U64_WRAP
  BY ConstantTypes, HalfWrap
<1> HIDE DEF d, r
<1>5. r + d < U64_WRAP \div 2
  BY <1>1, <1>2, <1>3, <1>4 DEF WordsFit
<1>6. (r + d) % U64_WRAP = r + d
  <2>1. r + d \in 0 .. U64_WRAP - 1
    BY <1>1, <1>2, <1>4, <1>5, ConstantTypes
  <2>2. QED  BY <2>1, ConstantTypes, ModSmall
<1>7. NewAlarm(t, ms).expiration_time = (r + d) % U64_WRAP
  BY <1>1, <1>2, NewAlarmType
<1>8. QED  BY <1>5, <1>6, <1>7 DEF d, r

\* Until the first wrap no alarm expires before its owner asked to wake, and
\* none is so far away that the comparison in timer0_irq changes its sign.
WakeInv ==
  ticks < TS_WRAP =>
    /\ ~early
    /\ \A i \in 1 .. Len(queue) :
         /\ asleep[queue[i].owner] <= queue[i].expiration_time
         /\ queue[i].expiration_time < U64_WRAP \div 2

\* An alarm that rings before the first wrap is due within SLACK.
LEMMA DueMeansSoon ==
  ASSUME WordsFit, TypeOK, HighInv, WakeInv, ticks < TS_WRAP,
         NEW i \in 1 .. Len(queue), Due(queue[i])
  PROVE  queue[i].expiration_time <= RealTime + SLACK
<1> DEFINE e == queue[i].expiration_time
           r == RealTime
           h == U64_WRAP \div 2
<1>1. e \in Nat /\ e < h
  <2>1. e \in 0 .. U64_WRAP - 1
    BY QueueType
  <2>2. e < h
    BY DEF WakeInv
  <2>3. QED  BY <2>1, <2>2, ConstantTypes
<1>2. r \in Nat /\ get_time_stamp = r /\ r <= TICKS_TO_MICROSECONDS(TS_WRAP)
  BY EarlyTime
<1>3. TICKS_TO_MICROSECONDS(TS_WRAP) \in Nat /\ INT_WRAP \div 2 \in Nat /\ h \in Nat
  BY ConstantTypes, ConversionTypes, HalfWrap
<1>4. Until(queue[i]) = (e - r) % U64_WRAP
  BY <1>2 DEF Until
<1>5. r <= h
  <2> HIDE DEF e, r
  <2>1. QED  BY <1>2, <1>3 DEF WordsFit
<1>6. Signed(Until(queue[i]), U64_WRAP) <= SLACK
  BY DEF Due
<1> HIDE DEF e, r
<1>7. Signed((e - r) % U64_WRAP, U64_WRAP) = e - r
  <2>1. e - r \in Int /\ - (U64_WRAP \div 2) <= e - r /\ e - r < U64_WRAP \div 2
    BY <1>1, <1>2, <1>3, <1>5
  <2>2. QED  BY <2>1, ConstantTypes, SignedSmall
<1>8. e - r <= SLACK
  BY <1>4, <1>6, <1>7
<1>9. e <= r + SLACK
  BY <1>8, <1>1, <1>2, ConstantTypes
<1>10. QED  BY <1>9 DEF e, r

\* Every action keeps WakeInv.
LEMMA WakeStep ==
  ASSUME SleepsFit, WordsFit, AlarmQueueSound, HighInv, WakeInv, [Next]_vars
  PROVE  WakeInv'
<1>0. TypeOK /\ EverySleeperQueued /\ QueueSorted
  BY DEF AlarmQueueSound
<1>1. asleep \in [Thread -> Nat \cup {Off}] /\ ticks \in Nat
  <2>1. asleep \in [Thread -> Nat \cup {Off}] /\ ticks \in 0 .. MaxTicks
    BY <1>0, Zenon DEF TypeOK
  <2>2. QED  BY <2>1, ConstantTypes
<1>2. Len(queue) \in Nat
  BY <1>0, QueueType
<1>3. \A i \in 1 .. Len(queue) : Off <= queue[i].expiration_time
  <2>1. \A x \in 0 .. U64_WRAP - 1 : Off <= x
    BY ConstantTypes DEF Off
  <2>2. QED  BY <2>1, <1>0, QueueType
\* Alarms that leave, and sleepers that wake, disturb nothing.
<1>4. ASSUME ticks' = ticks, early' = early,
             \A k \in 1 .. Len(queue') : \E i \in 1 .. Len(queue) : queue'[k] = queue[i],
             \A u \in Thread : asleep'[u] \in {Off, asleep[u]}
      PROVE  WakeInv'
  <2> SUFFICES ASSUME ticks < TS_WRAP, NEW k \in 1 .. Len(queue')
               PROVE  /\ asleep'[queue'[k].owner] <= queue'[k].expiration_time
                      /\ queue'[k].expiration_time < U64_WRAP \div 2
    BY <1>4 DEF WakeInv
  <2>1. PICK i \in 1 .. Len(queue) : queue'[k] = queue[i]
    BY <1>4
  <2>2. queue[i].owner \in Thread
    BY <1>0, QueueType
  <2>3. asleep'[queue[i].owner] \in {Off, asleep[queue[i].owner]}
    BY <1>4, <2>2
  <2>4. /\ asleep[queue[i].owner] <= queue[i].expiration_time
        /\ queue[i].expiration_time < U64_WRAP \div 2
    BY DEF WakeInv
  <2>5. QED  BY <2>1, <2>3, <2>4, <1>3
<1>5. CASE Tick
  <2>1. /\ ticks' = ticks + 1 /\ queue' = queue /\ asleep' = asleep /\ early' = early
    BY <1>5 DEF Tick
  <2>2. ticks' < TS_WRAP => ticks < TS_WRAP
    BY <2>1, <1>1, ConstantTypes
  <2>3. QED  BY <2>1, <2>2 DEF WakeInv
<1>6. ASSUME NEW t \in Thread, NEW ms \in SleepMs, sleep_timer(t, ms)
      PROVE  WakeInv'
  <2> DEFINE a == NewAlarm(t, ms)
  <2>1. PICK p \in 1 .. Len(queue) + 1 : Joined(a, p)
    BY <1>0, <1>6, SleepEffect
  <2>2. /\ asleep[t] = Off /\ ticks' = ticks /\ early' = early
        /\ asleep' = [asleep EXCEPT ![t] = RealTime + ms * MS]
    BY <1>0, <1>6, SleepEffect
  <2>3. asleep'[t] = RealTime + ms * MS /\ \A u \in Thread : u # t => asleep'[u] = asleep[u]
    BY <2>2, <1>1
  <2> SUFFICES ASSUME ticks < TS_WRAP, NEW k \in 1 .. Len(queue')
               PROVE  /\ asleep'[queue'[k].owner] <= queue'[k].expiration_time
                      /\ queue'[k].expiration_time < U64_WRAP \div 2
    BY <2>2 DEF WakeInv
  <2>4. /\ a.owner = t
        /\ a.expiration_time = RealTime + ms * MS
        /\ RealTime + ms * MS < U64_WRAP \div 2
        /\ RealTime + ms * MS \in Nat
    <3>1. RealTime \in Nat /\ ms * MS \in Nat
      BY <1>0, EarlyTime, DelayExact
    <3>2. QED  BY <3>1, <1>0, NewAlarmType, ExpiryExact
  <2> HIDE DEF a
  <2>5. CASE queue'[k] = a
    BY <2>3, <2>4, <2>5
  <2>6. ASSUME NEW i \in 1 .. Len(queue), queue'[k] = queue[i]
        PROVE  /\ asleep'[queue'[k].owner] <= queue'[k].expiration_time
               /\ queue'[k].expiration_time < U64_WRAP \div 2
    <3>1. queue[i].owner # t /\ queue[i].owner \in Thread
      BY <1>0, <2>2, QueueType DEF EverySleeperQueued
    <3>2. /\ asleep[queue[i].owner] <= queue[i].expiration_time
          /\ queue[i].expiration_time < U64_WRAP \div 2
      BY DEF WakeInv
    <3>3. QED  BY <3>1, <3>2, <2>3, <2>6
  <2>7. queue'[k] = a \/ \E i \in 1 .. Len(queue) : queue'[k] = queue[i]
    <3>1. k \in 1 .. Len(queue) + 1
      BY <2>1 DEF Joined
    <3>2. queue'[k] = IF k < p THEN queue[k] ELSE IF k = p THEN a ELSE queue[k - 1]
      BY <3>1, <2>1 DEF Joined
    <3>3. CASE k < p
      BY <3>1, <3>2, <3>3, <1>2
    <3>4. CASE k = p
      BY <3>2, <3>4
    <3>5. CASE k > p
      <4>1. k - 1 \in 1 .. Len(queue) /\ queue'[k] = queue[k - 1]
        BY <3>1, <3>2, <3>5, <1>2
      <4>2. QED  BY <4>1
    <3>6. QED  BY <3>1, <3>3, <3>4, <3>5, <1>2
  <2>8. QED  BY <2>5, <2>6, <2>7
<1>7. ASSUME NEW t \in Thread, remove_timers(t)
      PROVE  WakeInv'
  <2>1. ticks' = ticks /\ early' = early /\ asleep' = [asleep EXCEPT ![t] = Off]
    BY <1>7 DEF remove_timers
  <2>2. \A u \in Thread : asleep'[u] \in {Off, asleep[u]}
    BY <2>1, <1>1
  <2>3. ASSUME NEW k \in 1 .. Len(queue')
        PROVE  \E i \in 1 .. Len(queue) : queue'[k] = queue[i]
    <3>1. ASSUME NEW p \in 1 .. Len(queue), Left(p)
          PROVE  \E i \in 1 .. Len(queue) : queue'[k] = queue[i]
      <4>1. /\ k \in 1 .. Len(queue) - 1
            /\ queue'[k] = IF k < p THEN queue[k] ELSE queue[k + 1]
        BY <3>1 DEF Left
      <4>2. k \in 1 .. Len(queue) /\ k + 1 \in 1 .. Len(queue)
        BY <4>1, <1>2
      <4>3. QED  BY <4>1, <4>2
    <3>2. CASE queue' = queue
      BY <3>2
    <3>3. QED  BY <1>0, <1>7, <3>1, <3>2, RemoveEffect
  <2>4. QED  BY <1>4, <2>1, <2>2, <2>3
<1>8. CASE timer0_irq
  <2>1. PICK n \in 0 .. Len(queue) : Rung(n) /\ Ringing = 1 .. n
    BY <1>0, <1>8, IrqEffect
  <2> DEFINE rung == {queue[i].owner : i \in Ringing}
  <2>2. /\ ticks' = ticks
        /\ asleep' = [u \in Thread |-> IF u \in rung THEN Off ELSE asleep[u]]
        /\ early' = (early \/ \E u \in rung : RealTime + SLACK < asleep[u])
    BY <1>8 DEF timer0_irq
  <2>3. \A u \in Thread : asleep'[u] \in {Off, asleep[u]}
    BY <2>2
  <2>4. ASSUME NEW k \in 1 .. Len(queue')
        PROVE  \E i \in 1 .. Len(queue) : queue'[k] = queue[i]
    <3>1. k \in 1 .. Len(queue) - n /\ queue'[k] = queue[k + n]
      BY <2>1 DEF Rung
    <3>2. k + n \in 1 .. Len(queue)
      BY <3>1, <1>2
    <3>3. QED  BY <3>1, <3>2
  <2>5. ticks < TS_WRAP => early' = early
    <3> SUFFICES ASSUME ticks < TS_WRAP, NEW u \in rung, RealTime + SLACK < asleep[u]
                 PROVE  FALSE
      BY <2>2, <1>0 DEF TypeOK
    <3>1. PICK i \in Ringing : queue[i].owner = u
      OBVIOUS
    <3>2. i \in 1 .. Len(queue) /\ Due(queue[i])
      BY <3>1, <1>2 DEF Ringing
    <3>3. queue[i].expiration_time <= RealTime + SLACK
      BY <3>2, <1>0, DueMeansSoon
    <3>4. asleep[u] <= queue[i].expiration_time
      BY <3>1, <3>2 DEF WakeInv
    <3>5. /\ RealTime + SLACK \in Int
          /\ queue[i].expiration_time \in Int
          /\ asleep[u] \in Int
      <4>1. u \in Thread
        BY <3>1, <3>2, <1>0, QueueType
      <4>2. RealTime \in Nat
        BY <1>0, EarlyTime
      <4>3. queue[i].expiration_time \in Int
        BY <3>2, <1>0, QueueType
      <4>4. asleep[u] \in Int
        BY <4>1, <1>1 DEF Off
      <4>5. QED  BY <4>2, <4>3, <4>4, ConstantTypes
    <3>6. QED  BY <3>3, <3>4, <3>5
  <2>6. CASE ticks < TS_WRAP
    BY <2>6, <2>2, <2>3, <2>4, <2>5, <1>4
  <2>7. CASE ~(ticks < TS_WRAP)
    BY <2>7, <2>2 DEF WakeInv
  <2>8. QED  BY <2>6, <2>7
<1>9. CASE timer0_irq_asserts
  BY <1>9 DEF timer0_irq_asserts, WakeInv
<1>10. CASE timer_overflow_irq
  BY <1>10 DEF timer_overflow_irq, WakeInv
<1>11. CASE UNCHANGED vars
  BY <1>11 DEF vars, WakeInv
<1>12. QED  BY <1>5, <1>6, <1>7, <1>8, <1>9, <1>10, <1>11 DEF Next

\* Nobody wakes more than SLACK early before the register wraps for the first
\* time, as long as no sleep overflows an int (clock.c: register_timer,
\* timer0_irq; sos.h: sleep).
THEOREM NobodyIsWokenEarly ==
  ASSUME SleepsFit, WordsFit
  PROVE  Spec => []NobodyWakesEarly
<1>1. Init => HighInv /\ WakeInv
  <2>1. Init => WakeInv
    <3> SUFFICES ASSUME Init PROVE WakeInv
      OBVIOUS
    <3>1. Len(queue) = 0 /\ ~early
      BY DEF Init
    <3>2. QED  BY <3>1 DEF WakeInv
  <2>2. QED  BY <2>1, InitHigh
<1>2. AlarmQueueSound /\ HighInv /\ WakeInv /\ [Next]_vars => HighInv' /\ WakeInv'
  <2>1. AlarmQueueSound /\ HighInv /\ [Next]_vars => HighInv'
    BY HighStep DEF AlarmQueueSound
  <2>2. AlarmQueueSound /\ HighInv /\ WakeInv /\ [Next]_vars => WakeInv'
    BY WakeStep
  <2>3. QED  BY <2>1, <2>2
<1>3. WakeInv => NobodyWakesEarly
  BY DEF WakeInv, NobodyWakesEarly
<1>4. QED  BY <1>1, <1>2, <1>3, AlarmQueueStaysSound, PTL DEF Spec

-----------------------------------------------------------------------------
\* A timer programmed for a delay of d microseconds is not late: the conversion
\* to ticks, the width of the register and its control bits only make it early.
LEMMA TimerNotLate ==
  ASSUME NEW x \in Nat, NEW d \in Nat
  PROVE  TICKS_TO_MICROSECONDS(x + TIMER0_SET(MICROSECONDS_TO_TICKS(d)))
           <= TICKS_TO_MICROSECONDS(x) + d
<1> DEFINE n == TIMER0_SET(MICROSECONDS_TO_TICKS(d))
           m == MICROSECONDS_TO_TICKS(d)
           q == (d * TICKS) % U64_WRAP
           z == x * USECS
<1>1. d * TICKS \in Nat /\ z \in Nat
  BY ConstantTypes, ProdNat
<1>2. q \in Nat /\ q <= d * TICKS
  <2>1. q \in 0 .. U64_WRAP - 1
    BY <1>1, ConstantTypes, ModRange
  <2>2. QED  BY <2>1, <1>1, ConstantTypes, ModAtMost
<1>3. m \in Nat /\ n \in Nat /\ n <= m
  <2>1. m \in Nat
    BY ConversionTypes
  <2>2. n \in 0 .. T0_WRAP - 1 /\ n <= m
    BY <2>1, ConversionTypes
  <2>3. QED  BY <2>1, <2>2, ConstantTypes
<1>4. m = q \div USECS
  BY DEF MICROSECONDS_TO_TICKS
<1> HIDE DEF n, m, q, z
<1>5. m * USECS <= q
  BY <1>2, <1>4, ConstantTypes
<1>6. n * USECS <= m * USECS /\ n * USECS \in Nat /\ m * USECS \in Nat
  BY <1>3, ConstantTypes
<1>7. n * USECS <= d * TICKS
  BY <1>1, <1>2, <1>5, <1>6
<1>8. (x + n) * USECS = z + n * USECS
  BY <1>3, ConstantTypes DEF z
<1>9. (z + n * USECS) \div TICKS <= (z + d * TICKS) \div TICKS
  BY <1>1, <1>6, <1>7, ConstantTypes, DivMonotone
<1>10. (z + d * TICKS) \div TICKS = (z \div TICKS) + d
  BY <1>1, ConstantTypes
<1>11. QED  BY <1>8, <1>9, <1>10 DEF TICKS_TO_MICROSECONDS, n, z

\* Until is how long an alarm still has, while it is not overdue.
LEMMA UntilExact ==
  ASSUME TypeOK, NEW a \in Alarm, get_time_stamp <= a.expiration_time
  PROVE  Until(a) = a.expiration_time - get_time_stamp /\ Until(a) \in Nat
<1> DEFINE x == a.expiration_time
           y == get_time_stamp
<1>1. x \in 0 .. U64_WRAP - 1 /\ y \in Nat /\ y <= x
  BY TimeTypes DEF Alarm
<1> HIDE DEF x, y
<1>2. x - y \in 0 .. U64_WRAP - 1
  BY <1>1, ConstantTypes
<1>3. (x - y) % U64_WRAP = x - y
  BY <1>2, ConstantTypes, ModSmall
<1>4. x - y \in Nat
  BY <1>2, ConstantTypes
<1>5. QED  BY <1>3, <1>4 DEF Until, x, y

\* The interrupt comes within a microsecond of alarm a, when timer 0 holds n.
InTime(n, a) ==
  ticks < TS_WRAP /\ get_time_stamp <= a.expiration_time =>
    TICKS_TO_MICROSECONDS(ticks + n) <= a.expiration_time + 1

\* Programming the timer for what is left of an alarm, or for one microsecond.
LEMMA ProgrammedInTime ==
  ASSUME TypeOK, HighInv, NEW a \in Alarm, NEW d \in Nat,
         d = Until(a) \/ (d = 1 /\ Until(a) <= 1)
  PROVE  InTime(TIMER0_SET(MICROSECONDS_TO_TICKS(d)), a)
<1> SUFFICES ASSUME ticks < TS_WRAP, get_time_stamp <= a.expiration_time
             PROVE  TICKS_TO_MICROSECONDS(ticks + TIMER0_SET(MICROSECONDS_TO_TICKS(d)))
                      <= a.expiration_time + 1
  BY DEF InTime
<1>1. ticks \in Nat /\ RealTime \in Nat /\ get_time_stamp = RealTime
  BY EarlyTime
<1>2. Until(a) = a.expiration_time - RealTime /\ Until(a) \in Nat
  BY <1>1, UntilExact
<1> DEFINE s == TICKS_TO_MICROSECONDS(ticks + TIMER0_SET(MICROSECONDS_TO_TICKS(d)))
           r == RealTime
           e == a.expiration_time
           u == Until(a)
<1>3. s <= r + d
  BY <1>1, TimerNotLate DEF RealTime
<1>4. s \in Int
  <2>1. MICROSECONDS_TO_TICKS(d) \in Nat
    BY ConversionTypes
  <2>2. TIMER0_SET(MICROSECONDS_TO_TICKS(d)) \in Nat
    BY <2>1, ConversionTypes, ConstantTypes
  <2>3. ticks + TIMER0_SET(MICROSECONDS_TO_TICKS(d)) \in Nat
    BY <2>2, <1>1
  <2>4. QED  BY <2>3, ConversionTypes
<1>5. e \in Int
  BY ConstantTypes DEF Alarm
<1>6. r \in Nat /\ u = e - r /\ u \in Nat /\ r <= e /\ (d = u \/ (d = 1 /\ u <= 1))
  BY <1>1, <1>2
<1> HIDE DEF s, r, e, u
<1>7. s <= e + 1
  BY <1>3, <1>4, <1>5, <1>6
<1>8. QED  BY <1>7 DEF s, e

\* The part of AlarmOnItsWay about the head of the queue.
LEMMA AlarmOnItsWayParts ==
  AlarmOnItsWay <=>
    (panic = "no" /\ queue # <<>> /\ "t0" \notin irqs =>
       timer0 # Off /\ InTime(timer0, Head(queue)))
BY DEF AlarmOnItsWay, InTime

\* Every action keeps AlarmOnItsWay.
LEMMA OnItsWayStep ==
  ASSUME SleepsFit, WordsFit, AlarmQueueSound, HighInv, AlarmOnItsWay, [Next]_vars
  PROVE  AlarmOnItsWay'
<1>0. TypeOK /\ EverySleeperQueued /\ QueueSorted
  BY DEF AlarmQueueSound
<1>1. /\ queue \in Seq(Alarm) /\ Len(queue) \in Nat
      /\ \A i \in 1 .. Len(queue) : queue[i] \in Alarm
  BY <1>0, QueueType
<1>2. queue # <<>> => 1 \in 1 .. Len(queue) /\ Head(queue) = queue[1]
  BY <1>1
<1>3. panic = "no" /\ queue # <<>> /\ "t0" \notin irqs =>
        timer0 # Off /\ InTime(timer0, Head(queue))
  BY AlarmOnItsWayParts
<1>4. \A x \in 0 .. T0_WRAP - 1 : x # Off
  BY ConstantTypes DEF Off
\* While the time stands still it is enough to look at the timer and the head.
<1>5. ASSUME UNCHANGED <<ticks, high>>,
             panic' = "no" /\ queue' # <<>> /\ "t0" \notin irqs' =>
               timer0' # Off /\ InTime(timer0', Head(queue'))
      PROVE  AlarmOnItsWay'
  BY <1>5 DEF AlarmOnItsWay, InTime, get_time_stamp, OST_TS
<1>6. ASSUME UNCHANGED <<ticks, high, queue, timer0>>,
             "t0" \in irqs' <=> "t0" \in irqs, panic' = "no" => panic = "no"
      PROVE  AlarmOnItsWay'
  BY <1>3, <1>5, <1>6
<1>7. CASE Tick
  <2>1. ticks \in Nat /\ timer0 \in Int /\ timer0 >= Off
    <3>1. ticks \in 0 .. MaxTicks /\ timer0 \in Off .. T0_WRAP - 1
      BY <1>0, Zenon DEF TypeOK
    <3>2. QED  BY <3>1, ConstantTypes DEF Off
  <2>2. CASE timer0 \in {0, 1}
    BY <1>7, <2>2 DEF Tick, AlarmOnItsWay
  <2>3. CASE timer0 = Off
    BY <1>3, <1>7, <2>3 DEF Tick, AlarmOnItsWay, Off
  <2>4. CASE timer0 \notin {0, 1, Off}
    <3>1. /\ ticks' = ticks + 1 /\ timer0' = timer0 - 1 /\ timer0 > 1
          /\ queue' = queue /\ panic' = panic /\ high' = high
          /\ "t0" \in irqs' <=> "t0" \in irqs
      BY <1>7, <2>1, <2>4 DEF Tick, Off
    <3>2. timer0' # Off /\ ticks' + timer0' = ticks + timer0
      BY <3>1, <2>1 DEF Off
    <3>3. ASSUME ticks' < TS_WRAP
          PROVE  ticks < TS_WRAP /\ get_time_stamp <= get_time_stamp'
      <4>1. ticks < TS_WRAP
        BY <3>1, <3>3, <2>1, ConstantTypes
      <4>2. get_time_stamp = TICKS_TO_MICROSECONDS(ticks)
        BY <4>1, <1>0, EarlyTime DEF RealTime
      <4>3. get_time_stamp' = TICKS_TO_MICROSECONDS(ticks + 1)
        <5>1. ticks + 1 \in 0 .. TS_WRAP - 1
          BY <3>1, <3>3, <2>1, ConstantTypes
        <5>2. (ticks + 1) % TS_WRAP = ticks + 1
          BY <5>1, ConstantTypes, ModSmall
        <5>3. high' = 0
          BY <3>1, <4>1 DEF HighInv
        <5>4. get_time_stamp' = 0 + TICKS_TO_MICROSECONDS(ticks + 1)
          BY <5>2, <5>3, <3>1 DEF get_time_stamp, OST_TS
        <5>5. TICKS_TO_MICROSECONDS(ticks + 1) \in Nat
          BY <2>1, ConversionTypes
        <5>6. QED  BY <5>4, <5>5
      <4>4. TICKS_TO_MICROSECONDS(ticks) <= TICKS_TO_MICROSECONDS(ticks + 1)
        <5>1. ticks * USECS \in Nat /\ (ticks + 1) * USECS \in Nat
          BY <2>1, ConstantTypes, ProdNat
        <5>2. ticks * USECS <= (ticks + 1) * USECS
          BY <2>1, ConstantTypes
        <5>3. QED
          BY <5>1, <5>2, ConstantTypes, DivMonotone DEF TICKS_TO_MICROSECONDS
      <4>5. QED  BY <4>1, <4>2, <4>3, <4>4
    <3>4. SUFFICES ASSUME panic = "no", queue # <<>>, "t0" \notin irqs,
                          ticks' < TS_WRAP,
                          get_time_stamp' <= Head(queue).expiration_time
                   PROVE  TICKS_TO_MICROSECONDS(ticks + timer0)
                            <= Head(queue).expiration_time + 1
      BY <3>1, <3>2 DEF AlarmOnItsWay
    <3>5. get_time_stamp <= Head(queue).expiration_time
      <4>1. get_time_stamp \in Int /\ get_time_stamp' \in Int
        <5>1. ticks + 1 \in Nat /\ high \in Nat
          <6>1. high \in Nat
            BY <1>0, Zenon DEF TypeOK
          <6>2. QED  BY <6>1, <2>1
        <5>2. (ticks + 1) % TS_WRAP \in Nat
          BY <5>1, ConstantTypes, ModRange
        <5>3. get_time_stamp' \in Int
          BY <5>1, <5>2, <3>1, ConversionTypes DEF get_time_stamp, OST_TS
        <5>4. QED  BY <5>3, <1>0, TimeTypes
      <4>2. Head(queue).expiration_time \in Int
        BY <3>4, <1>0, <1>2, QueueType
      <4>3. QED  BY <4>1, <4>2, <3>3, <3>4
    <3>6. QED  BY <3>3, <3>4, <3>5, <1>3 DEF InTime
  <2>5. QED  BY <2>2, <2>3, <2>4
<1>8. ASSUME NEW t \in Thread, NEW ms \in SleepMs, sleep_timer(t, ms)
      PROVE  AlarmOnItsWay'
  <2> DEFINE a == NewAlarm(t, ms)
             n == TIMER0_SET(MICROSECONDS_TO_TICKS(SleepDelay(ms)))
  <2>1. PICK p \in 1 .. Len(queue) + 1 : Joined(a, p)
    BY <1>0, <1>8, SleepEffect
  <2>2. /\ asleep[t] = Off
        /\ timer0' = IF Head(queue') = a THEN n ELSE timer0
        /\ UNCHANGED <<ticks, high, irqs, panic>>
    BY <1>0, <1>8, SleepEffect
  <2>3. a \in Alarm /\ a.owner = t
    BY <1>0, NewAlarmType
  <2>4. n # Off
    <3>1. SleepDelay(ms) \in Nat
      BY <1>0, TimeTypes, ConstantTypes
    <3>2. QED  BY <3>1, <1>0, <1>4, TimeTypes
  <2>5. InTime(n, a)
    <3>1. CASE ticks < TS_WRAP
      <4>1. /\ a.expiration_time = RealTime + ms * MS
            /\ SleepDelay(ms) = ms * MS /\ ms * MS \in Nat
        BY <3>1, <1>0, ExpiryExact, DelayExact
      <4>2. RealTime \in Nat /\ get_time_stamp = RealTime
        BY <3>1, <1>0, EarlyTime
      <4>3. get_time_stamp <= a.expiration_time
            /\ a.expiration_time - get_time_stamp = ms * MS
        BY <4>1, <4>2
      <4>4. Until(a) = SleepDelay(ms)
        BY <4>1, <4>3, <2>3, <1>0, UntilExact
      <4>5. QED  BY <4>1, <4>4, <2>3, <1>0, ProgrammedInTime
    <3>2. CASE ~(ticks < TS_WRAP)
      BY <3>2 DEF InTime
    <3>3. QED  BY <3>1, <3>2
  <2> HIDE DEF a, n
  <2>6. /\ queue' \in Seq(Alarm) /\ Len(queue') = Len(queue) + 1
        /\ queue'[1] = IF 1 < p THEN queue[1] ELSE a
    <3>1. 1 \in 1 .. Len(queue) + 1
      BY <1>1
    <3>2. /\ queue' \in Seq(Alarm) /\ Len(queue') = Len(queue) + 1
          /\ queue'[1] = IF 1 < p THEN queue[1] ELSE IF 1 = p THEN a ELSE queue[1 - 1]
      BY <3>1, <2>1 DEF Joined
    <3>3. 1 < p \/ 1 = p
      BY <1>1
    <3>4. QED  BY <3>2, <3>3
  <2>7. Head(queue') = queue'[1]
    BY <2>6, <1>1
  <2>8. CASE 1 < p
    <3>1. queue # <<>> /\ Head(queue') = Head(queue)
      BY <2>6, <2>7, <2>8, <1>1, <1>2
    <3>2. Head(queue).owner # t
      BY <3>1, <2>2, <1>0, <1>2 DEF EverySleeperQueued
    <3>3. timer0' = timer0
      BY <3>1, <3>2, <2>2, <2>3
    <3>4. QED  BY <3>1, <3>3, <2>2, <1>3, <1>5
  <2>9. CASE ~(1 < p)
    BY <2>2, <2>4, <2>5, <2>6, <2>7, <2>9, <1>5
  <2>10. QED  BY <2>8, <2>9
<1>9. ASSUME NEW t \in Thread, remove_timers(t)
      PROVE  AlarmOnItsWay'
  <2>1. UNCHANGED <<ticks, high, irqs>> /\ panic = "no" /\ queue' = Without(t)
    BY <1>9 DEF remove_timers
  <2>2. CASE queue' = queue /\ timer0' = timer0
    BY <2>1, <2>2, <1>3, <1>5
  <2>3. ASSUME NEW p \in 1 .. Len(queue), queue[p].owner = t, Left(p),
               timer0' = TimerWithout(t)
        PROVE  AlarmOnItsWay'
    <3> SUFFICES ASSUME queue' # <<>>, "t0" \notin irqs
                 PROVE  timer0' # Off /\ InTime(timer0', Head(queue'))
      BY <2>1, <1>5
    <3>1. /\ queue' \in Seq(Alarm) /\ Len(queue') = Len(queue) - 1
          /\ \A k \in 1 .. Len(queue) - 1 :
               queue'[k] = IF k < p THEN queue[k] ELSE queue[k + 1]
      BY <2>3 DEF Left
    <3>2. Head(queue') \in Alarm /\ Head(queue') = queue'[1] /\ 1 \in 1 .. Len(queue) - 1
      BY <3>1
    <3>3. queue # <<>>
      BY <1>1, <2>3
    <3>4. CASE Head(queue).owner # t
      <4>1. 1 < p
        BY <3>3, <3>4, <2>3, <1>1, <1>2
      <4>2. Head(queue') = Head(queue)
        BY <4>1, <3>1, <3>2, <3>3, <1>2
      <4>3. timer0' = timer0
        BY <3>4, <2>3 DEF TimerWithout
      <4>4. QED  BY <4>2, <4>3, <3>3, <2>1, <1>3
    <3>5. CASE Head(queue).owner = t
      <4> DEFINE left == Until(Head(queue'))
                 d == IF left > 1 THEN left ELSE 1
      <4>1. timer0' = TIMER0_SET(MICROSECONDS_TO_TICKS(d))
        BY <3>5, <2>1, <2>3 DEF TimerWithout
      <4>2. left \in Nat
        <5>1. \A b \in Alarm : Until(b) \in Nat
          BY <1>0, TimeTypes, ConstantTypes
        <5>2. QED  BY <3>2, <5>1, Zenon
      <4>3. d \in Nat /\ (d = left \/ (d = 1 /\ left <= 1))
        <5> HIDE DEF left
        <5>1. QED  BY <4>2
      <4>4. timer0' # Off
        BY <4>1, <4>3, <1>0, <1>4, TimeTypes
      <4>5. \A b \in Alarm : \A x \in Nat :
              (x = Until(b) \/ (x = 1 /\ Until(b) <= 1)) =>
                InTime(TIMER0_SET(MICROSECONDS_TO_TICKS(x)), b)
        BY <1>0, ProgrammedInTime
      <4>6. InTime(TIMER0_SET(MICROSECONDS_TO_TICKS(d)), Head(queue'))
        <5> HIDE DEF d
        <5>1. QED  BY <4>3, <4>5, <3>2, Zenon
      <4>7. QED  BY <4>1, <4>4, <4>6, Zenon
    <3>6. QED  BY <3>4, <3>5
  <2>4. QED  BY <2>2, <2>3, <1>0, <1>9, RemoveEffect
<1>10. CASE timer0_irq
  <2>1. PICK n \in 0 .. Len(queue) : Rung(n) /\ timer0' = TimerAfterIrq(queue')
    BY <1>0, <1>10, IrqEffect
  <2>2. UNCHANGED <<ticks, high>>
    BY <1>10 DEF timer0_irq
  <2> SUFFICES ASSUME queue' # <<>>
               PROVE  timer0' # Off /\ InTime(timer0', Head(queue'))
    BY <2>2, <1>5
  <2>3. Head(queue') \in Alarm
    BY <2>1 DEF Rung
  <2>4. timer0' = TIMER0_SET(MICROSECONDS_TO_TICKS(Until(Head(queue'))))
    BY <2>1 DEF TimerAfterIrq
  <2>5. \A b \in Alarm :
          /\ TIMER0_SET(MICROSECONDS_TO_TICKS(Until(b))) # Off
          /\ InTime(TIMER0_SET(MICROSECONDS_TO_TICKS(Until(b))), b)
    <3> TAKE b \in Alarm
    <3>1. Until(b) \in Nat
      BY <1>0, TimeTypes, ConstantTypes
    <3>2. QED  BY <3>1, <1>0, <1>4, TimeTypes, ProgrammedInTime
  <2>6. QED  BY <2>3, <2>4, <2>5, Zenon
<1>11. CASE timer0_irq_asserts
  BY <1>6, <1>11 DEF timer0_irq_asserts
<1>12. CASE timer_overflow_irq
  <2>1. /\ UNCHANGED <<ticks, queue, timer0>> /\ irqs' = irqs \ {"ts"}
        /\ "ts" \in irqs /\ panic = "no"
    BY <1>12 DEF timer_overflow_irq
  <2>2. ~(ticks < TS_WRAP)
    BY <2>1 DEF HighInv
  <2>3. QED  BY <2>1, <2>2, <1>3 DEF AlarmOnItsWay
<1>13. CASE UNCHANGED vars
  BY <1>6, <1>13 DEF vars
<1>14. QED  BY <1>7, <1>8, <1>9, <1>10, <1>11, <1>12, <1>13 DEF Next

\* While anyone sleeps the interrupt that wakes the first sleeper is on its way,
\* and before the first wrap it is not later than a microsecond after its alarm,
\* whoever was deleted or went to sleep meanwhile (clock.c: register_timer,
\* timer0_irq, remove_timers).
THEOREM AnAlarmIsOnItsWay ==
  ASSUME SleepsFit, WordsFit
  PROVE  Spec => []AlarmOnItsWay
<1>1. Init => HighInv /\ AlarmOnItsWay
  BY InitHigh DEF Init, AlarmOnItsWay
<1>2. AlarmQueueSound /\ HighInv /\ AlarmOnItsWay /\ [Next]_vars
        => HighInv' /\ AlarmOnItsWay'
  <2>1. AlarmQueueSound /\ HighInv /\ [Next]_vars => HighInv'
    BY HighStep DEF AlarmQueueSound
  <2>2. AlarmQueueSound /\ HighInv /\ AlarmOnItsWay /\ [Next]_vars => AlarmOnItsWay'
    BY OnItsWayStep
  <2>3. QED  BY <2>1, <2>2
<1>3. QED  BY <1>1, <1>2, AlarmQueueStaysSound, PTL DEF Spec
=============================================================================
