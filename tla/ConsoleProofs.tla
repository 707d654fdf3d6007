--------------------------- MODULE ConsoleProofs ----------------------------
(***************************************************************************)
(* Theorems about Console, for any number of processes and descriptors and *)
(* any size of the circular buffer.                                        *)
(***************************************************************************)
EXTENDS Console, SequenceTheorems, WellFoundedInduction, TLAPS

Character == 0 .. MaxChars
Memory    == [1 .. SIZE -> Character]
Position  == 0 .. SIZE - 1

\* How many characters wait between the two positions, and the i-th of them.
Count(r, w)   == IF r <= w THEN w - r ELSE SIZE + w - r
Elem(b, r, i) == IF r + i <= SIZE THEN b[r + i] ELSE b[r + i - SIZE]

\* Contents of memory b between positions r and w.
Between(b, r, w) == SubSeq(Copied(b, r, w), 1, (SIZE + w - r) % SIZE)

Descriptor == [mode : SUBSET {"r", "w"}, to_read : ReadLen \cup {0}, std : BOOLEAN]

Counted ==
  /\ arrived \in 0 .. MaxChars /\ newline \subseteq 1 .. arrived
  /\ taken \in Seq(Character)

\* The flag says what the positions say.
OverflowIsFull == overflow <=> Full(write_position)

\* Descriptor 0, as register_process makes it, does not read.
StdWrites == \A p \in Pid, fd \in Fd : filetable[p][fd].std => filetable[p][fd].mode = {"w"}

Inv == TypeOK /\ Counted /\ OverflowIsFull /\ StdWrites /\ ReaderExact

-----------------------------------------------------------------------------
(***************************************************************************)
(* The circular buffer holds a sequence, which a read shortens at its      *)
(* front and a write extends.                                              *)
(***************************************************************************)

\* The constants of the console, one by one.
LEMMA TypeConstants ==
  /\ SIZE \in Nat /\ SIZE >= 2 /\ MaxChars \in Nat /\ ReadLen \subseteq Nat
  /\ PROCESS_MAX_FILES \in Nat \ {0} /\ 0 \in Fd /\ Fd \subseteq Nat
  /\ Nil \notin Pid
  BY ConsoleAssumption DEF Fd, Nil

\* A position inside the buffer is itself.
LEMMA ModSmall ==
  ASSUME NEW k \in 0 .. SIZE - 1
  PROVE  k % SIZE = k
  BY TypeConstants

\* A position past the end goes round once.
LEMMA ModWrap ==
  ASSUME NEW k \in SIZE .. 2 * SIZE - 1
  PROVE  k % SIZE = k - SIZE
  BY TypeConstants

\* The number of characters between two positions, as the code computes it.
LEMMA Counts ==
  ASSUME NEW r \in Position, NEW w \in Position
  PROVE  (SIZE + w - r) % SIZE = Count(r, w) /\ Count(r, w) \in 0 .. SIZE - 1
<1>0. SIZE \in Nat /\ r \in Nat /\ w \in Nat /\ r < SIZE /\ w < SIZE
  BY TypeConstants DEF Position
<1>1. CASE r <= w
  <2>1. SIZE + w - r \in SIZE .. 2 * SIZE - 1
    BY <1>0, <1>1
  <2>2. (SIZE + w - r) % SIZE = (SIZE + w - r) - SIZE
    BY <2>1, ModWrap
  <2> QED BY <1>0, <1>1, <2>2 DEF Count
<1>2. CASE ~(r <= w)
  <2>1. SIZE + w - r \in 0 .. SIZE - 1
    BY <1>0, <1>2
  <2>2. (SIZE + w - r) % SIZE = SIZE + w - r
    BY <2>1, ModSmall
  <2> QED BY <1>0, <1>2, <2>1, <2>2 DEF Count
<1> QED BY <1>1, <1>2

\* What the copy of the buffer holds, character by character.
LEMMA CopiedIs ==
  ASSUME NEW b \in Memory, NEW r \in Position, NEW w \in Position
  PROVE  /\ Copied(b, r, w) \in Seq(Character)
         /\ Count(r, w) <= Len(Copied(b, r, w))
         /\ \A i \in 1 .. Count(r, w) : Copied(b, r, w)[i] = Elem(b, r, i)
<1>0. SIZE \in Nat /\ r \in Nat /\ w \in Nat /\ r < SIZE /\ w < SIZE
  BY TypeConstants DEF Position
<1>1. b \in Seq(Character) /\ Len(b) = SIZE
  BY <1>0 DEF Memory
<1>2. CASE r < w
  <2>1. Copied(b, r, w) = SubSeq(b, r + 1, w) /\ Count(r, w) = w - r
    BY <1>0, <1>2 DEF Copied, Count
  <2>2. /\ SubSeq(b, r + 1, w) \in Seq(Character) /\ Len(SubSeq(b, r + 1, w)) = w - r
        /\ \A i \in 1 .. w - r : SubSeq(b, r + 1, w)[i] = b[r + i]
    BY <1>0, <1>1, <1>2
  <2>3. \A i \in 1 .. w - r : Elem(b, r, i) = b[r + i]
    BY <1>0 DEF Elem
  <2> QED BY <1>0, <2>1, <2>2, <2>3
<1>3. CASE ~(r < w)
  <2> DEFINE front == SubSeq(b, r + 1, SIZE)
             back == SubSeq(b, 1, w)
  <2>1. Copied(b, r, w) = front \o back
    BY <1>0, <1>3 DEF Copied
  <2>2. /\ front \in Seq(Character) /\ Len(front) = SIZE - r
        /\ \A i \in 1 .. SIZE - r : front[i] = b[r + i]
    BY <1>0, <1>1
  <2>3. /\ back \in Seq(Character) /\ Len(back) = w
        /\ \A i \in 1 .. w : back[i] = b[i]
    BY <1>0, <1>1
  <2> HIDE DEF front, back
  <2>4. front \o back \in Seq(Character) /\ Len(front \o back) = Len(front) + Len(back)
    BY <2>2, <2>3, ConcatProperties, Zenon
  <2>5. Count(r, w) <= Len(front) + Len(back) /\ Count(r, w) \in 0 .. SIZE - r + w
    BY <1>0, <1>3, <2>2, <2>3 DEF Count
  <2>6. ASSUME NEW i \in 1 .. Count(r, w) PROVE (front \o back)[i] = Elem(b, r, i)
    <3>1. i \in 1 .. Len(front) + Len(back) /\ i \in Nat
      BY <1>0, <2>2, <2>3, <2>5
    <3>2. (front \o back)[i] = IF i <= SIZE - r THEN front[i] ELSE back[i - (SIZE - r)]
      BY <2>2, <2>3, <3>1, ConcatProperties
    <3>3. CASE i <= SIZE - r
      BY <1>0, <2>2, <3>1, <3>2, <3>3 DEF Elem
    <3>4. CASE ~(i <= SIZE - r)
      <4>1. i - (SIZE - r) \in 1 .. w /\ i - (SIZE - r) = r + i - SIZE /\ ~(r + i <= SIZE)
        BY <1>0, <2>5, <3>1, <3>4
      <4>2. back[i - (SIZE - r)] = b[r + i - SIZE]
        BY <2>3, <4>1
      <4> QED BY <3>2, <3>4, <4>1, <4>2 DEF Elem
    <3> QED BY <3>3, <3>4
  <2> QED BY <2>1, <2>4, <2>5, <2>6
<1> QED BY <1>2, <1>3

\* The contents between two positions, and that a read returns a prefix of them.
LEMMA BetweenIs ==
  ASSUME NEW b \in Memory, NEW r \in Position, NEW w \in Position
  PROVE  /\ Between(b, r, w) \in Seq(Character)
         /\ Len(Between(b, r, w)) = Count(r, w)
         /\ \A i \in 1 .. Count(r, w) : Between(b, r, w)[i] = Elem(b, r, i)
         /\ \A n \in 0 .. Count(r, w) :
              SubSeq(Copied(b, r, w), 1, n) = SubSeq(Between(b, r, w), 1, n)
<1> DEFINE s == Copied(b, r, w)
           k == Count(r, w)
<1>1. k \in Nat /\ Between(b, r, w) = SubSeq(s, 1, k)
  BY Counts DEF Between
<1>2. s \in Seq(Character) /\ k <= Len(s) /\ \A i \in 1 .. k : s[i] = Elem(b, r, i)
  BY CopiedIs
<1> HIDE DEF s, k
<1>3. /\ SubSeq(s, 1, k) \in Seq(Character) /\ Len(SubSeq(s, 1, k)) = k
      /\ \A i \in 1 .. k : SubSeq(s, 1, k)[i] = s[i]
  BY <1>1, <1>2
<1>4. ASSUME NEW n \in 0 .. k PROVE SubSeq(s, 1, n) = SubSeq(SubSeq(s, 1, k), 1, n)
  <2> DEFINE u == SubSeq(s, 1, k)
  <2>1. u \in Seq(Character) /\ Len(u) = k /\ \A i \in 1 .. k : u[i] = s[i]
    BY <1>3
  <2> HIDE DEF u
  <2>2. /\ SubSeq(s, 1, n) \in Seq(Character) /\ Len(SubSeq(s, 1, n)) = n
        /\ \A i \in 1 .. n : SubSeq(s, 1, n)[i] = s[i]
    BY <1>1, <1>2
  <2>3. /\ SubSeq(u, 1, n) \in Seq(Character) /\ Len(SubSeq(u, 1, n)) = n
        /\ \A i \in 1 .. n : SubSeq(u, 1, n)[i] = u[i]
    BY <1>1, <2>1
  <2>4. \A i \in 1 .. n : SubSeq(s, 1, n)[i] = SubSeq(u, 1, n)[i]
    BY <1>1, <2>1, <2>2, <2>3
  <2>5. SubSeq(s, 1, n) = SubSeq(u, 1, n)
    BY <2>2, <2>3, <2>4, SeqEqual
  <2> QED BY <2>5 DEF u
<1> QED BY <1>1, <1>2, <1>3, <1>4 DEF s, k

\* A read of n characters takes them from the front.
LEMMA ReadTakesFront ==
  ASSUME NEW b \in Memory, NEW r \in Position, NEW w \in Position, NEW n \in 0 .. Count(r, w)
  PROVE  /\ (r + n) % SIZE \in Position
         /\ Count((r + n) % SIZE, w) = Count(r, w) - n
         /\ Between(b, (r + n) % SIZE, w) = SubSeq(Between(b, r, w), n + 1, Len(Between(b, r, w)))
<1>0. /\ SIZE \in Nat /\ r \in Nat /\ w \in Nat /\ r < SIZE /\ w < SIZE /\ n \in Nat
      /\ Count(r, w) \in 0 .. SIZE - 1 /\ n <= Count(r, w)
  BY TypeConstants, Counts DEF Position
<1> DEFINE q == (r + n) % SIZE
           k == Count(r, w)
           s == Between(b, r, w)
           t == Between(b, q, w)
<1>1. q = IF r + n < SIZE THEN r + n ELSE r + n - SIZE
  <2>1. CASE r + n < SIZE
    BY <1>0, <2>1, ModSmall
  <2>2. CASE ~(r + n < SIZE)
    <3>1. r + n \in SIZE .. 2 * SIZE - 1
      BY <1>0, <2>2
    <3> QED BY <1>0, <2>2, <3>1, ModWrap
  <2> QED BY <2>1, <2>2
<1> HIDE DEF q
<1>2. q \in Position
  BY <1>0, <1>1 DEF Position
<1>3. Count(q, w) = k - n
  BY <1>0, <1>1 DEF Count
<1>4. s \in Seq(Character) /\ Len(s) = k /\ \A i \in 1 .. k : s[i] = Elem(b, r, i)
  BY BetweenIs
<1>5. t \in Seq(Character) /\ Len(t) = k - n /\ \A i \in 1 .. k - n : t[i] = Elem(b, q, i)
  BY <1>2, <1>3, BetweenIs
<1>6. ASSUME NEW i \in 1 .. k - n PROVE Elem(b, q, i) = Elem(b, r, n + i)
  BY <1>0, <1>1 DEF Elem
<1>7. k \in Nat /\ n <= k
  BY <1>0
<1> HIDE DEF s, t, k
<1>8. /\ SubSeq(s, n + 1, k) \in Seq(Character) /\ Len(SubSeq(s, n + 1, k)) = k - n
      /\ \A i \in 1 .. k - n : SubSeq(s, n + 1, k)[i] = s[n + i]
  BY <1>0, <1>4, <1>7
<1>9. ASSUME NEW i \in 1 .. k - n PROVE t[i] = SubSeq(s, n + 1, k)[i]
  <2>1. n + i \in 1 .. k
    BY <1>0, <1>7
  <2>2. s[n + i] = Elem(b, r, n + i)
    BY <1>4, <2>1
  <2> QED BY <1>5, <1>6, <1>8, <2>2
<1>10. t = SubSeq(s, n + 1, Len(s))
  <2>1. t = SubSeq(s, n + 1, k)
    BY <1>5, <1>8, <1>9, SeqEqual
  <2> QED BY <1>4, <2>1
<1> QED BY <1>2, <1>3, <1>10 DEF q, s, t, k

\* A write to a buffer that is not full appends.
LEMMA WriteAppends ==
  ASSUME NEW b \in Memory, NEW r \in Position, NEW w \in Position, Advanced(w) # r,
         NEW c \in Character
  PROVE  /\ Advanced(w) \in Position
         /\ [b EXCEPT ![w + 1] = c] \in Memory
         /\ Count(r, w) < SIZE - 1 /\ Count(r, Advanced(w)) = Count(r, w) + 1
         /\ Between([b EXCEPT ![w + 1] = c], r, Advanced(w)) = Append(Between(b, r, w), c)
<1>0. /\ SIZE \in Nat /\ SIZE >= 2 /\ r \in Nat /\ w \in Nat /\ r < SIZE /\ w < SIZE
      /\ Count(r, w) \in 0 .. SIZE - 1
  BY TypeConstants, Counts DEF Position
<1> DEFINE a == Advanced(w)
           k == Count(r, w)
           d == [b EXCEPT ![w + 1] = c]
           s == Between(b, r, w)
           t == Between(d, r, a)
<1>1. a = IF w + 1 < SIZE THEN w + 1 ELSE 0
  <2>1. CASE w + 1 < SIZE
    BY <1>0, <2>1, ModSmall DEF Advanced
  <2>2. CASE ~(w + 1 < SIZE)
    <3>1. w + 1 \in SIZE .. 2 * SIZE - 1 /\ w + 1 = SIZE
      BY <1>0, <2>2
    <3> QED BY <1>0, <2>2, <3>1, ModWrap DEF Advanced
  <2> QED BY <2>1, <2>2
<1>2. a # r
  OBVIOUS
<1> HIDE DEF a
<1>3. a \in Position /\ k < SIZE - 1 /\ Count(r, a) = k + 1
  BY <1>0, <1>1, <1>2 DEF Position, Count
<1>4. /\ d \in Memory /\ d[w + 1] = c
      /\ \A i \in 1 .. SIZE : i # w + 1 => d[i] = b[i]
  BY <1>0 DEF Memory
<1> HIDE DEF d
<1>5. s \in Seq(Character) /\ Len(s) = k /\ \A i \in 1 .. k : s[i] = Elem(b, r, i)
  BY BetweenIs
<1>6. t \in Seq(Character) /\ Len(t) = k + 1 /\ \A i \in 1 .. k + 1 : t[i] = Elem(d, r, i)
  BY <1>3, <1>4, BetweenIs
<1>7. Elem(d, r, k + 1) = c
  BY <1>0, <1>3, <1>4 DEF Elem, Count
<1>8. ASSUME NEW i \in 1 .. k PROVE Elem(d, r, i) = Elem(b, r, i)
  BY <1>0, <1>3, <1>4 DEF Elem, Count
<1>9. k \in Nat
  BY <1>0
<1> HIDE DEF s, t, k
<1>10. /\ Append(s, c) \in Seq(Character) /\ Len(Append(s, c)) = k + 1
       /\ \A i \in 1 .. k + 1 : Append(s, c)[i] = IF i <= k THEN s[i] ELSE c
  BY <1>5, <1>9
<1>11. ASSUME NEW i \in 1 .. k + 1 PROVE t[i] = Append(s, c)[i]
  <2>1. CASE i = k + 1
    BY <1>6, <1>7, <1>9, <1>10, <2>1
  <2>2. CASE i \in 1 .. k
    BY <1>5, <1>6, <1>8, <1>9, <1>10, <2>2
  <2>3. i = k + 1 \/ i \in 1 .. k
    BY <1>9
  <2> QED BY <2>1, <2>2, <2>3, Zenon
<1>12. t = Append(s, c)
  BY <1>6, <1>10, <1>11, SeqEqual
<1> QED BY <1>3, <1>4, <1>12 DEF a, d, s, t, k

\* The writer is one short of the reader exactly when the buffer is full.
LEMMA FullCounts ==
  ASSUME NEW r \in Position, NEW w \in Position
  PROVE  Advanced(w) = r <=> Count(r, w) = SIZE - 1
<1>0. SIZE \in Nat /\ SIZE >= 2 /\ r \in Nat /\ w \in Nat /\ r < SIZE /\ w < SIZE
  BY TypeConstants DEF Position
<1>1. Advanced(w) = IF w + 1 < SIZE THEN w + 1 ELSE 0
  <2>1. CASE w + 1 < SIZE
    BY <1>0, <2>1, ModSmall DEF Advanced
  <2>2. CASE ~(w + 1 < SIZE)
    <3>1. w + 1 \in SIZE .. 2 * SIZE - 1 /\ w + 1 = SIZE
      BY <1>0, <2>2
    <3> QED BY <1>0, <2>2, <3>1, ModWrap DEF Advanced
  <2> QED BY <2>1, <2>2
<1> QED BY <1>0, <1>1 DEF Count

\* What n characters out of queue q leave behind.
Handed(q, n) ==
  /\ taken' = taken \o SubSeq(q, 1, n) /\ taken' \in Seq(Character)
  /\ Contents' = SubSeq(q, n + 1, Len(q))

\* Handing out nothing keeps the contents.
LEMMA NothingHanded ==
  ASSUME NEW q \in Seq(Character), taken \in Seq(Character), taken' = taken, Contents' = q
  PROVE  Handed(q, 0)
<1>1. SubSeq(q, 1, 0) = << >>
  BY SubSeqEmpty
<1>2. taken \o << >> = taken
  BY ConcatEmptySeq
<1>3. SubSeq(q, 0 + 1, Len(q)) = q
  BY SubSeqFull
<1> QED BY <1>1, <1>2, <1>3 DEF Handed

\* circular_buffer_read hands out a prefix of the contents, and something if
\* it can.
LEMMA BufferRead ==
  ASSUME NEW b \in Memory, NEW w \in Position, NEW o \in BOOLEAN, NEW len \in Nat,
         read_position \in Position, taken \in Seq(Character),
         o <=> Full(w), circular_buffer_read(b, w, o, len)
  PROVE  /\ Readable(w, len) \in 0 .. Len(Between(b, read_position, w))
         /\ len > 0 /\ Count(read_position, w) > 0 => Readable(w, len) > 0
         /\ Count(read_position, w) = 0 => Readable(w, len) = 0
         /\ buffer' = b /\ write_position' = w /\ read_position' \in Position
         /\ overflow' \in BOOLEAN /\ OverflowIsFull'
         /\ Handed(Between(b, read_position, w), Readable(w, len))
<1> DEFINE r == read_position
           k == Count(r, w)
           n == Readable(w, len)
           q == Between(b, r, w)
<1>0. SIZE \in Nat /\ SIZE >= 2
  BY TypeConstants
<1>1. k \in 0 .. SIZE - 1 /\ n = Smaller(k, Smaller(len, SIZE - 1))
  BY Counts DEF Readable
<1>2. n \in 0 .. k /\ (len > 0 /\ k > 0 => n > 0) /\ (k = 0 => n = 0)
  BY <1>0, <1>1 DEF Smaller
<1>3. /\ q \in Seq(Character) /\ Len(q) = k
      /\ SubSeq(Copied(b, r, w), 1, n) = SubSeq(q, 1, n)
  BY <1>2, BetweenIs
<1>4. buffer' = b /\ write_position' = w
  BY DEF circular_buffer_read
<1>5. CASE n > 0
  <2>1. /\ overflow' = FALSE /\ read_position' = (r + n) % SIZE
        /\ taken' = taken \o SubSeq(Copied(b, r, w), 1, n)
    BY <1>5 DEF circular_buffer_read
  <2>2. /\ read_position' \in Position /\ Count(read_position', w) = k - n
        /\ Between(b, read_position', w) = SubSeq(q, n + 1, Len(q))
    BY <1>2, <2>1, ReadTakesFront
  <2>3. Contents' = Between(b, read_position', w)
    BY <1>4 DEF Contents, Between
  <2>4. Count(read_position', w) # SIZE - 1
    BY <1>0, <1>1, <1>2, <1>5, <2>2
  <2>5. Advanced(w) # read_position'
    BY <2>2, <2>4, FullCounts
  <2>6. OverflowIsFull'
    BY <1>4, <2>1, <2>5 DEF OverflowIsFull, Full
  <2>7. taken' \in Seq(Character)
    <3> HIDE DEF q, n, k
    <3>1. SubSeq(q, 1, n) \in Seq(Character)
      BY <1>2, <1>3
    <3> DEFINE x == SubSeq(q, 1, n)
    <3>2. taken' = taken \o x /\ x \in Seq(Character)
      BY <1>3, <2>1, <3>1
    <3> HIDE DEF x
    <3> QED BY <3>2, ConcatProperties, Zenon
  <2> QED BY <1>2, <1>3, <1>4, <2>1, <2>2, <2>3, <2>6, <2>7 DEF Handed
<1>6. CASE ~(n > 0)
  <2>1. n = 0 /\ overflow' = o /\ read_position' = r /\ taken' = taken
    BY <1>2, <1>6 DEF circular_buffer_read
  <2>2. Contents' = q
    BY <1>4, <2>1 DEF Contents, Between
  <2>3. Handed(q, n)
    BY <1>3, <2>1, <2>2, NothingHanded
  <2>4. OverflowIsFull'
    BY <1>4, <2>1 DEF OverflowIsFull, Full
  <2> QED BY <1>2, <1>3, <1>4, <2>1, <2>3, <2>4
<1> QED BY <1>5, <1>6

\* Memory and write position after circular_buffer_write of the next character.
Written == IF overflow THEN buffer ELSE [buffer EXCEPT ![write_position + 1] = arrived + 1]
After   == IF overflow THEN write_position ELSE Advanced(write_position)
Queue   == Between(Written, read_position, After)

\* The parts of the type invariant.
LEMMA Types ==
  ASSUME Inv
  PROVE  /\ read_position \in Position /\ write_position \in Position /\ buffer \in Memory
         /\ overflow \in BOOLEAN /\ taken \in Seq(Character)
         /\ filetable \in [Pid -> [Fd -> Descriptor]] /\ active \in [Pid -> BOOLEAN]
         /\ arrived \in 0 .. MaxChars /\ newline \subseteq 1 .. arrived
         /\ reader \in Pid \cup {Nil} /\ blocked \subseteq Pid
  BY DEF Inv, TypeOK, Counted, Position, Memory, Character, Descriptor

\* The contents of the buffer and the overflow flag.
LEMMA ContentsTypes ==
  ASSUME Inv
  PROVE  /\ Contents = Between(buffer, read_position, write_position)
         /\ Contents \in Seq(Character)
         /\ Len(Contents) = Count(read_position, write_position)
         /\ overflow <=> Len(Contents) = SIZE - 1
<1>1. Contents = Between(buffer, read_position, write_position)
  BY DEF Contents, Between
<1>2. Contents \in Seq(Character) /\ Len(Contents) = Count(read_position, write_position)
  BY <1>1, Types, BetweenIs
<1>3. overflow <=> Full(write_position)
  BY DEF Inv, OverflowIsFull
<1> QED BY <1>1, <1>2, <1>3, Types, FullCounts DEF Full

\* Writing a character appends it, or drops it when the buffer is full.
LEMMA BufferWritten ==
  ASSUME Inv, arrived < MaxChars
  PROVE  /\ Written \in Memory /\ After \in Position
         /\ overflow => Queue = Contents
         /\ ~overflow => Len(Contents) < SIZE - 1 /\ Queue = Append(Contents, arrived + 1)
         /\ Queue \in Seq(Character) /\ Len(Queue) = Count(read_position, After)
         /\ Count(read_position, After) > 0
         /\ (overflow \/ Full(After)) <=> Full(After)
<1>0. SIZE \in Nat /\ SIZE >= 2 /\ MaxChars \in Nat
  BY TypeConstants
<1>1. CASE overflow
  <2>1. Written = buffer /\ After = write_position /\ Full(After)
    BY <1>1 DEF Written, After, Inv, OverflowIsFull
  <2>2. Queue = Contents /\ Len(Contents) = SIZE - 1
    BY <1>1, <2>1, ContentsTypes DEF Queue
  <2> QED BY <1>0, <1>1, <2>1, <2>2, Types, ContentsTypes
<1>2. CASE ~overflow
  <2>1. /\ Written = [buffer EXCEPT ![write_position + 1] = arrived + 1]
        /\ After = Advanced(write_position) /\ Advanced(write_position) # read_position
    BY <1>2 DEF Written, After, Inv, OverflowIsFull, Full
  <2>2. arrived + 1 \in Character
    BY <1>0, Types DEF Character
  <2>3. /\ After \in Position /\ Written \in Memory
        /\ Count(read_position, write_position) < SIZE - 1
        /\ Count(read_position, After) = Count(read_position, write_position) + 1
        /\ Queue = Append(Contents, arrived + 1)
    <3>1. /\ Advanced(write_position) \in Position
          /\ [buffer EXCEPT ![write_position + 1] = arrived + 1] \in Memory
          /\ Count(read_position, write_position) < SIZE - 1
          /\ Count(read_position, Advanced(write_position)) = Count(read_position, write_position) + 1
          /\ Between([buffer EXCEPT ![write_position + 1] = arrived + 1], read_position,
                     Advanced(write_position))
             = Append(Between(buffer, read_position, write_position), arrived + 1)
      BY <2>1, <2>2, Types, WriteAppends
    <3> QED BY <2>1, <3>1, ContentsTypes DEF Queue
  <2>4. Queue \in Seq(Character) /\ Len(Queue) = Count(read_position, After)
    BY <2>3, Types, BetweenIs DEF Queue
  <2>5. Count(read_position, write_position) \in 0 .. SIZE - 1
    BY Types, Counts
  <2> QED BY <1>0, <1>2, <2>3, <2>4, <2>5, ContentsTypes
<1> QED BY <1>1, <1>2

-----------------------------------------------------------------------------
(***************************************************************************)
(* Descriptors and the reader.                                             *)
(***************************************************************************)

\* A set of naturals that is not empty has a least member.
LEMMA LeastNumber ==
  ASSUME NEW S \in SUBSET Nat, S # {}
  PROVE  \E m \in S : \A n \in S : m <= n
<1>1. PICK m \in S : \A n \in S : ~ <<n, m>> \in OpToRel(<, Nat)
  BY NatLessThanWellFounded, WFMin, Zenon
<1>2. \A n \in S : ~ (n < m)
  BY <1>1 DEF OpToRel
<1> QED BY <1>2

\* Who may do what is unchanged.
SameRights ==
  \A p \in Pid, fd \in Fd : /\ filetable'[p][fd].mode = filetable[p][fd].mode
                            /\ filetable'[p][fd].std = filetable[p][fd].std

\* Setting to_read of one descriptor touches nothing else.
LEMMA ToReadSet ==
  ASSUME filetable \in [Pid -> [Fd -> Descriptor]], NEW p \in Pid, NEW fd \in Fd,
         NEW n \in ReadLen \cup {0}, filetable' = [filetable EXCEPT ![p][fd].to_read = n]
  PROVE  /\ filetable' \in [Pid -> [Fd -> Descriptor]]
         /\ SameRights
         /\ filetable'[p][fd].to_read = n
         /\ \A q \in Pid, f \in Fd :
              <<q, f>> # <<p, fd>> => filetable'[q][f].to_read = filetable[q][f].to_read
<1> DEFINE e == [filetable[p][fd] EXCEPT !.to_read = n]
<1>1. filetable[p][fd] \in Descriptor
  OBVIOUS
<1>2. e \in Descriptor /\ e.to_read = n /\ e.mode = filetable[p][fd].mode /\ e.std = filetable[p][fd].std
  BY <1>1 DEF Descriptor
<1>3. filetable' = [filetable EXCEPT ![p][fd] = e]
  OBVIOUS
<1> HIDE DEF e
<1>4. /\ filetable' \in [Pid -> [Fd -> Descriptor]] /\ filetable'[p][fd] = e
      /\ \A q \in Pid, f \in Fd : <<q, f>> # <<p, fd>> => filetable'[q][f] = filetable[q][f]
  BY <1>2, <1>3
<1>5. SameRights
  BY <1>2, <1>4 DEF SameRights
<1> QED BY <1>2, <1>4, <1>5

\* Where the open modes stay, so do the facts about readers.
LEMMA RightsKept ==
  ASSUME Inv, SameRights, UNCHANGED <<active, reader>>
  PROVE  StdWrites' /\ ReaderExact'
<1>1. StdWrites'
  BY DEF SameRights, Inv, StdWrites
<1>2. Readers' = Readers
  BY DEF SameRights, Readers
<1> QED BY <1>1, <1>2 DEF Inv, ReaderExact

\* What serial_receive_handler does: the character is queued or dropped, and if it
\* ends a read, the reader gets something and goes on.
ReaderServed(is_newline) ==
  reader # Nil /\ ReadEnds(is_newline, overflow) /\ Waiting(reader) # {}

\* serial_receive_handler, seen from the buffer and the descriptors.
LEMMA HandlerEffect ==
  ASSUME Inv, NEW is_newline \in BOOLEAN, serial_receive_handler(is_newline)
  PROVE  /\ buffer' \in Memory /\ write_position' \in Position /\ read_position' \in Position
         /\ overflow' \in BOOLEAN /\ OverflowIsFull'
         /\ \E n \in 0 .. Len(Queue) : Handed(Queue, n)
         /\ filetable' \in [Pid -> [Fd -> Descriptor]] /\ SameRights
         /\ ReaderServed(is_newline) => blocked' = blocked \ {reader}
         /\ ~ReaderServed(is_newline) => UNCHANGED <<filetable, blocked>> /\ Handed(Queue, 0)
<1> DEFINE o == overflow \/ Full(After)
<1>0. arrived < MaxChars
  BY DEF serial_receive_handler
<1>1. /\ Written \in Memory /\ After \in Position /\ o \in BOOLEAN /\ (o <=> Full(After))
      /\ Queue \in Seq(Character) /\ Len(Queue) = Count(read_position, After)
      /\ Count(read_position, After) > 0 /\ Len(Queue) \in Nat
  BY <1>0, BufferWritten, Types DEF Full
<1>2. CASE ReaderServed(is_newline)
  <2> DEFINE fd == CHOOSE fd \in Waiting(reader) : \A other \in Waiting(reader) : fd <= other
             len == filetable[reader][fd].to_read
  <2>1. reader \in Pid /\ fd \in Fd /\ len > 0 /\ len \in Nat
    <3>1. Waiting(reader) \subseteq Nat /\ Waiting(reader) # {} /\ reader \in Pid
      BY <1>2, Types, TypeConstants DEF ReaderServed, Waiting
    <3>2. PICK m \in Waiting(reader) : \A other \in Waiting(reader) : m <= other
      BY <3>1, LeastNumber
    <3>3. fd \in Waiting(reader)
      BY <3>2
    <3> HIDE DEF fd
    <3>4. fd \in Fd /\ filetable[reader][fd].to_read > 0
      BY <3>3 DEF Waiting
    <3>5. filetable[reader][fd] \in Descriptor
      BY <3>1, <3>4, Types
    <3>6. filetable[reader][fd].to_read \in Nat
      BY <3>5, TypeConstants DEF Descriptor
    <3> QED BY <3>1, <3>4, <3>6
  <2>2. /\ circular_buffer_read(Written, After, o, len)
        /\ IF Readable(After, len) > 0
           THEN /\ filetable' = [filetable EXCEPT ![reader][fd].to_read = 0]
                /\ blocked' = blocked \ {reader}
           ELSE UNCHANGED <<filetable, blocked>>
    BY <1>2 DEF serial_receive_handler, ReaderServed, Written, After
  <2> HIDE DEF fd, len, o
  <2>3. /\ Readable(After, len) \in 0 .. Len(Queue) /\ Readable(After, len) > 0
        /\ buffer' = Written /\ write_position' = After /\ read_position' \in Position
        /\ overflow' \in BOOLEAN /\ OverflowIsFull'
        /\ Handed(Queue, Readable(After, len))
    BY <1>1, <2>1, <2>2, Types, BufferRead DEF Queue
  <2>4. /\ filetable' = [filetable EXCEPT ![reader][fd].to_read = 0]
        /\ blocked' = blocked \ {reader}
    BY <2>2, <2>3
  <2>5. filetable' \in [Pid -> [Fd -> Descriptor]] /\ SameRights
    BY <2>1, <2>4, Types, ToReadSet
  <2> QED BY <1>1, <1>2, <2>3, <2>4, <2>5
<1>3. CASE ~ReaderServed(is_newline)
  <2>1. /\ buffer' = Written /\ write_position' = After /\ overflow' = o
        /\ UNCHANGED <<read_position, taken, filetable, blocked>>
    BY <1>3 DEF serial_receive_handler, ReaderServed, Written, After
  <2>2. Contents' = Queue
    BY <2>1 DEF Contents, Queue, Between
  <2>3. Handed(Queue, 0)
    BY <1>1, <2>1, <2>2, Types, NothingHanded
  <2>4. OverflowIsFull'
    BY <1>1, <2>1 DEF OverflowIsFull, Full
  <2>5. SameRights /\ 0 \in 0 .. Len(Queue)
    BY <1>1, <2>1 DEF SameRights
  <2> QED BY <1>1, <1>3, <2>1, <2>3, <2>4, <2>5, Types
<1> QED BY <1>2, <1>3

\* read_serial, seen from the buffer and the descriptors.
LEMMA ReadEffect ==
  ASSUME Inv, NEW p \in Pid, NEW fd \in Fd, NEW n \in ReadLen, read_serial(p, fd, n)
  PROVE  /\ buffer' = buffer /\ write_position' = write_position /\ read_position' \in Position
         /\ overflow' \in BOOLEAN /\ OverflowIsFull'
         /\ Readable(write_position, n) \in 0 .. Len(Contents)
         /\ n > 0 /\ Len(Contents) > 0 => Readable(write_position, n) > 0
         /\ Handed(Contents, Readable(write_position, n))
         /\ filetable' \in [Pid -> [Fd -> Descriptor]] /\ SameRights
         /\ Readable(write_position, n) = 0 => filetable'[p][fd].to_read = n
<1>1. circular_buffer_read(buffer, write_position, overflow, n) /\ n \in Nat
  BY TypeConstants DEF read_serial
<1>2. overflow <=> Full(write_position)
  BY DEF Inv, OverflowIsFull
<1>3. /\ Contents = Between(buffer, read_position, write_position)
      /\ Len(Contents) = Count(read_position, write_position)
  BY ContentsTypes
<1>4. /\ buffer' = buffer /\ write_position' = write_position /\ read_position' \in Position
      /\ overflow' \in BOOLEAN /\ OverflowIsFull'
      /\ Readable(write_position, n) \in 0 .. Len(Contents)
      /\ n > 0 /\ Len(Contents) > 0 => Readable(write_position, n) > 0
      /\ Handed(Contents, Readable(write_position, n))
  BY <1>1, <1>2, <1>3, Types, BufferRead
<1>5. CASE Readable(write_position, n) > 0
  <2>1. filetable' = [filetable EXCEPT ![p][fd].to_read = 0]
    BY <1>5 DEF read_serial
  <2>2. filetable' \in [Pid -> [Fd -> Descriptor]] /\ SameRights
    BY <2>1, Types, ToReadSet
  <2>3. Readable(write_position, n) # 0
    BY <1>5
  <2> QED BY <1>4, <2>2, <2>3
<1>6. CASE ~(Readable(write_position, n) > 0)
  <2>1. filetable' = [filetable EXCEPT ![p][fd].to_read = n]
    BY <1>6 DEF read_serial
  <2>2. n \in ReadLen \cup {0} /\ filetable \in [Pid -> [Fd -> Descriptor]]
    BY Types
  <2>3. filetable' \in [Pid -> [Fd -> Descriptor]] /\ SameRights
    BY <2>1, <2>2, ToReadSet
  <2>4. filetable'[p][fd].to_read = n
    BY <2>1, <2>2, ToReadSet
  <2> QED BY <1>4, <2>3, <2>4, Zenon
<1> QED BY <1>5, <1>6

-----------------------------------------------------------------------------
(***************************************************************************)
(* The invariant.                                                          *)
(***************************************************************************)

\* The invariant holds at the start.
LEMMA InvInit == Init => Inv
<1> SUFFICES ASSUME Init PROVE Inv
  OBVIOUS
<1>0. SIZE \in Nat /\ SIZE >= 2 /\ MaxChars \in Nat
  BY TypeConstants
<1>1. filetable \in [Pid -> [Fd -> Descriptor]]
  <2>1. Null \in Descriptor
    BY DEF Null, Descriptor
  <2> QED BY <2>1 DEF Init
<1>2. buffer \in [1 .. SIZE -> 0 .. MaxChars]
  BY <1>0 DEF Init
<1>3. TypeOK
  <2>1. read_position \in 0 .. SIZE - 1 /\ write_position \in 0 .. SIZE - 1
    BY <1>0 DEF Init
  <2>2. active \in [Pid -> BOOLEAN] /\ overflow \in BOOLEAN
    BY DEF Init
  <2>3. reader \in Pid \cup {Nil} /\ blocked \subseteq Pid
    BY DEF Init
  <2> QED BY <1>1, <1>2, <2>1, <2>2, <2>3 DEF TypeOK, Descriptor
<1>4. Counted
  BY <1>0 DEF Init, Counted
<1>5. OverflowIsFull
  <2>1. 0 \in Position /\ Count(0, 0) # SIZE - 1
    BY <1>0 DEF Position, Count
  <2>2. Advanced(0) # 0
    BY <2>1, FullCounts
  <2> QED BY <2>2 DEF Init, OverflowIsFull, Full
<1>6. StdWrites
  BY DEF Init, StdWrites, Null
<1>7. ReaderExact
  BY DEF Init, ReaderExact, Readers
<1> QED BY <1>3, <1>4, <1>5, <1>6, <1>7 DEF Inv

\* The facts about the buffer hold while nobody touches it.
LEMMA BufferKept ==
  ASSUME Inv, UNCHANGED <<buffer, read_position, write_position, overflow, taken, arrived, newline>>
  PROVE  Counted' /\ OverflowIsFull'
  BY DEF Inv, Counted, OverflowIsFull, Full

\* An arriving character keeps the invariant.
LEMMA HandlerKeeps ==
  ASSUME Inv, NEW is_newline \in BOOLEAN, serial_receive_handler(is_newline)
  PROVE  Inv'
<1>1. /\ buffer' \in Memory /\ write_position' \in Position /\ read_position' \in Position
      /\ overflow' \in BOOLEAN /\ OverflowIsFull' /\ taken' \in Seq(Character)
      /\ filetable' \in [Pid -> [Fd -> Descriptor]] /\ SameRights /\ blocked' \subseteq blocked
  BY HandlerEffect DEF Handed
<1>2. UNCHANGED <<active, births, reader>>
  BY DEF serial_receive_handler, process
<1>3. TypeOK'
  BY <1>1, <1>2, Types DEF TypeOK, Position, Memory, Character, Descriptor
<1>4. Counted'
  <2>1. MaxChars \in Nat /\ arrived \in 0 .. MaxChars /\ newline \subseteq 1 .. arrived
    BY Types, TypeConstants
  <2>2. arrived' = arrived + 1 /\ arrived < MaxChars /\ newline' \subseteq newline \cup {arrived + 1}
    BY DEF serial_receive_handler
  <2>3. arrived' \in 0 .. MaxChars /\ newline' \subseteq 1 .. arrived'
    BY <2>1, <2>2
  <2> QED BY <1>1, <2>3 DEF Counted, Character
<1>5. StdWrites' /\ ReaderExact'
  BY <1>1, <1>2, RightsKept
<1> QED BY <1>1, <1>3, <1>4, <1>5 DEF Inv

\* A read keeps the invariant.
LEMMA ReadKeeps ==
  ASSUME Inv, NEW p \in Pid, NEW fd \in Fd, NEW n \in ReadLen, read_serial(p, fd, n)
  PROVE  Inv'
<1>1. /\ buffer' = buffer /\ write_position' = write_position /\ read_position' \in Position
      /\ overflow' \in BOOLEAN /\ OverflowIsFull' /\ taken' \in Seq(Character)
      /\ filetable' \in [Pid -> [Fd -> Descriptor]] /\ SameRights
  BY ReadEffect DEF Handed
<1>2. UNCHANGED <<active, births, reader, arrived, newline>> /\ blocked' \subseteq Pid
  BY Types DEF read_serial, process
<1>3. TypeOK'
  BY <1>1, <1>2, Types DEF TypeOK, Position, Memory, Character, Descriptor
<1>4. Counted'
  BY <1>1, <1>2 DEF Inv, Counted, Character
<1>5. StdWrites' /\ ReaderExact'
  BY <1>1, <1>2, RightsKept
<1> QED BY <1>1, <1>3, <1>4, <1>5 DEF Inv

\* A descriptor d is put into slot fd of p, by open or by close.
LEMMA SlotSet ==
  ASSUME Inv, NEW p \in Pid, NEW fd \in Fd, NEW d \in Descriptor, d.std = FALSE,
         filetable' = [filetable EXCEPT ![p][fd] = d]
  PROVE  /\ filetable' \in [Pid -> [Fd -> Descriptor]] /\ filetable'[p][fd] = d
         /\ \A q \in Pid, f \in Fd : <<q, f>> # <<p, fd>> => filetable'[q][f] = filetable[q][f]
         /\ StdWrites'
<1>1. /\ filetable' \in [Pid -> [Fd -> Descriptor]] /\ filetable'[p][fd] = d
      /\ \A q \in Pid, f \in Fd : <<q, f>> # <<p, fd>> => filetable'[q][f] = filetable[q][f]
  BY Types
<1> QED BY <1>1 DEF Inv, StdWrites

\* An open keeps the invariant, and lets in one reader at most.
LEMMA OpenKeeps ==
  ASSUME Inv, NEW p \in Pid, NEW mode \in Mode, open_serial(p, mode)
  PROVE  Inv'
<1> DEFINE d == [mode |-> mode, to_read |-> 0, std |-> FALSE]
<1>1. PICK fd \in FreeFds(p) : filetable' = [filetable EXCEPT ![p][fd] = d]
  BY DEF open_serial
<1>2. d \in Descriptor /\ d.std = FALSE /\ d.mode = mode
  BY DEF Descriptor, Mode
<1>3. fd \in Fd /\ "r" \notin filetable[p][fd].mode
  BY DEF FreeFds, Null
<1> HIDE DEF d
<1>4. /\ filetable' \in [Pid -> [Fd -> Descriptor]] /\ filetable'[p][fd] = d
      /\ \A q \in Pid, f \in Fd : <<q, f>> # <<p, fd>> => filetable'[q][f] = filetable[q][f]
      /\ StdWrites'
  BY <1>1, <1>2, <1>3, SlotSet
<1>5. /\ UNCHANGED <<active, blocked, buffer, read_position, write_position, overflow, taken, arrived, newline>>
      /\ active[p] /\ ("r" \in mode => reader \in {Nil, p})
      /\ reader' = IF "r" \in mode THEN p ELSE reader
  BY DEF open_serial, process, cbuf, Runs, MayRead
<1>6. TypeOK'
  BY <1>4, <1>5 DEF Inv, TypeOK, Descriptor
<1>7. Counted' /\ OverflowIsFull'
  BY <1>5, BufferKept
<1>8. Readers = IF reader = Nil THEN {} ELSE {reader}
  BY DEF Inv, ReaderExact
<1>9. CASE "r" \in mode
  <2>1. reader' = p /\ p # Nil
    BY <1>5, <1>9, TypeConstants
  <2>2. \A q \in Pid : q # p => (q \in Readers' <=> q \in Readers)
    BY <1>4, <1>5 DEF Readers
  <2>3. p \in Readers'
    BY <1>2, <1>3, <1>4, <1>5, <1>9 DEF Readers
  <2>4. Readers \subseteq {p}
    BY <1>5, <1>8, <1>9
  <2>5. Readers' = {p}
    BY <2>2, <2>3, <2>4 DEF Readers
  <2> QED BY <1>4, <1>6, <1>7, <2>1, <2>5 DEF Inv, ReaderExact
<1>10. CASE "r" \notin mode
  <2>1. Readers' = Readers /\ reader' = reader
    <3>1. \A q \in Pid, f \in Fd : "r" \in filetable'[q][f].mode <=> "r" \in filetable[q][f].mode
      BY <1>2, <1>3, <1>4, <1>10
    <3> QED BY <1>5, <1>10, <3>1 DEF Readers
  <2> QED BY <1>4, <1>6, <1>7, <1>8, <2>1 DEF Inv, ReaderExact
<1> QED BY <1>9, <1>10

\* A close keeps the invariant, and lets the reader go.
LEMMA CloseKeeps ==
  ASSUME Inv, NEW p \in Pid, NEW fd \in Fd, close_serial(p, fd)
  PROVE  Inv'
<1>1. Null \in Descriptor /\ Null.std = FALSE /\ Null.mode = {}
  BY DEF Null, Descriptor
<1>2. filetable' = [filetable EXCEPT ![p][fd] = Null]
  BY DEF close_serial
<1>3. /\ filetable' \in [Pid -> [Fd -> Descriptor]] /\ filetable'[p][fd] = Null
      /\ \A q \in Pid, f \in Fd : <<q, f>> # <<p, fd>> => filetable'[q][f] = filetable[q][f]
      /\ StdWrites'
  BY <1>1, <1>2, SlotSet
<1>4. /\ UNCHANGED <<active, blocked, buffer, read_position, write_position, overflow, taken, arrived, newline>>
      /\ active[p] /\ reader' = IF LastReader(p, fd) THEN Nil ELSE reader
  BY DEF close_serial, process, cbuf, Runs
<1>5. TypeOK'
  BY <1>3, <1>4 DEF Inv, TypeOK, Descriptor
<1>6. Counted' /\ OverflowIsFull'
  BY <1>4, BufferKept
<1>7. Readers = IF reader = Nil THEN {} ELSE {reader}
  BY DEF Inv, ReaderExact
<1>8. \A q \in Pid : q # p => (q \in Readers' <=> q \in Readers)
  BY <1>3, <1>4 DEF Readers
<1>9. p \in Readers' <=> \E f \in Fd \ {fd} : "r" \in filetable[p][f].mode
  BY <1>1, <1>3, <1>4 DEF Readers
<1>10. CASE LastReader(p, fd)
  <2>1. p \in Readers /\ p \notin Readers'
    BY <1>4, <1>9, <1>10 DEF LastReader, Readers
  <2>2. Readers' = {}
    BY <1>7, <1>8, <2>1 DEF Readers
  <2> QED BY <1>3, <1>4, <1>5, <1>6, <1>10, <2>2 DEF Inv, ReaderExact
<1>11. CASE ~LastReader(p, fd)
  <2>1. p \in Readers' <=> p \in Readers
    BY <1>4, <1>9, <1>11 DEF LastReader, Readers
  <2>2. Readers' = Readers
    BY <1>8, <2>1 DEF Readers
  <2> QED BY <1>3, <1>4, <1>5, <1>6, <1>7, <1>11, <2>2 DEF Inv, ReaderExact
<1> QED BY <1>10, <1>11

\* A new process keeps the invariant.
LEMMA RegisterKeeps ==
  ASSUME Inv, NEW p \in Pid, register_process(p)
  PROVE  Inv'
<1> DEFINE d == [mode |-> {"w"}, to_read |-> 0, std |-> TRUE]
           t == [fd \in Fd |-> IF fd = 0 THEN d ELSE Null]
<1>1. d \in Descriptor /\ Null \in Descriptor /\ Null.std = FALSE /\ Null.mode = {} /\ d.mode = {"w"}
  BY DEF Null, Descriptor
<1>2. /\ UNCHANGED <<reader, blocked, buffer, read_position, write_position, overflow, taken, arrived, newline>>
      /\ ~active[p] /\ active' = [active EXCEPT ![p] = TRUE]
      /\ filetable' = [filetable EXCEPT ![p] = t]
  BY DEF register_process, cbuf
<1> HIDE DEF d
<1>3. t \in [Fd -> Descriptor] /\ \A fd \in Fd : t[fd] = d \/ t[fd] = Null
  BY <1>1
<1> HIDE DEF t
<1>4. /\ filetable' \in [Pid -> [Fd -> Descriptor]] /\ filetable'[p] = t
      /\ \A q \in Pid : q # p => filetable'[q] = filetable[q]
  BY <1>2, <1>3, Types
<1>5. /\ active' \in [Pid -> BOOLEAN] /\ \A q \in Pid : q # p => active'[q] = active[q]
  BY <1>2, Types
<1>6. TypeOK'
  BY <1>2, <1>4, <1>5 DEF Inv, TypeOK, Descriptor
<1>7. Counted' /\ OverflowIsFull'
  BY <1>2, BufferKept
<1>8. StdWrites'
  BY <1>1, <1>3, <1>4 DEF Inv, StdWrites
<1>9. p \notin Readers /\ p \notin Readers'
  BY <1>1, <1>2, <1>3, <1>4 DEF Readers
<1>10. Readers' = Readers
  BY <1>4, <1>5, <1>9 DEF Readers
<1> QED BY <1>2, <1>6, <1>7, <1>8, <1>10 DEF Inv, ReaderExact

\* The end of a process keeps the invariant, and lets its reader go.
LEMMA DeleteKeeps ==
  ASSUME Inv, NEW p \in Pid, NEW junk \in BOOLEAN, delete_process(p, junk)
  PROVE  Inv'
<1> DEFINE t == [fd \in Fd |-> Null]
<1>1. Null \in Descriptor /\ Null.std = FALSE /\ Null.mode = {}
  BY DEF Null, Descriptor
<1>2. /\ UNCHANGED <<buffer, read_position, write_position, overflow, taken, arrived, newline>>
      /\ active' = [active EXCEPT ![p] = FALSE] /\ filetable' = [filetable EXCEPT ![p] = t]
      /\ reader' = ReaderWithout(p, junk) /\ blocked' = blocked \ {p}
  BY DEF delete_process, cbuf
<1>3. t \in [Fd -> Descriptor] /\ \A fd \in Fd : t[fd] = Null
  BY <1>1
<1> HIDE DEF t
<1>4. /\ filetable' \in [Pid -> [Fd -> Descriptor]] /\ filetable'[p] = t
      /\ \A q \in Pid : q # p => filetable'[q] = filetable[q]
  BY <1>2, <1>3, Types
<1>5. /\ active' \in [Pid -> BOOLEAN] /\ ~active'[p] /\ \A q \in Pid : q # p => active'[q] = active[q]
  BY <1>2, Types
<1>6. reader' \in Pid \cup {Nil} /\ blocked' \subseteq Pid
  BY <1>2, Types DEF ReaderWithout
<1>7. TypeOK'
  BY <1>2, <1>4, <1>5, <1>6 DEF Inv, TypeOK, Descriptor
<1>8. Counted' /\ OverflowIsFull'
  BY <1>2, BufferKept
<1>9. StdWrites'
  BY <1>1, <1>3, <1>4 DEF Inv, StdWrites
<1>10. Readers' = Readers \ {p}
  BY <1>4, <1>5 DEF Readers
<1>11. Readers = IF reader = Nil THEN {} ELSE {reader}
  BY DEF Inv, ReaderExact
<1>12. reader' = IF reader = p THEN Nil ELSE reader
  <2>1. CASE reader = p
    <3>1. p \in Readers
      BY <1>11, <2>1, TypeConstants
    <3>2. PICK fd \in Fd : "r" \in filetable[p][fd].mode
      BY <3>1 DEF Readers
    <3>3. filetable[p][fd] # Null /\ ~filetable[p][fd].std
      BY <1>1, <3>2 DEF Inv, StdWrites
    <3> QED BY <1>2, <2>1, <3>3 DEF ReaderWithout
  <2>2. CASE reader # p
    BY <1>2, <2>2 DEF ReaderWithout
  <2> QED BY <2>1, <2>2
<1>13. ReaderExact'
  BY <1>10, <1>11, <1>12, TypeConstants DEF ReaderExact
<1> QED BY <1>7, <1>8, <1>9, <1>13 DEF Inv

\* Every action keeps the invariant.
LEMMA InvNext == Inv /\ [Next]_vars => Inv'
<1> SUFFICES ASSUME Inv, [Next]_vars PROVE Inv'
  OBVIOUS
<1>1. CASE UNCHANGED vars
  BY <1>1 DEF vars, process, cbuf, Inv, TypeOK, Counted, OverflowIsFull, Full, StdWrites, ReaderExact, Readers
<1>2. CASE Next
  BY <1>2, HandlerKeeps, RegisterKeeps, DeleteKeeps, OpenKeeps, CloseKeeps, ReadKeeps DEF Next
<1> QED BY <1>1, <1>2

\* There is at most one reader, the console knows it, and the positions stay inside
\* the buffer, whatever is opened, closed, created and deleted.
THEOREM ReaderStaysExact == Spec => []ReaderInv
<1>1. Inv => ReaderInv
  BY DEF Inv, ReaderInv
<1> QED BY <1>1, InvInit, InvNext, PTL DEF Spec

-----------------------------------------------------------------------------
(***************************************************************************)
(* The blocked reader, if nobody asks for nothing.                         *)
(***************************************************************************)

\* Whoever is blocked is the one reader.
LEMMA BlockedIsReader ==
  ASSUME Inv, BlockedReaderFound, NEW p \in blocked
  PROVE  /\ blocked = {p} /\ reader = p /\ p # Nil /\ p \in Pid /\ active[p]
         /\ Readers = {p} /\ Waiting(p) # {}
<1>1. reader = p /\ blocked = {p} /\ p \in Pid /\ Waiting(p) # {}
  BY Types DEF BlockedReaderFound
<1>2. p # Nil
  BY <1>1, TypeConstants
<1>3. Readers = {p}
  BY <1>1, <1>2 DEF Inv, ReaderExact
<1>4. active[p]
  BY <1>3 DEF Readers
<1> QED BY <1>1, <1>2, <1>3, <1>4

\* No line is withheld at the start.
LEMMA LineInit == Init => NoLineWithheld
  BY DEF Init, NoLineWithheld, BlockedReaderFound

\* An arriving character withholds no line, and wakes the reader on overflow.
LEMMA LineHandler ==
  ASSUME Inv, NoLineWithheld, NEW is_newline \in BOOLEAN, serial_receive_handler(is_newline)
  PROVE  NoLineWithheld' /\ (overflow => blocked' = {})
<1>1. CASE blocked = {}
  <2>1. blocked' = {}
    BY <1>1, HandlerEffect
  <2> QED BY <2>1 DEF NoLineWithheld, BlockedReaderFound
<1>2. CASE blocked # {}
  <2>1. PICK p \in blocked : TRUE
    BY <1>2
  <2>2. blocked = {p} /\ reader = p /\ p # Nil /\ Waiting(p) # {} /\ p \in Pid
    BY <2>1, BlockedIsReader DEF NoLineWithheld
  <2>3. CASE ReaderServed(is_newline)
    <3>1. blocked' = {}
      BY <2>2, <2>3, HandlerEffect
    <3> QED BY <3>1 DEF NoLineWithheld, BlockedReaderFound
  <2>4. CASE ~ReaderServed(is_newline)
    <3>1. ~is_newline /\ ~overflow
      BY <2>2, <2>4 DEF ReaderServed, ReadEnds
    <3>2. UNCHANGED <<filetable, blocked>> /\ Handed(Queue, 0)
      BY <2>4, HandlerEffect
    <3>3. arrived < MaxChars /\ newline' = newline /\ UNCHANGED reader
      BY <3>1 DEF serial_receive_handler
    <3>4. Queue = Append(Contents, arrived + 1) /\ Queue \in Seq(Character)
      BY <3>1, <3>3, BufferWritten
    <3>5. Contents' = Queue
      <4>1. SubSeq(Queue, 0 + 1, Len(Queue)) = Queue
        BY <3>4, SubSeqFull
      <4> QED BY <3>2, <4>1 DEF Handed
    <3>6. Contents \in Seq(Character) /\ arrived + 1 \notin newline
      BY ContentsTypes, Types
    <3>7. \A i \in 1 .. Len(Contents) : Contents[i] \notin newline
      BY <1>2 DEF NoLineWithheld
    <3> DEFINE s == Contents
    <3> HIDE DEF s
    <3>8. \A i \in 1 .. Len(Append(s, arrived + 1)) : Append(s, arrived + 1)[i] \notin newline
      <4>1. s \in Seq(Character) /\ \A i \in 1 .. Len(s) : s[i] \notin newline
        BY <3>6, <3>7 DEF s
      <4>2. /\ Len(Append(s, arrived + 1)) = Len(s) + 1
            /\ \A i \in 1 .. Len(s) : Append(s, arrived + 1)[i] = s[i]
            /\ Append(s, arrived + 1)[Len(s) + 1] = arrived + 1
        BY <4>1
      <4> QED BY <3>6, <4>1, <4>2
    <3>9. \A i \in 1 .. Len(Contents') : Contents'[i] \notin newline'
      BY <3>3, <3>4, <3>5, <3>8 DEF s
    <3>10. BlockedReaderFound'
      BY <3>2, <3>3 DEF NoLineWithheld, BlockedReaderFound, Waiting
    <3> QED BY <3>1, <3>9, <3>10 DEF NoLineWithheld
  <2> QED BY <2>3, <2>4
<1> QED BY <1>1, <1>2

\* A read withholds no line.
LEMMA LineRead ==
  ASSUME 0 \notin ReadLen, Inv, NoLineWithheld,
         NEW p \in Pid, NEW fd \in Fd, NEW n \in ReadLen, read_serial(p, fd, n)
  PROVE  NoLineWithheld'
<1>0. active[p] /\ p \notin blocked /\ "r" \in filetable[p][fd].mode /\ UNCHANGED reader
  BY DEF read_serial, Runs
<1>1. p \in Readers
  BY <1>0 DEF Readers
<1>2. reader = p
  BY <1>1 DEF Inv, ReaderExact
<1>3. blocked = {}
  BY <1>0, <1>2 DEF NoLineWithheld, BlockedReaderFound
<1>4. CASE Readable(write_position, n) > 0
  <2>1. blocked' = {}
    BY <1>3, <1>4 DEF read_serial
  <2> QED BY <2>1 DEF NoLineWithheld, BlockedReaderFound
<1>5. CASE ~(Readable(write_position, n) > 0)
  <2>1. blocked' = {p}
    BY <1>3, <1>5 DEF read_serial
  <2>2. n > 0 /\ n \in Nat
    BY TypeConstants
  <2>3. Contents \in Seq(Character) /\ Len(Contents) \in Nat
    BY ContentsTypes
  <2>4. Len(Contents) = 0 /\ Readable(write_position, n) = 0
    BY <1>5, <2>2, <2>3, ReadEffect
  <2>5. Contents' = SubSeq(Contents, 1, 0)
    BY <2>4, ReadEffect DEF Handed
  <2>6. Len(Contents') = 0
    <3>1. SubSeq(Contents, 1, 0) = << >>
      BY SubSeqEmpty
    <3> QED BY <2>5, <3>1
  <2>7. filetable'[p][fd].to_read = n
    BY <2>4, ReadEffect
  <2>8. BlockedReaderFound'
    BY <1>0, <1>2, <2>1, <2>2, <2>7 DEF BlockedReaderFound, Waiting
  <2> QED BY <2>6, <2>8 DEF NoLineWithheld
<1> QED BY <1>4, <1>5

\* Opening, closing, creation and deletion by others leave a blocked reader alone.
LEMMA LineKept ==
  ASSUME Inv, NoLineWithheld, blocked' \subseteq blocked,
         UNCHANGED <<buffer, read_position, write_position, newline>>,
         \A q \in blocked' : reader' = q /\ filetable'[q] = filetable[q]
  PROVE  NoLineWithheld'
<1>1. BlockedReaderFound'
  BY DEF NoLineWithheld, BlockedReaderFound, Waiting
<1>2. Contents' = Contents
  BY DEF Contents
<1>3. blocked' # {} => \A i \in 1 .. Len(Contents) : Contents[i] \notin newline
  BY DEF NoLineWithheld
<1> QED BY <1>1, <1>2, <1>3 DEF NoLineWithheld

\* Every action withholds no line.
LEMMA LineNext ==
  ASSUME 0 \notin ReadLen, Inv, NoLineWithheld, [Next]_vars
  PROVE  NoLineWithheld'
<1>0. \A q \in blocked : /\ reader = q /\ q # Nil /\ q \in Pid /\ active[q] /\ Readers = {q}
  BY BlockedIsReader DEF NoLineWithheld
<1>1. CASE UNCHANGED vars
  <2>1. UNCHANGED <<filetable, reader, blocked, buffer, read_position, write_position, newline>>
    BY <1>1 DEF vars, cbuf
  <2> QED BY <1>0, <2>1, LineKept
<1>2. ASSUME NEW is_newline \in BOOLEAN, serial_receive_handler(is_newline) PROVE NoLineWithheld'
  BY <1>2, LineHandler
<1>3. ASSUME NEW p \in Pid, register_process(p) PROVE NoLineWithheld'
  <2>1. UNCHANGED <<reader, blocked, buffer, read_position, write_position, newline>> /\ ~active[p]
    BY <1>3 DEF register_process, cbuf
  <2>2. \A q \in Pid : q # p => filetable'[q] = filetable[q]
    BY <1>3, Types DEF register_process
  <2> QED BY <1>0, <2>1, <2>2, LineKept
<1>4. ASSUME NEW p \in Pid, NEW junk \in BOOLEAN, delete_process(p, junk) PROVE NoLineWithheld'
  <2>1. /\ UNCHANGED <<buffer, read_position, write_position, newline>>
        /\ blocked' = blocked \ {p} /\ (reader # p => reader' = reader)
    BY <1>4 DEF delete_process, cbuf, ReaderWithout
  <2>2. \A q \in Pid : q # p => filetable'[q] = filetable[q]
    BY <1>4, Types DEF delete_process
  <2> QED BY <1>0, <2>1, <2>2, LineKept
<1>5. ASSUME NEW p \in Pid, NEW mode \in Mode, open_serial(p, mode) PROVE NoLineWithheld'
  <2>1. /\ UNCHANGED <<blocked, buffer, read_position, write_position, newline>> /\ p \notin blocked
        /\ (reader # p /\ reader # Nil => reader' = reader)
    BY <1>5 DEF open_serial, cbuf, MayRead, Runs
  <2>2. \A q \in Pid : q # p => filetable'[q] = filetable[q]
    BY <1>5, Types DEF open_serial
  <2> QED BY <1>0, <2>1, <2>2, LineKept
<1>6. ASSUME NEW p \in Pid, NEW fd \in Fd, close_serial(p, fd) PROVE NoLineWithheld'
  <2>1. /\ UNCHANGED <<blocked, buffer, read_position, write_position, newline>> /\ p \notin blocked
        /\ (p \notin Readers => reader' = reader)
    BY <1>6 DEF close_serial, cbuf, Runs, LastReader, Readers
  <2>2. \A q \in Pid : q # p => filetable'[q] = filetable[q]
    BY <1>6, Types DEF close_serial
  <2> QED BY <1>0, <2>1, <2>2, LineKept
<1>7. ASSUME NEW p \in Pid, NEW fd \in Fd, NEW n \in ReadLen, read_serial(p, fd, n)
      PROVE  NoLineWithheld'
  BY <1>7, LineRead
<1> QED BY <1>1, <1>2, <1>3, <1>4, <1>5, <1>6, <1>7 DEF Next

\* A blocked reader is never left with a complete line in the buffer, and the next
\* interrupt finds it, for every history of opens, closes, reads and deletions.
THEOREM LinesAreDelivered ==
  ASSUME 0 \notin ReadLen
  PROVE  Spec => []NoLineWithheld
<1>1. Init => Inv /\ NoLineWithheld
  BY InvInit, LineInit
<1>2. (Inv /\ NoLineWithheld) /\ [Next]_vars => (Inv /\ NoLineWithheld)'
  BY InvNext, LineNext
<1> QED BY <1>1, <1>2, PTL DEF Spec

\* A character that finds the buffer full wakes the reader, although it is dropped.
THEOREM OverflowDoesWake ==
  ASSUME 0 \notin ReadLen
  PROVE  Spec => OverflowWakes
<1>1. Init => Inv /\ NoLineWithheld
  BY InvInit, LineInit
<1>2. (Inv /\ NoLineWithheld) /\ [Next]_vars => (Inv /\ NoLineWithheld)'
  BY InvNext, LineNext
<1>3. ASSUME Inv, NoLineWithheld, [Next]_vars
      PROVE  [overflow /\ arrived' # arrived => blocked' = {}]_vars
  <2>1. ASSUME arrived' # arrived PROVE \E is_newline \in BOOLEAN : serial_receive_handler(is_newline)
    BY <1>3, <2>1 DEF Next, vars, register_process, delete_process, open_serial, close_serial, read_serial
  <2> QED BY <1>3, <2>1, LineHandler
<1> QED BY <1>1, <1>2, <1>3, PTL DEF Spec, OverflowWakes

-----------------------------------------------------------------------------
(***************************************************************************)
(* The circular buffer implements the bounded queue.                       *)
(***************************************************************************)

\* The start maps to the start of CharFifo.
LEMMA FifoInit == Init => Fifo!Init
<1> SUFFICES ASSUME Init PROVE Contents = << >> /\ taken = << >>
  BY DEF Fifo!Init
<1>1. Inv
  BY InvInit
<1>2. Contents \in Seq(Character) /\ Len(Contents) = Count(0, 0)
  BY <1>1, ContentsTypes DEF Init
<1>3. Len(Contents) = 0
  BY <1>2 DEF Count
<1> QED BY <1>2, <1>3, EmptySeq DEF Init

\* Taking n characters from the queue is a step of the abstract queue, or none.
LEMMA HandedIsGet ==
  ASSUME Inv, NEW n \in 0 .. Len(Contents), Handed(Contents, n)
  PROVE  [Fifo!Next]_Fifo!vars
<1>0. Contents \in Seq(Character) /\ taken \in Seq(Character)
  BY ContentsTypes, Types
<1>1. CASE n = 0
  <2>1. SubSeq(Contents, 1, 0) = << >> /\ SubSeq(Contents, 0 + 1, Len(Contents)) = Contents
    BY <1>0, SubSeqEmpty, SubSeqFull
  <2>2. taken \o << >> = taken
    BY <1>0, ConcatEmptySeq
  <2>3. taken' = taken /\ Contents' = Contents
    BY <1>1, <2>1, <2>2 DEF Handed
  <2> QED BY <2>3 DEF Fifo!vars
<1>2. CASE n # 0
  <2>1. n \in 1 .. Len(Contents)
    BY <1>2
  <2>2. Fifo!Take(Contents, n)
    BY DEF Handed, Fifo!Take
  <2>3. Fifo!Get
    BY <2>1, <2>2 DEF Fifo!Get
  <2> QED BY <2>3 DEF Fifo!Next
<1> QED BY <1>1, <1>2

\* Every step maps to a step of CharFifo or to none.
LEMMA FifoNext ==
  ASSUME Inv, [Next]_vars
  PROVE  [Fifo!Next]_Fifo!vars
<1>1. ASSUME UNCHANGED cbuf PROVE [Fifo!Next]_Fifo!vars
  <2>1. Contents' = Contents /\ taken' = taken
    BY <1>1 DEF cbuf, Contents
  <2> QED BY <2>1 DEF Fifo!vars
<1>2. ASSUME NEW p \in Pid, NEW fd \in Fd, NEW n \in ReadLen, read_serial(p, fd, n)
      PROVE  [Fifo!Next]_Fifo!vars
  BY <1>2, ReadEffect, HandedIsGet
<1>3. ASSUME NEW is_newline \in BOOLEAN, serial_receive_handler(is_newline)
      PROVE  [Fifo!Next]_Fifo!vars
  <2>0. arrived < MaxChars
    BY <1>3 DEF serial_receive_handler
  <2>1. PICK n \in 0 .. Len(Queue) : Handed(Queue, n)
    BY <1>3, HandlerEffect
  <2>2. CASE overflow
    BY <2>0, <2>1, <2>2, BufferWritten, HandedIsGet
  <2>3. CASE ~overflow
    <3>1. Queue = Append(Contents, arrived + 1) /\ Len(Contents) < SIZE - 1
      BY <2>0, <2>3, BufferWritten
    <3>2. n \in 0 .. Len(Contents) + 1
      BY <2>1, <3>1, ContentsTypes
    <3>3. arrived + 1 \in 1 .. MaxChars
      BY <2>0, Types, TypeConstants
    <3>4. Fifo!Take(Append(Contents, arrived + 1), n)
      BY <2>1, <3>1 DEF Handed, Fifo!Take
    <3>5. Fifo!Put(arrived + 1)
      BY <3>1, <3>2, <3>4 DEF Fifo!Put
    <3> QED BY <3>3, <3>5 DEF Fifo!Next
  <2> QED BY <2>2, <2>3
<1>4. \/ UNCHANGED cbuf
      \/ \E is_newline \in BOOLEAN : serial_receive_handler(is_newline)
      \/ \E p \in Pid, fd \in Fd, n \in ReadLen : read_serial(p, fd, n)
  BY DEF Next, vars, register_process, delete_process, open_serial, close_serial
<1> QED BY <1>1, <1>2, <1>3, <1>4

\* Every character that was not dropped is handed out once and in order, and one is
\* dropped only when SIZE - 1 are waiting: circular_buffer.c keeps its promise for
\* every size, wherever its positions are.
THEOREM BufferImplementsFifo == Spec => ImplementsFifo
<1> QED BY InvInit, InvNext, FifoInit, FifoNext, PTL DEF Spec, ImplementsFifo, Fifo!Spec
=============================================================================
