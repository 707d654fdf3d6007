---------------------------- MODULE MemoryProofs ----------------------------
(***************************************************************************)
(* Proofs about BootMemory, Malloc and Memory, for every set of memory     *)
(* maps, every size of request and every sequence of calls: the range that *)
(* sos_find_memory chooses, the soundness of malloc's heap, that malloc    *)
(* implements Heap, and main's division of the range. And about Frames:    *)
(* for any number of frames, any limit and any char size the frame table   *)
(* implements the pool of frames.                                          *)
(*                                                                         *)
(* The list of free blocks is followed through three operations that each  *)
(* keep it sound: a block leaves it (malloc), a block is linked into it    *)
(* and a block is merged with the next one (free).                         *)
(***************************************************************************)
EXTENDS Memory, Frames, FiniteSetTheorems, TLAPS

-----------------------------------------------------------------------------
(***************************************************************************)
(* sos_find_memory.                                                        *)
(***************************************************************************)
\* The invariant that the loops preserve together.
BootInv == TypeOK /\ InsideConventional /\ AreasRemoved

\* A descriptor of the memory map is well formed (memdesc_info's assertion).
LEMMA DescOfMemory ==
  ASSUME memory \in Seq(Desc), NEW n \in 1 .. Len(memory)
  PROVE  /\ memory[n].low \in Nat /\ memory[n].high \in Nat
         /\ memory[n].low < memory[n].high
<1>1. memory[n] \in Desc
  OBVIOUS
<1> QED BY <1>1 DEF Desc

\* Cutting one area out of the range leaves a range, not empty if it was not,
\* inside the old one, and without the area unless the area covers it.
LEMMA CutNarrows ==
  ASSUME mem_bot \in Nat, mem_top \in Nat,
         NEW d \in Desc, Cut(d)
  PROVE  /\ mem_bot' \in Nat /\ mem_top' \in Nat
         /\ mem_bot <= mem_bot' /\ mem_top' <= mem_top
         /\ mem_bot < mem_top => mem_bot' < mem_top'
         /\ mem_bot = 0 /\ mem_top = 0 => mem_bot' = 0 /\ mem_top' = 0
         /\ mem_bot < mem_top =>
              \/ d.high <= mem_bot' \/ mem_top' <= d.low
              \/ d.low <= mem_bot' /\ mem_top' <= d.high
         /\ mem_bot = 0 /\ mem_top = 0 => mem_top' <= d.low
<1>1. d.low \in Nat /\ d.high \in Nat /\ d.low < d.high
  BY DEF Desc
<1> QED BY <1>1 DEF Cut, size_bot, size_top

\* A step of the loops keeps the range inside conventional memory and free of the areas
\* dealt with.
LEMMA BootStep ==
  ASSUME BootInv, [Next]_vars
  PROVE  BootInv'
<1> USE DEF BootInv, TypeOK
<1>1. CASE find
  <2>1. i \in 1 .. Len(memory) /\ Len(memory) \in Nat
    BY <1>1 DEF find
  <2>2. memory[i].low \in Nat /\ memory[i].high \in Nat /\ memory[i].low < memory[i].high
    BY <2>1, DescOfMemory
  <2>3. TypeOK'
    BY <1>1, <2>2 DEF find
  <2>4. InsideConventional'
    <3>1. CASE Taken(memory[i])
      <4>1. mem_bot' = memory[i].low /\ mem_top' = memory[i].high /\ memory' = memory
        BY <1>1, <3>1 DEF find
      <4>2. memory[i].type = "conventional"
        BY <3>1 DEF Taken
      <4> QED BY <2>1, <2>2, <4>1, <4>2 DEF InsideConventional
    <3>2. CASE ~Taken(memory[i])
      BY <1>1, <3>2 DEF find, InsideConventional
    <3> QED BY <3>1, <3>2
  <2>5. AreasRemoved'
    BY <1>1 DEF find, AreasRemoved, Removed
  <2> QED BY <2>3, <2>4, <2>5
<1>2. CASE remove
  <2>1. i \in 1 .. Len(memory) /\ Len(memory) \in Nat /\ memory[i] \in Desc
    BY <1>2 DEF remove
  <2>2. CASE memory[i].type = "other"
    <3>1. Cut(memory[i]) /\ memory' = memory /\ loop = "remove" /\ loop' = loop /\ i' = i + 1
      BY <1>2, <2>2 DEF remove
    <3>2. /\ mem_bot' \in Nat /\ mem_top' \in Nat
          /\ mem_bot <= mem_bot' /\ mem_top' <= mem_top
          /\ mem_bot < mem_top => mem_bot' < mem_top'
          /\ mem_bot = 0 /\ mem_top = 0 => mem_bot' = 0 /\ mem_top' = 0
          /\ mem_bot < mem_top =>
               \/ memory[i].high <= mem_bot' \/ mem_top' <= memory[i].low
               \/ memory[i].low <= mem_bot' /\ mem_top' <= memory[i].high
          /\ mem_bot = 0 /\ mem_top = 0 => mem_top' <= memory[i].low
      BY <2>1, <3>1, CutNarrows
    <3>3. TypeOK'
      BY <3>1, <3>2
    <3>4. InsideConventional'
      <4>1. CASE mem_bot = 0 /\ mem_top = 0
        BY <3>2, <4>1 DEF InsideConventional
      <4>2. CASE mem_bot < mem_top
        <5>1. PICK n \in 1 .. Len(memory) :
                /\ memory[n].type = "conventional"
                /\ memory[n].low <= mem_bot /\ mem_top <= memory[n].high
          BY <4>2 DEF InsideConventional
        <5>2. memory[n].low \in Nat /\ memory[n].high \in Nat
          BY DescOfMemory
        <5>3. memory'[n].low <= mem_bot' /\ mem_top' <= memory'[n].high
          BY <3>1, <3>2, <5>1, <5>2
        <5> QED BY <3>1, <3>2, <4>2, <5>1, <5>3 DEF InsideConventional
      <4> QED BY <4>1, <4>2 DEF InsideConventional
    <3>5. AreasRemoved'
      <4> SUFFICES ASSUME NEW n \in Removed', memory[n].type = "other"
                   PROVE  \/ memory[n].high <= mem_bot' \/ mem_top' <= memory[n].low
                          \/ memory[n].low <= mem_bot' /\ mem_top' <= memory[n].high
        BY <3>1 DEF AreasRemoved
      <4>1. n \in 1 .. Len(memory) /\ (n = i \/ n \in Removed)
        BY <2>1, <3>1 DEF Removed
      <4>2. memory[n].low \in Nat /\ memory[n].high \in Nat
        BY <4>1, DescOfMemory
      <4>3. (mem_bot = 0 /\ mem_top = 0) \/ mem_bot < mem_top
        BY DEF InsideConventional
      <4>4. CASE n = i
        BY <3>2, <4>3, <4>4
      <4>5. CASE n \in Removed
        <5>1. \/ memory[n].high <= mem_bot \/ mem_top <= memory[n].low
              \/ memory[n].low <= mem_bot /\ mem_top <= memory[n].high
          BY <4>5 DEF AreasRemoved
        <5> QED BY <3>2, <4>2, <5>1
      <4> QED BY <4>1, <4>4, <4>5
    <3> QED BY <3>3, <3>4, <3>5
  <2>3. CASE memory[i].type # "other"
    <3>1. UNCHANGED <<mem_bot, mem_top, memory, loop>> /\ i' = i + 1 /\ loop = "remove"
      BY <1>2, <2>3 DEF remove
    <3>2. TypeOK' /\ InsideConventional'
      BY <3>1 DEF InsideConventional
    <3>3. AreasRemoved'
      <4> SUFFICES ASSUME NEW n \in Removed', memory[n].type = "other"
                   PROVE  n \in Removed
        BY <3>1 DEF AreasRemoved
      <4> QED BY <2>1, <2>3, <3>1 DEF Removed
    <3> QED BY <3>2, <3>3
  <2> QED BY <2>2, <2>3
<1>3. CASE EndLoop
  <2>1. TypeOK' /\ InsideConventional'
    BY <1>3 DEF EndLoop, InsideConventional
  <2>2. AreasRemoved'
    <3>1. UNCHANGED <<memory, mem_bot, mem_top>>
      BY <1>3 DEF EndLoop
    <3>2. Removed' \subseteq Removed
      BY <1>3 DEF EndLoop, Removed
    <3> QED BY <3>1, <3>2 DEF AreasRemoved
  <2> QED BY <2>1, <2>2
<1>4. CASE UNCHANGED vars
  BY <1>4 DEF vars, InsideConventional, AreasRemoved, Removed
<1> QED BY <1>1, <1>2, <1>3, <1>4 DEF Next

-----------------------------------------------------------------------------
(***************************************************************************)
(* The free list of malloc, for any list l: HeapSound in parts that can be *)
(* followed through the operations on the list.                            *)
(***************************************************************************)
InUse(l) == Header(l) \ Node(l)

Ordered(l) ==
  \A p \in Node(l) :
    /\ l.ptr[p] \in Node(l)
    /\ \/ p < l.ptr[p] /\ \A q \in Node(l) : q <= p \/ l.ptr[p] <= q
       \/ l.ptr[p] <= p /\ \A q \in Node(l) : l.ptr[p] <= q /\ q <= p

Shape(l) ==
  /\ Node(l) \subseteq Header(l) /\ Header(l) \subseteq Int
  /\ base \in Node(l) /\ l.freep \in Node(l)
  /\ l.size[base] = 0
  /\ \A b \in Header(l) \ {base} : l.size[b] \in Nat \ {0}

BlocksApart(l) ==
  \A b, c \in Header(l) \ {base} : b # c => b + l.size[b] <= c \/ c + l.size[c] <= b

Within(l, lo, hi) == \A b \in Header(l) \ {base} : lo <= b /\ b + l.size[b] <= hi

Filled(l, lo, hi) ==
  \A x \in lo .. hi - 1 : \E b \in Header(l) \ {base} : b <= x /\ x < b + l.size[b]

\* The blocks of S may touch the ones behind them.
JoinedBut(l, S) == \A p \in Node(l) \ (S \cup {base}) : p + l.size[p] # l.ptr[p]

\* The blocks of l lie side by side in lo .. hi - 1.
Sound(l, lo, hi) ==
  /\ lo \in Int /\ hi \in Int /\ base \notin lo .. hi
  /\ Ordered(l) /\ Shape(l) /\ BlocksApart(l) /\ Within(l, lo, hi) /\ Filled(l, lo, hi)

\* One block only comes before a block, and only the block of a list of one before
\* itself.
LEMMA OnePredecessor ==
  ASSUME NEW l, Ordered(l), Shape(l), NEW p \in Node(l), NEW q \in Node(l)
  PROVE  /\ l.ptr[p] = l.ptr[q] => p = q
         /\ l.ptr[p] = p => p = base
<1>1. p \in Int /\ q \in Int /\ base \in Node(l) /\ base \in Int
  BY DEF Shape
<1>2. /\ l.ptr[p] \in Node(l) /\ l.ptr[q] \in Node(l)
      /\ l.ptr[p] \in Int /\ l.ptr[q] \in Int
  BY DEF Shape, Ordered
<1>3. l.ptr[p] = p => p = base
  BY <1>1, <1>2 DEF Ordered
<1>4. l.ptr[p] = l.ptr[q] => p = q
  BY <1>1, <1>2 DEF Ordered
<1> QED BY <1>3, <1>4

\* A block behind prevp leaves the list.
LEMMA UnlinkOrdered ==
  ASSUME NEW l, NEW k, Ordered(l), Shape(l),
         NEW prevp \in Node(l), NEW p, p = l.ptr[prevp], p # base,
         Node(k) = Node(l) \ {p},
         k.ptr[prevp] = l.ptr[p],
         \A q \in Node(k) \ {prevp} : k.ptr[q] = l.ptr[q]
  PROVE  Ordered(k)
<1>1. \A q \in Node(l) : q \in Int /\ l.ptr[q] \in Node(l) /\ l.ptr[q] \in Int
  BY DEF Shape, Ordered
<1>2. /\ p \in Node(l) /\ p # prevp /\ l.ptr[p] # p
      /\ \A q \in Node(k) \ {prevp} : l.ptr[q] # p
  BY <1>1, OnePredecessor
<1> SUFFICES ASSUME NEW q \in Node(k)
             PROVE  /\ k.ptr[q] \in Node(k)
                    /\ \/ q < k.ptr[q] /\ \A r \in Node(k) : r <= q \/ k.ptr[q] <= r
                       \/ k.ptr[q] <= q /\ \A r \in Node(k) : k.ptr[q] <= r /\ r <= q
  BY DEF Ordered
<1>3. CASE q # prevp
  BY <1>1, <1>2, <1>3 DEF Ordered
<1>4. CASE q = prevp
  <2>1. k.ptr[q] = l.ptr[p] /\ l.ptr[p] \in Node(k)
    BY <1>1, <1>2, <1>4
  <2>2. \/ prevp < p /\ \A r \in Node(l) : r <= prevp \/ p <= r
        \/ p <= prevp /\ \A r \in Node(l) : p <= r /\ r <= prevp
    BY DEF Ordered
  <2>3. \/ p < l.ptr[p] /\ \A r \in Node(l) : r <= p \/ l.ptr[p] <= r
        \/ l.ptr[p] <= p /\ \A r \in Node(l) : l.ptr[p] <= r /\ r <= p
    BY <1>2 DEF Ordered
  <2> QED BY <1>1, <1>2, <1>4, <2>1, <2>2, <2>3
<1> QED BY <1>3, <1>4

-----------------------------------------------------------------------------
(***************************************************************************)
(* malloc takes a block off the list, or the tail of one.                  *)
(***************************************************************************)
\* What malloc does to the list.
Took(l, k, at, n, lo, hi) ==
  /\ Sound(k, lo, hi) /\ JoinedBut(k, {})
  /\ at \notin InUse(l) /\ InUse(k) = InUse(l) \cup {at}
  /\ at # base /\ k.size[at] = n
  /\ \A u \in InUse(l) : k.size[u] = l.size[u]

\* A block of just the size asked for leaves the list.
LEMMA CarveWhole ==
  ASSUME NEW l, NEW lo, NEW hi, NEW prevp \in Node(l), NEW n \in Nat \ {0},
         Sound(l, lo, hi), JoinedBut(l, {}), Whole(l, prevp, n)
  PROVE  Took(l, Carved(l, prevp, n), Block(l, prevp, n), n, lo, hi)
<1> DEFINE p == l.ptr[prevp]
           k == Carved(l, prevp, n)
<1>1. /\ Ordered(l) /\ Shape(l) /\ BlocksApart(l) /\ Within(l, lo, hi) /\ Filled(l, lo, hi)
      /\ lo \in Int /\ hi \in Int /\ base \notin lo .. hi
  BY DEF Sound
<1>2. p \in Node(l) /\ l.size[p] = n /\ p # base /\ p # prevp /\ Block(l, prevp, n) = p
  <2>1. p \in Node(l)
    BY <1>1 DEF Ordered
  <2>2. l.size[p] = n
    BY DEF Whole
  <2>3. p # base
    BY <1>1, <2>2 DEF Shape
  <2>4. p # prevp
    BY <1>1, <2>1, <2>3, OnePredecessor
  <2> QED BY <2>1, <2>2, <2>3, <2>4 DEF Block
<1>3. /\ k.ptr = [q \in Node(l) \ {p} |-> IF q = prevp THEN l.ptr[p] ELSE l.ptr[q]]
      /\ k.size = l.size /\ k.freep = prevp
  BY DEF Carved
<1>4. /\ Node(k) = Node(l) \ {p} /\ Header(k) = Header(l)
      /\ k.ptr[prevp] = l.ptr[p]
      /\ \A q \in Node(k) \ {prevp} : k.ptr[q] = l.ptr[q]
  BY <1>2, <1>3 DEF Node, Header
<1> HIDE DEF k
<1>5. Shape(k)
  BY <1>1, <1>2, <1>3, <1>4 DEF Shape
<1>6. \A q \in Node(l) : q \in Int /\ l.ptr[q] \in Node(l) /\ l.ptr[q] \in Int
  BY <1>1 DEF Shape, Ordered
<1>8. Ordered(k)
  BY <1>1, <1>2, <1>4, UnlinkOrdered
<1>9. BlocksApart(k) /\ Within(k, lo, hi) /\ Filled(k, lo, hi)
  BY <1>1, <1>3, <1>4 DEF BlocksApart, Within, Filled
<1>10. JoinedBut(k, {})
  <2> SUFFICES ASSUME NEW q \in Node(k), q # base
               PROVE  q + k.size[q] # k.ptr[q]
    BY DEF JoinedBut
  <2>1. CASE q # prevp
    BY <1>3, <1>4, <2>1 DEF JoinedBut
  <2>2. CASE q = prevp
    <3>1. l.size[prevp] \in Nat \ {0} /\ prevp \in Int /\ p \in Int /\ l.ptr[p] \in Int
      BY <1>1, <1>2, <1>6, <2>2 DEF Shape
    <3>2. prevp < p => prevp + l.size[prevp] <= p
      <4>1. prevp + l.size[prevp] <= p \/ p + l.size[p] <= prevp
        BY <1>1, <1>2, <2>2 DEF BlocksApart, Shape
      <4> QED BY <1>2, <3>1, <4>1
    <3>3. prevp < p \/ (p <= prevp /\ l.ptr[p] <= prevp)
      BY <1>1, <1>2, <1>6 DEF Ordered
    <3>4. p < l.ptr[p] \/ l.ptr[p] <= prevp
      BY <1>1, <1>2, <1>6 DEF Ordered
    <3> QED BY <1>3, <1>4, <2>2, <3>1, <3>2, <3>3, <3>4
  <2> QED BY <2>1, <2>2
<1>11. Sound(k, lo, hi)
  BY <1>1, <1>5, <1>8, <1>9 DEF Sound
<1>12. InUse(k) = InUse(l) \cup {p} /\ p \notin InUse(l)
  BY <1>1, <1>2, <1>4 DEF InUse, Shape
<1> QED BY <1>2, <1>3, <1>10, <1>11, <1>12 DEF Took, k

\* A larger block keeps its place and loses its tail end.
LEMMA CarveTail ==
  ASSUME NEW l, NEW lo, NEW hi, NEW prevp \in Node(l), NEW n \in Nat \ {0},
         Sound(l, lo, hi), JoinedBut(l, {}), l.size[l.ptr[prevp]] > n
  PROVE  Took(l, Carved(l, prevp, n), Block(l, prevp, n), n, lo, hi)
<1> DEFINE p == l.ptr[prevp]
           s == l.size[p]
           at == p + (s - n)
           k == Carved(l, prevp, n)
<1>1. /\ Ordered(l) /\ Shape(l) /\ BlocksApart(l) /\ Within(l, lo, hi) /\ Filled(l, lo, hi)
      /\ lo \in Int /\ hi \in Int /\ base \notin lo .. hi
  BY DEF Sound
<1>2. /\ p \in Node(l) /\ p \in Header(l) /\ p # base
      /\ p \in Int /\ s \in Nat /\ n < s /\ lo <= p /\ p + s <= hi /\ base \in Int
  <2>1. p \in Node(l) /\ p \in Header(l) /\ p \in Int /\ base \in Int
    BY <1>1 DEF Ordered, Shape
  <2>2. p # base
    BY <1>1 DEF Shape
  <2>3. s \in Nat
    BY <1>1, <2>1, <2>2 DEF Shape
  <2> QED BY <1>1, <2>1, <2>2, <2>3 DEF Within
<1>3. ~Whole(l, prevp, n)
  BY <1>2 DEF Whole
<1>4. Block(l, prevp, n) = at
  BY <1>3 DEF Block
<1>5. /\ k.ptr = l.ptr /\ k.freep = prevp
      /\ k.size = [q \in Header(l) \cup {at} |->
                     IF q = at THEN n ELSE IF q = p THEN s - n ELSE l.size[q]]
  BY <1>3, <1>4 DEF Carved, Rest
<1> HIDE DEF k, s, p
<1>6. at \in Int /\ p < at /\ at < p + s /\ at + n = p + s /\ at \in lo .. hi /\ at # base
  BY <1>1, <1>2
<1>7. at \notin Header(l)
  <2> SUFFICES ASSUME at \in Header(l) PROVE FALSE
    OBVIOUS
  <2>1. l.size[at] \in Nat \ {0}
    BY <1>1, <1>6 DEF Shape
  <2>2. p + s <= at \/ at + l.size[at] <= p
    BY <1>1, <1>2, <1>6 DEF BlocksApart, s
  <2> QED BY <1>2, <1>6, <2>1, <2>2
<1> HIDE DEF at
<1>8. /\ Node(k) = Node(l) /\ Header(k) = Header(l) \cup {at}
      /\ k.size[at] = n /\ k.size[p] = s - n
      /\ \A q \in Header(l) \ {p} : k.size[q] = l.size[q]
  BY <1>2, <1>5, <1>6, <1>7 DEF Node, Header
<1>9. Shape(k)
  BY <1>1, <1>2, <1>5, <1>6, <1>8 DEF Shape
<1>10. Ordered(k)
  BY <1>1, <1>5, <1>8 DEF Ordered
<1>11. Within(k, lo, hi)
  <2> SUFFICES ASSUME NEW b \in Header(k), b # base
               PROVE  lo <= b /\ b + k.size[b] <= hi
    BY DEF Within
  <2>1. CASE b = at
    BY <1>1, <1>2, <1>6, <1>8, <2>1
  <2>2. CASE b = p
    BY <1>1, <1>2, <1>6, <1>8, <2>2
  <2>3. CASE b # at /\ b # p
    BY <1>1, <1>8, <2>3 DEF Within
  <2> QED BY <2>1, <2>2, <2>3
<1>12. \A q \in Header(l) \ {base, p} :
         /\ q \in Int /\ l.size[q] \in Nat
         /\ p + s <= q \/ q + l.size[q] <= p
  BY <1>1, <1>2 DEF BlocksApart, Shape, s
<1>13. /\ k.size[p] \in Nat /\ p + k.size[p] <= p + s
       /\ k.size[at] \in Nat /\ at + k.size[at] <= p + s
  BY <1>2, <1>6, <1>8
<1>20. BlocksApart(k)
  <2> SUFFICES ASSUME NEW b \in Header(k) \ {base}, NEW c \in Header(k) \ {base}, b # c
               PROVE  b + k.size[b] <= c \/ c + k.size[c] <= b
    BY DEF BlocksApart
  <2>1. CASE b \in {p, at} /\ c \in {p, at}
    BY <1>2, <1>6, <1>8, <2>1
  <2>2. CASE b \in {p, at} /\ c \notin {p, at}
    <3>1. c \in Int /\ l.size[c] \in Nat /\ k.size[c] = l.size[c] /\ (p + s <= c \/ c + l.size[c] <= p)
      BY <1>8, <1>12, <2>2
    <3>2. p <= b /\ b + k.size[b] <= p + s /\ b \in Int /\ k.size[b] \in Nat
      BY <1>2, <1>6, <1>13, <2>2
    <3> QED BY <1>2, <3>1, <3>2
  <2>3. CASE b \notin {p, at} /\ c \in {p, at}
    <3>1. b \in Int /\ l.size[b] \in Nat /\ k.size[b] = l.size[b] /\ (p + s <= b \/ b + l.size[b] <= p)
      BY <1>8, <1>12, <2>3
    <3>2. p <= c /\ c + k.size[c] <= p + s /\ c \in Int /\ k.size[c] \in Nat
      BY <1>2, <1>6, <1>13, <2>3
    <3> QED BY <1>2, <3>1, <3>2
  <2>4. CASE b \notin {p, at} /\ c \notin {p, at}
    BY <1>1, <1>8, <2>4 DEF BlocksApart
  <2> QED BY <2>1, <2>2, <2>3, <2>4
<1>14. Filled(k, lo, hi)
  <2> SUFFICES ASSUME NEW x \in lo .. hi - 1
               PROVE  \E b \in Header(k) \ {base} : b <= x /\ x < b + k.size[b]
    BY DEF Filled
  <2>1. PICK b \in Header(l) \ {base} : b <= x /\ x < b + l.size[b]
    BY <1>1 DEF Filled
  <2>2. CASE b # p
    BY <1>8, <2>1, <2>2
  <2>3. CASE b = p /\ x < at
    <3>1. x < p + (s - n)
      BY <2>3 DEF at
    <3> QED BY <1>2, <1>8, <2>1, <2>3, <3>1
  <2>4. CASE b = p /\ ~(x < at)
    <3>1. x < p + s /\ x \in Int /\ at <= x
      BY <1>1, <1>6, <2>1, <2>4 DEF s
    <3>2. x < at + n
      BY <1>6, <3>1
    <3> QED BY <1>6, <1>8, <3>1, <3>2
  <2> QED BY <2>2, <2>3, <2>4
<1>15. JoinedBut(k, {})
  <2> SUFFICES ASSUME NEW q \in Node(k), q # base
               PROVE  q + k.size[q] # k.ptr[q]
    BY DEF JoinedBut
  <2>1. CASE q # p
    <3>1. k.size[q] = l.size[q] /\ k.ptr[q] = l.ptr[q]
      BY <1>1, <1>5, <1>8, <2>1 DEF Shape
    <3> QED BY <1>8, <3>1 DEF JoinedBut
  <2>2. CASE q = p
    <3>1. k.size[q] = s - n /\ k.ptr[q] = l.ptr[p] /\ l.ptr[p] \in Node(l)
      BY <1>1, <1>2, <1>5, <1>8, <2>2 DEF Ordered
    <3>2. l.ptr[p] # at
      BY <1>1, <1>7, <3>1 DEF Shape
    <3> QED BY <2>2, <3>1, <3>2 DEF at
  <2> QED BY <2>1, <2>2
<1>16. Sound(k, lo, hi)
  BY <1>1, <1>9, <1>10, <1>11, <1>20, <1>14 DEF Sound
<1>17. InUse(k) = InUse(l) \cup {at} /\ at \notin InUse(l)
  BY <1>1, <1>7, <1>8 DEF InUse, Shape
<1>18. \A u \in InUse(l) : k.size[u] = l.size[u]
  BY <1>2, <1>8 DEF InUse
<1>19. Took(l, k, at, n, lo, hi)
  BY <1>6, <1>8, <1>15, <1>16, <1>17, <1>18 DEF Took
<1> QED BY <1>4, <1>19 DEF k

-----------------------------------------------------------------------------
(***************************************************************************)
(* free puts a block into the list, then joins it with the block behind    *)
(* and the one before.                                                     *)
(***************************************************************************)
Linked(l, p, bp) ==
  [ptr   |-> [q \in Node(l) \cup {bp} |->
                IF q = p THEN bp ELSE IF q = bp THEN l.ptr[p] ELSE l.ptr[q]],
   size  |-> l.size,
   freep |-> p]

\* Block a is joined with the one behind it.
Merged(l, a) ==
  [ptr   |-> [q \in Node(l) \ {l.ptr[a]} |-> IF q = a THEN l.ptr[l.ptr[a]] ELSE l.ptr[q]],
   size  |-> [q \in Header(l) \ {l.ptr[a]} |->
                IF q = a THEN l.size[a] + l.size[l.ptr[a]] ELSE l.size[q]],
   freep |-> l.freep]

\* A block goes between the two that enclose it, or to an end of the arena.
LEMMA LinkKeeps ==
  ASSUME NEW l, NEW lo, NEW hi, NEW p \in Node(l), NEW bp \in InUse(l),
         Sound(l, lo, hi), JoinedBut(l, {}), StopsAt(l, p, bp)
  PROVE  /\ Sound(Linked(l, p, bp), lo, hi)
         /\ JoinedBut(Linked(l, p, bp), {p, bp})
         /\ InUse(Linked(l, p, bp)) = InUse(l) \ {bp}
<1> DEFINE k == Linked(l, p, bp)
<1>1. /\ Ordered(l) /\ Shape(l) /\ BlocksApart(l) /\ Within(l, lo, hi) /\ Filled(l, lo, hi)
      /\ lo \in Int /\ hi \in Int /\ base \notin lo .. hi
  BY DEF Sound
<1>2. bp \in Header(l) /\ bp \notin Node(l) /\ bp # p /\ bp # base /\ bp \in Int
  BY <1>1 DEF InUse, Shape
<1>3. k.ptr = [q \in Node(l) \cup {bp} |->
                 IF q = p THEN bp ELSE IF q = bp THEN l.ptr[p] ELSE l.ptr[q]]
      /\ k.size = l.size /\ k.freep = p
  BY DEF Linked
<1>4. /\ Node(k) = Node(l) \cup {bp} /\ Header(k) = Header(l)
      /\ k.ptr[p] = bp /\ k.ptr[bp] = l.ptr[p]
      /\ \A q \in Node(l) \ {p} : k.ptr[q] = l.ptr[q]
  BY <1>2, <1>3 DEF Node, Header
<1> HIDE DEF k
<1>5. Shape(k)
  BY <1>1, <1>2, <1>3, <1>4 DEF Shape
<1>6. BlocksApart(k) /\ Within(k, lo, hi) /\ Filled(k, lo, hi)
  BY <1>1, <1>3, <1>4 DEF BlocksApart, Within, Filled
<1>7. \A q \in Node(l) : q \in Int /\ l.ptr[q] \in Node(l) /\ l.ptr[q] \in Int
  BY <1>1 DEF Shape, Ordered
<1>8. \/ p < l.ptr[p] /\ \A r \in Node(l) : r <= p \/ l.ptr[p] <= r
      \/ l.ptr[p] <= p /\ \A r \in Node(l) : l.ptr[p] <= r /\ r <= p
  BY <1>1 DEF Ordered
<1>9. \/ p < bp /\ bp < l.ptr[p]
      \/ p >= l.ptr[p] /\ (p < bp \/ bp < l.ptr[p])
  BY DEF StopsAt
<1>10. Ordered(k)
  <2> SUFFICES ASSUME NEW q \in Node(k)
               PROVE  /\ k.ptr[q] \in Node(k)
                      /\ \/ q < k.ptr[q] /\ \A r \in Node(k) : r <= q \/ k.ptr[q] <= r
                         \/ k.ptr[q] <= q /\ \A r \in Node(k) : k.ptr[q] <= r /\ r <= q
    BY DEF Ordered
  <2>1. CASE q = p
    BY <1>2, <1>4, <1>7, <1>8, <1>9, <2>1
  <2>2. CASE q = bp
    <3>1. k.ptr[q] = l.ptr[p] /\ l.ptr[p] \in Node(l) /\ l.ptr[p] \in Int /\ p \in Int
      BY <1>4, <1>7, <2>2
    <3>2. ASSUME NEW r \in Node(l)
          PROVE  \/ bp < l.ptr[p] /\ (r <= bp \/ l.ptr[p] <= r)
                 \/ l.ptr[p] <= bp /\ l.ptr[p] <= r /\ r <= bp
      <4>1. /\ r \in Int
            /\ \/ p < l.ptr[p] /\ (r <= p \/ l.ptr[p] <= r)
               \/ l.ptr[p] <= p /\ l.ptr[p] <= r /\ r <= p
        BY <1>7, <1>8
      <4> QED BY <1>2, <1>9, <3>1, <4>1
    <3>3. bp < l.ptr[p] \/ l.ptr[p] <= bp
      BY <1>2, <3>1
    <3> QED BY <1>2, <1>4, <2>2, <3>1, <3>2, <3>3
  <2>3. CASE q # p /\ q # bp
    <3>1. q \in Node(l) /\ k.ptr[q] = l.ptr[q] /\ l.ptr[q] # l.ptr[p]
      BY <1>1, <1>4, <2>3, OnePredecessor
    <3>2. \/ q < l.ptr[q] /\ \A r \in Node(l) : r <= q \/ l.ptr[q] <= r
          \/ l.ptr[q] <= q /\ \A r \in Node(l) : l.ptr[q] <= r /\ r <= q
      BY <1>1, <3>1 DEF Ordered
    <3>3. \/ q < l.ptr[q] /\ (bp <= q \/ l.ptr[q] <= bp)
          \/ l.ptr[q] <= q /\ l.ptr[q] <= bp /\ bp <= q
      BY <1>2, <1>7, <1>8, <1>9, <2>3, <3>1, <3>2
    <3> QED BY <1>2, <1>4, <1>7, <3>1, <3>2, <3>3
  <2> QED BY <2>1, <2>2, <2>3
<1>11. JoinedBut(k, {p, bp})
  BY <1>3, <1>4 DEF JoinedBut
<1>12. Sound(k, lo, hi)
  BY <1>1, <1>5, <1>6, <1>10 DEF Sound
<1>13. InUse(k) = InUse(l) \ {bp}
  BY <1>4 DEF InUse
<1> QED BY <1>11, <1>12, <1>13 DEF k

\* A block that touches the next one takes it over.
LEMMA MergeKeeps ==
  ASSUME NEW l, NEW lo, NEW hi, NEW S, NEW a \in Node(l),
         Sound(l, lo, hi), JoinedBut(l, S),
         a # base, l.ptr[a] # base, l.ptr[a] # l.freep, l.ptr[a] \notin S,
         a + l.size[a] = l.ptr[a]
  PROVE  /\ Sound(Merged(l, a), lo, hi)
         /\ JoinedBut(Merged(l, a), S \ {a})
         /\ InUse(Merged(l, a)) = InUse(l)
         /\ \A u \in InUse(l) : Merged(l, a).size[u] = l.size[u]
<1> DEFINE x == l.ptr[a]
           k == Merged(l, a)
<1>1. /\ Ordered(l) /\ Shape(l) /\ BlocksApart(l) /\ Within(l, lo, hi) /\ Filled(l, lo, hi)
      /\ lo \in Int /\ hi \in Int /\ base \notin lo .. hi
  BY DEF Sound
<1>2. /\ x \in Node(l) /\ x # base /\ x \in Header(l) /\ a \in Header(l)
      /\ a \in Int /\ x \in Int /\ l.size[a] \in Nat \ {0} /\ l.size[x] \in Nat \ {0}
      /\ a + l.size[a] = x /\ x # a
  <2>1. x \in Node(l) /\ x # base /\ x \in Header(l) /\ a \in Header(l) /\ a \in Int /\ x \in Int
    BY <1>1 DEF Ordered, Shape
  <2>2. l.size[a] \in Nat \ {0} /\ l.size[x] \in Nat \ {0}
    BY <1>1, <2>1 DEF Shape
  <2> QED BY <2>1, <2>2
<1>3. /\ k.ptr = [q \in Node(l) \ {x} |-> IF q = a THEN l.ptr[x] ELSE l.ptr[q]]
      /\ k.size = [q \in Header(l) \ {x} |-> IF q = a THEN l.size[a] + l.size[x] ELSE l.size[q]]
      /\ k.freep = l.freep
  BY DEF Merged
<1>4. /\ Node(k) = Node(l) \ {x} /\ Header(k) = Header(l) \ {x}
      /\ k.ptr[a] = l.ptr[x] /\ \A q \in Node(k) \ {a} : k.ptr[q] = l.ptr[q]
      /\ k.size[a] = l.size[a] + l.size[x]
      /\ \A q \in Header(k) \ {a} : k.size[q] = l.size[q]
  BY <1>2, <1>3 DEF Node, Header
<1>5. x # l.freep /\ x \notin S
  OBVIOUS
<1> HIDE DEF k, x
<1>6. Shape(k)
  BY <1>1, <1>2, <1>3, <1>4, <1>5 DEF Shape
<1>7. Ordered(k)
  BY <1>1, <1>2, <1>4, UnlinkOrdered DEF x
<1>8. \A b \in Header(k) \ {base} : b # a =>
        /\ b \in Header(l) /\ b # x /\ b \in Int /\ l.size[b] \in Nat \ {0}
        /\ b + l.size[b] <= a \/ a + l.size[a] <= b
        /\ b + l.size[b] <= x \/ x + l.size[x] <= b
  BY <1>1, <1>2, <1>4 DEF Shape, BlocksApart
<1>9. \A b \in Header(k) \ {base} : b # a =>
        /\ b \in Int /\ k.size[b] \in Nat
        /\ b + k.size[b] <= a \/ a + k.size[a] <= b
  <2> SUFFICES ASSUME NEW b \in Header(k) \ {base}, b # a
               PROVE  /\ b \in Int /\ k.size[b] \in Nat
                      /\ b + k.size[b] <= a \/ a + k.size[a] <= b
    OBVIOUS
  <2>1. k.size[b] = l.size[b] /\ k.size[a] = l.size[a] + l.size[x]
    BY <1>4
  <2> QED BY <1>2, <1>8, <2>1
<1>10. BlocksApart(k)
  <2> SUFFICES ASSUME NEW b \in Header(k) \ {base}, NEW c \in Header(k) \ {base}, b # c
               PROVE  b + k.size[b] <= c \/ c + k.size[c] <= b
    BY DEF BlocksApart
  <2>1. CASE b = a
    BY <1>9, <2>1
  <2>2. CASE c = a
    BY <1>9, <2>2
  <2>3. CASE b # a /\ c # a
    BY <1>1, <1>4, <2>3 DEF BlocksApart
  <2> QED BY <2>1, <2>2, <2>3
<1>11. Within(k, lo, hi)
  <2>1. lo <= a /\ x + l.size[x] <= hi
    BY <1>1, <1>2 DEF Within
  <2>2. a + k.size[a] <= hi
    BY <1>1, <1>2, <1>4, <2>1
  <2> QED BY <1>1, <1>4, <2>1, <2>2 DEF Within
<1>12. Filled(k, lo, hi)
  <2> SUFFICES ASSUME NEW y \in lo .. hi - 1
               PROVE  \E b \in Header(k) \ {base} : b <= y /\ y < b + k.size[b]
    BY DEF Filled
  <2>1. PICK b \in Header(l) \ {base} : b <= y /\ y < b + l.size[b]
    BY <1>1 DEF Filled
  <2>2. CASE b # a /\ b # x
    BY <1>4, <2>1, <2>2
  <2>3. CASE b \in {a, x}
    <3>1. a <= y /\ y < a + k.size[a]
      BY <1>1, <1>2, <1>4, <2>1, <2>3
    <3>2. a \in Header(k) \ {base}
      BY <1>2, <1>4
    <3> QED BY <3>1, <3>2
  <2> QED BY <2>2, <2>3
<1>13. JoinedBut(k, S \ {a})
  <2> SUFFICES ASSUME NEW q \in Node(k), q # base, q \notin S \/ q = a
               PROVE  q + k.size[q] # k.ptr[q]
    BY DEF JoinedBut
  <2>1. CASE q # a
    <3>1. k.size[q] = l.size[q] /\ k.ptr[q] = l.ptr[q]
      BY <1>1, <1>4, <2>1 DEF Shape
    <3> QED BY <1>4, <2>1, <3>1 DEF JoinedBut
  <2>2. CASE q = a
    <3>1. x + l.size[x] # l.ptr[x]
      BY <1>2, <1>5 DEF JoinedBut
    <3> QED BY <1>2, <1>4, <2>2, <3>1
  <2> QED BY <2>1, <2>2
<1>14. Sound(k, lo, hi)
  BY <1>1, <1>6, <1>7, <1>10, <1>11, <1>12 DEF Sound
<1>15. InUse(k) = InUse(l)
  BY <1>2, <1>4 DEF InUse
<1>16. \A u \in InUse(l) : k.size[u] = l.size[u]
  BY <1>2, <1>4 DEF InUse
<1> QED BY <1>13, <1>14, <1>15, <1>16 DEF k

\* The fields of the list after a merger.
LEMMA MergedIs ==
  ASSUME NEW l, NEW a \in Node(l), NEW x \in Node(l), l.ptr[a] = x, x # a,
         Node(l) \subseteq Header(l)
  PROVE  LET k == Merged(l, a) IN
         /\ Node(k) = Node(l) \ {x} /\ Header(k) = Header(l) \ {x}
         /\ k.ptr[a] = l.ptr[x] /\ \A q \in Node(k) \ {a} : k.ptr[q] = l.ptr[q]
         /\ k.size[a] = l.size[a] + l.size[x]
         /\ \A q \in Header(k) \ {a} : k.size[q] = l.size[q]
         /\ k.freep = l.freep
BY DEF Merged, Node, Header

\* Lists with the same blocks in the same order.
Agree(k, l) ==
  /\ Node(k) = Node(l) /\ \A q \in Node(l) : k.ptr[q] = l.ptr[q]
  /\ Header(k) = Header(l) /\ \A q \in Header(l) : k.size[q] = l.size[q]
  /\ k.freep = l.freep

\* Soundness depends on the blocks and their order only.
LEMMA SameBlocks ==
  ASSUME NEW l, NEW k, NEW lo, NEW hi, Agree(k, l), Sound(l, lo, hi), JoinedBut(l, {})
  PROVE  Sound(k, lo, hi) /\ JoinedBut(k, {}) /\ InUse(k) = InUse(l)
<1>1. Shape(l) /\ Node(l) \subseteq Header(l)
  BY DEF Sound, Shape
<1>2. Ordered(k)
  BY DEF Sound, Ordered, Agree
<1>3. Shape(k)
  BY <1>1 DEF Shape, Agree
<1>4. BlocksApart(k)
  BY DEF Sound, BlocksApart, Agree
<1>5. Within(k, lo, hi)
  BY DEF Sound, Within, Agree
<1>6. Filled(k, lo, hi)
  BY DEF Sound, Filled, Agree
<1>7. JoinedBut(k, {}) /\ InUse(k) = InUse(l)
  BY <1>1 DEF JoinedBut, InUse, Agree
<1> QED BY <1>2, <1>3, <1>4, <1>5, <1>6, <1>7 DEF Sound

\* What free does to the list.
Put(l, k, bp, lo, hi) ==
  /\ Sound(k, lo, hi) /\ JoinedBut(k, {})
  /\ InUse(k) = InUse(l) \ {bp}
  /\ \A u \in InUse(k) : k.size[u] = l.size[u]

\* free is a link, then a merger with the block above, then one with the block below.
LEMMA InsertKeeps ==
  ASSUME NEW l, NEW lo, NEW hi, NEW p \in Node(l), NEW bp \in InUse(l),
         Sound(l, lo, hi), JoinedBut(l, {}), StopsAt(l, p, bp)
  PROVE  Put(l, Inserted(l, p, bp), bp, lo, hi)
<1> DEFINE next == l.ptr[p]
           isup == JoinsUpper(l, p, bp)
           low  == JoinsLower(l, p, bp)
           l1   == Linked(l, p, bp)
           l2   == IF isup THEN Merged(l1, bp) ELSE l1
           l3   == IF low THEN Merged(l2, p) ELSE l2
           k    == Inserted(l, p, bp)
           after == IF isup THEN l.ptr[next] ELSE next
           size == IF isup THEN l.size[bp] + l.size[next] ELSE l.size[bp]
           gone == IF isup THEN {next} ELSE {}
           S    == {p, bp}
           T    == {p}
<1>1. /\ Sound(l1, lo, hi) /\ JoinedBut(l1, S) /\ InUse(l1) = InUse(l) \ {bp}
  BY LinkKeeps
<1>2. Ordered(l) /\ Shape(l) /\ Within(l, lo, hi) /\ base \notin lo .. hi /\ lo \in Int /\ hi \in Int
  BY DEF Sound
<1>3. /\ bp \in Header(l) /\ bp \notin Node(l) /\ bp # p /\ bp # base /\ bp \in Int
      /\ next \in Node(l) /\ next # bp /\ p \in Header(l) /\ next \in Header(l)
      /\ l.size[bp] \in Nat \ {0} /\ lo <= bp /\ bp + l.size[bp] <= hi
      /\ Node(l) \subseteq Header(l)
  BY <1>2 DEF InUse, Shape, Ordered, Within
<1>4. isup => next # base /\ next # p /\ bp + l.size[bp] = next
  <2> SUFFICES ASSUME isup PROVE next # base /\ next # p /\ bp + l.size[bp] = next
    OBVIOUS
  <2>1. bp + l.size[bp] = next
    BY DEF JoinsUpper
  <2>2. next \in lo .. hi
    BY <1>2, <1>3, <2>1
  <2>3. next # base
    BY <1>2, <2>2
  <2> QED BY <1>2, <2>1, <2>3, OnePredecessor
<1>5. low => p # base /\ p + l.size[p] = bp
  BY <1>2, <1>3 DEF JoinsLower, Shape
<1>6. /\ Node(l1) = Node(l) \cup {bp} /\ Header(l1) = Header(l)
      /\ l1.ptr[bp] = next /\ l1.ptr[p] = bp
      /\ \A q \in Node(l) \ {p} : l1.ptr[q] = l.ptr[q]
      /\ l1.size = l.size /\ l1.freep = p
  BY <1>3 DEF Linked, Node, Header
<1>7. (isup => after = l.ptr[next] /\ size = l.size[bp] + l.size[next] /\ gone = {next})
      /\ (~isup => after = next /\ size = l.size[bp] /\ gone = {})
  OBVIOUS
<1>8. (isup => l2 = Merged(l1, bp)) /\ (~isup => l2 = l1) /\ (low => l3 = Merged(l2, p))
  OBVIOUS
<1>9. S \ {bp} = T /\ T \ {p} = {} /\ S = {p, bp} /\ T = {p}
  BY <1>3
<1>10. /\ Node(k) = (Node(l) \cup {bp}) \ (gone \cup IF low THEN {bp} ELSE {})
       /\ \A q \in Node(k) : k.ptr[q] = IF q = bp \/ (q = p /\ low) THEN after
                                        ELSE IF q = p THEN bp ELSE l.ptr[q]
       /\ Header(k) = Header(l) \ (gone \cup IF low THEN {bp} ELSE {})
       /\ \A q \in Header(k) : k.size[q] = IF q = p /\ low THEN l.size[p] + size
                                           ELSE IF q = bp THEN size ELSE l.size[q]
       /\ k.freep = p
  BY DEF Inserted, Node, Header
<1> HIDE DEF l1, next, l2, l3, after, size, gone, k, S, T
<1>11. /\ Node(l2) = (Node(l) \cup {bp}) \ gone
       /\ l2.ptr[p] = bp /\ l2.ptr[bp] = after
       /\ \A q \in Node(l2) \ {p, bp} : l2.ptr[q] = l.ptr[q]
       /\ Header(l2) = Header(l) \ gone
       /\ l2.size[bp] = size
       /\ \A q \in Header(l2) \ {bp} : l2.size[q] = l.size[q]
       /\ l2.freep = p
       /\ Sound(l2, lo, hi) /\ JoinedBut(l2, T) /\ InUse(l2) = InUse(l) \ {bp}
  <2>1. CASE isup
    <3>0. l2 = Merged(l1, bp)
      BY <1>8, <2>1
    <3>1. /\ bp \in Node(l1) /\ next \in Node(l1) /\ next # bp /\ Node(l1) \subseteq Header(l1)
          /\ next \notin S /\ next # base /\ next # l1.freep /\ bp + l1.size[bp] = next
          /\ bp # base /\ l1.ptr[bp] = next
      BY <1>3, <1>4, <1>6, <1>9, <2>1
    <3>2. /\ Node(l2) = Node(l1) \ {next} /\ Header(l2) = Header(l1) \ {next}
          /\ l2.ptr[bp] = l1.ptr[next] /\ \A q \in Node(l2) \ {bp} : l2.ptr[q] = l1.ptr[q]
          /\ l2.size[bp] = l1.size[bp] + l1.size[next]
          /\ \A q \in Header(l2) \ {bp} : l2.size[q] = l1.size[q]
          /\ l2.freep = l1.freep
      BY <1>6, <3>0, <3>1, MergedIs
    <3>3. /\ Sound(l2, lo, hi) /\ JoinedBut(l2, S \ {bp}) /\ InUse(l2) = InUse(l1)
      <4>1. Sound(l1, lo, hi) /\ JoinedBut(l1, S)
        BY <1>1
      <4>2. /\ bp \in Node(l1) /\ bp # base /\ l1.ptr[bp] # base /\ l1.ptr[bp] # l1.freep
            /\ l1.ptr[bp] \notin S /\ bp + l1.size[bp] = l1.ptr[bp]
        BY <3>1
      <4> QED BY <3>0, <4>1, <4>2, MergeKeeps
    <3>4. gone = {next} /\ after = l.ptr[next] /\ size = l.size[bp] + l.size[next] /\ next # p
      BY <1>4, <1>7, <2>1
    <3>5. Node(l2) = (Node(l) \cup {bp}) \ gone /\ Header(l2) = Header(l) \ gone
      BY <1>6, <3>2, <3>4
    <3>6. l2.ptr[p] = bp /\ l2.ptr[bp] = after /\ l2.size[bp] = size /\ l2.freep = p
      BY <1>3, <1>6, <3>2, <3>4
    <3>7. /\ \A q \in Node(l2) \ {p, bp} : l2.ptr[q] = l.ptr[q]
          /\ \A q \in Header(l2) \ {bp} : l2.size[q] = l.size[q]
      BY <1>6, <3>2
    <3>8. Sound(l2, lo, hi) /\ JoinedBut(l2, T) /\ InUse(l2) = InUse(l) \ {bp}
      BY <1>1, <1>9, <3>3
    <3> QED BY <3>5, <3>6, <3>7, <3>8
  <2>2. CASE ~isup
    <3>1. l2 = l1 /\ after = next /\ size = l.size[bp] /\ gone = {}
      BY <1>7, <1>8, <2>2
    <3>2. JoinedBut(l1, T)
      <4>1. bp + l.size[bp] # next
        BY <2>2 DEF JoinsUpper, next
      <4> QED BY <1>1, <1>6, <1>9, <4>1 DEF JoinedBut
    <3> QED BY <1>1, <1>6, <3>1, <3>2
  <2> QED BY <2>1, <2>2
<1>12. p \notin gone /\ bp \notin gone
  BY <1>3, <1>4, <1>7
<1>13. CASE low
  <2>0. l3 = Merged(l2, p) /\ l2.ptr[p] = bp
    BY <1>8, <1>11, <1>13
  <2>1. /\ p \in Node(l2) /\ bp \in Node(l2) /\ Node(l2) \subseteq Header(l2)
        /\ p # base /\ bp # base /\ bp # p /\ bp # l2.freep /\ bp \notin T
        /\ p + l2.size[p] = bp
    BY <1>3, <1>5, <1>9, <1>11, <1>12, <1>13
  <2>2. /\ Node(l3) = Node(l2) \ {bp} /\ Header(l3) = Header(l2) \ {bp}
        /\ l3.ptr[p] = l2.ptr[bp]
        /\ \A q \in Node(l3) \ {p} : l3.ptr[q] = l2.ptr[q]
        /\ l3.size[p] = l2.size[p] + l2.size[bp]
        /\ \A q \in Header(l3) \ {p} : l3.size[q] = l2.size[q]
        /\ l3.freep = l2.freep
    BY <2>0, <2>1, MergedIs
  <2>3. /\ Sound(l3, lo, hi) /\ JoinedBut(l3, T \ {p})
        /\ InUse(l3) = InUse(l2)
    <3>1. Sound(l2, lo, hi) /\ JoinedBut(l2, T)
      BY <1>11
    <3> QED BY <2>0, <2>1, <3>1, MergeKeeps
  <2>4. Agree(k, l3)
    <3>1. Node(k) = Node(l3) /\ Header(k) = Header(l3)
          /\ k.freep = l3.freep
      BY <1>10, <1>11, <1>13, <2>2
    <3>2. \A q \in Node(k) : k.ptr[q] = l3.ptr[q]
      BY <1>10, <1>11, <1>13, <2>2
    <3>3. \A q \in Header(k) : k.size[q] = l3.size[q]
      BY <1>3, <1>10, <1>11, <1>12, <1>13, <2>2
    <3> QED BY <3>1, <3>2, <3>3 DEF Agree
  <2>5. Sound(k, lo, hi) /\ JoinedBut(k, {}) /\ InUse(k) = InUse(l) \ {bp}
    <3>1. Sound(l3, lo, hi) /\ JoinedBut(l3, {}) /\ InUse(l3) = InUse(l) \ {bp}
      BY <1>9, <1>11, <2>3
    <3>2. Sound(k, lo, hi) /\ JoinedBut(k, {}) /\ InUse(k) = InUse(l3)
      BY <2>4, <3>1, SameBlocks
    <3> QED BY <3>1, <3>2
  <2>6. \A u \in InUse(k) : k.size[u] = l.size[u]
    <3>1. SUFFICES ASSUME NEW u \in InUse(k) PROVE k.size[u] = l.size[u]
      OBVIOUS
    <3>2. u \in Header(k) /\ u # bp
      BY <2>5 DEF InUse
    <3>3. u # p
      BY <2>1, <2>2, <2>4 DEF InUse, Agree
    <3> QED BY <1>10, <3>2, <3>3
  <2> QED BY <2>5, <2>6 DEF Put, k
<1>14. CASE ~low
  <2>1. JoinedBut(l2, {})
    <3>1. p + l.size[p] # bp
      BY <1>14 DEF JoinsLower
    <3>2. l2.ptr[p] = bp /\ l2.size[p] = l.size[p]
      BY <1>3, <1>11, <1>12
    <3> QED BY <1>9, <1>11, <3>1, <3>2 DEF JoinedBut
  <2>2. Agree(k, l2)
    <3>1. Node(k) = Node(l2) /\ Header(k) = Header(l2) /\ k.freep = l2.freep
      BY <1>10, <1>11, <1>14
    <3>2. \A q \in Node(k) : k.ptr[q] = l2.ptr[q]
      BY <1>3, <1>10, <1>11, <1>14
    <3>3. \A q \in Header(k) : k.size[q] = l2.size[q]
      BY <1>3, <1>10, <1>11, <1>14
    <3> QED BY <3>1, <3>2, <3>3 DEF Agree
  <2>3. Sound(k, lo, hi) /\ JoinedBut(k, {}) /\ InUse(k) = InUse(l) \ {bp}
    BY <1>11, <2>1, <2>2, SameBlocks
  <2>4. \A u \in InUse(k) : k.size[u] = l.size[u]
    BY <1>10, <1>14, <2>3 DEF InUse
  <2> QED BY <2>3, <2>4 DEF Put, k
<1> QED BY <1>13, <1>14

-----------------------------------------------------------------------------
(***************************************************************************)
(* The steps of malloc and free.                                           *)
(***************************************************************************)
\* A request becomes at least a header and enough units for its bytes.
LEMMA UnitsSuffice ==
  ASSUME NEW nbytes \in Nat
  PROVE  nunits(nbytes) \in Nat \ {0} /\ (nunits(nbytes) - 1) * HEADER >= nbytes
<1>1. HEADER \in Nat \ {0}
  BY MallocAssumption
<1>2. ASSUME NEW h \in Nat \ {0}, NEW m \in Nat
      PROVE  (m + h - 1) \div h \in Nat /\ ((m + h - 1) \div h) * h >= m
  OBVIOUS
<1>3. /\ (nbytes + HEADER - 1) \div HEADER \in Nat
      /\ ((nbytes + HEADER - 1) \div HEADER) * HEADER >= nbytes
  BY <1>1, <1>2
<1>4. nunits(nbytes) - 1 = (nbytes + HEADER - 1) \div HEADER
  BY <1>3 DEF nunits
<1> QED BY <1>3, <1>4 DEF nunits

\* morecore takes at least what is asked of it.
LEMMA ChunksSuffice ==
  ASSUME NEW n \in Nat \ {0}
  PROVE  round_up(n) \in Nat \ {0} /\ round_up(n) >= n
<1>1. CHUNK \in Nat \ {0}
  BY MallocAssumption
<1>2. ASSUME NEW h \in Nat \ {0}, NEW m \in Nat
      PROVE  ((m + h - 1) \div h) * h \in Nat /\ ((m + h - 1) \div h) * h >= m
  OBVIOUS
<1> QED BY <1>1, <1>2 DEF round_up

\* The heap as malloc and free leave it, where the list's own block is elsewhere.
HeapInv ==
  /\ start \in Int /\ bss \in Int /\ top \in Int /\ start <= bss /\ bss <= top
  /\ Sound(list, start, bss) /\ JoinedBut(list, {})
  /\ InUse(list) = Used
  /\ Roomy

\* What a step does to the blocks in use.
Gives ==
  \E at : /\ at \notin Used /\ Used' = Used \cup {at} /\ list'.size[at] \in Nat \ {0}
          /\ \A u \in Used : list'.size[u] = list.size[u]

Takes ==
  \E bp \in Used : /\ Used' = Used \ {bp}
                   /\ \A u \in Used' : list'.size[u] = list.size[u]

\* malloc takes the block behind prevp when it is large enough, whole or in part.
LEMMA CarveKeeps ==
  ASSUME NEW l, NEW lo, NEW hi, NEW prevp \in Node(l), NEW n \in Nat \ {0},
         Sound(l, lo, hi), JoinedBut(l, {}), l.size[l.ptr[prevp]] >= n
  PROVE  Took(l, Carved(l, prevp, n), Block(l, prevp, n), n, lo, hi)
<1>1. l.ptr[prevp] \in Header(l)
  BY DEF Sound, Ordered, Shape
<1>2. l.size[l.ptr[prevp]] \in Nat
  BY <1>1 DEF Sound, Shape
<1>3. Whole(l, prevp, n) \/ l.size[l.ptr[prevp]] > n
  BY <1>2 DEF Whole
<1> QED BY <1>3, CarveWhole, CarveTail

\* A block taken from list l, sound and with the blocks in use and perhaps a free one
\* more than the heap's, is the caller's.
LEMMA ReturnKeeps ==
  ASSUME HeapInv, NEW l, NEW nbytes \in Nat, NEW prevp \in Node(l),
         Sound(l, start, bss'), JoinedBut(l, {}), InUse(l) = Used,
         \A u \in Used : l.size[u] = list.size[u],
         l.size[l.ptr[prevp]] >= nunits(nbytes),
         list' = Carved(l, prevp, nunits(nbytes)),
         Returns(Block(l, prevp, nunits(nbytes)), nbytes),
         UNCHANGED <<start, top>>, bss' \in Int, start <= bss', bss' <= top
  PROVE  HeapInv' /\ Gives
<1> DEFINE n  == nunits(nbytes)
           at == Block(l, prevp, n)
<1>1. n \in Nat \ {0} /\ (n - 1) * HEADER >= nbytes
  BY UnitsSuffice
<1>2. Took(l, list', at, n, start, bss')
  BY <1>1, CarveKeeps
<1>3. held' = [q \in Used \cup {at} |-> IF q = at THEN nbytes ELSE held[q]]
  BY DEF Returns
<1> HIDE DEF n, at
<1>4. /\ Sound(list', start, bss') /\ JoinedBut(list', {})
      /\ at \notin Used /\ InUse(list') = Used \cup {at} /\ list'.size[at] = n
      /\ \A u \in Used : list'.size[u] = list.size[u]
  BY <1>2 DEF Took
<1>5. DOMAIN held' = Used \cup {at}
  BY <1>3
<1>6. Roomy'
  <2> SUFFICES ASSUME NEW b \in DOMAIN held'
               PROVE  (list'.size[b] - 1) * HEADER >= held'[b]
    BY DEF Roomy, Used
  <2>1. CASE b = at
    BY <1>1, <1>3, <1>4, <2>1
  <2>2. CASE b # at
    <3>1. b \in Used /\ held'[b] = held[b] /\ list'.size[b] = list.size[b]
      BY <1>3, <1>4, <1>5, <2>2
    <3> QED BY <3>1 DEF HeapInv, Roomy
  <2> QED BY <2>1, <2>2
<1>7. HeapInv'
  BY <1>4, <1>5, <1>6 DEF HeapInv, Used
<1>8. Gives
  BY <1>1, <1>4, <1>5 DEF Gives, Used
<1> QED BY <1>7, <1>8

\* malloc that finds a block keeps the heap sound.
LEMMA MallocKeeps ==
  ASSUME HeapInv, NEW nbytes \in Request, malloc(nbytes)
  PROVE  HeapInv' /\ Gives
<1>1. PICK prevp \in Node(list) :
        /\ FirstFit(list, prevp, nunits(nbytes))
        /\ list' = Carved(list, prevp, nunits(nbytes))
        /\ Returns(Block(list, prevp, nunits(nbytes)), nbytes)
  BY DEF malloc
<1>2. list.size[list.ptr[prevp]] >= nunits(nbytes)
  BY <1>1 DEF FirstFit
<1>3. nbytes \in Nat /\ UNCHANGED <<start, bss, top>>
  BY MallocAssumption DEF malloc
<1>4. /\ Sound(list, start, bss') /\ JoinedBut(list, {}) /\ InUse(list) = Used
      /\ bss' \in Int /\ start <= bss' /\ bss' <= top
  BY <1>3 DEF HeapInv
<1> QED BY <1>1, <1>2, <1>3, <1>4, ReturnKeeps

\* The new block that morecore cuts off touches what was given out before it.
LEMMA CoreKeeps ==
  ASSUME HeapInv, base \notin start .. top, NEW nb \in Nat \ {0}, CoreLeft(nb)
  PROVE  LET l == WithCore(nb) IN
         /\ Sound(l, start, bss + nb) /\ JoinedBut(l, {})
         /\ bss \in InUse(l) /\ bss \notin Used /\ InUse(l) = Used \cup {bss}
         /\ Node(l) = Node(list) /\ \A u \in Used : l.size[u] = list.size[u]
<1> DEFINE l == WithCore(nb)
<1>1. /\ Ordered(list) /\ Shape(list) /\ BlocksApart(list) /\ Within(list, start, bss)
      /\ Filled(list, start, bss) /\ JoinedBut(list, {})
      /\ start \in Int /\ bss \in Int /\ top \in Int /\ start <= bss /\ bss + nb < top
      /\ base \notin start .. (bss + nb) /\ base # bss
      /\ InUse(list) = Used
  BY DEF HeapInv, Sound, CoreLeft
<1>2. bss \notin Header(list)
  BY <1>1 DEF Within, Shape
<1>3. /\ l.ptr = list.ptr /\ l.freep = list.freep
      /\ l.size = [q \in Header(list) \cup {bss} |-> IF q = bss THEN nb ELSE list.size[q]]
  BY DEF WithCore
<1>4. /\ Node(l) = Node(list) /\ Header(l) = Header(list) \cup {bss}
      /\ l.size[bss] = nb /\ \A q \in Header(list) : l.size[q] = list.size[q]
  BY <1>2, <1>3 DEF Node, Header
<1> HIDE DEF l
<1>5. Ordered(l)
  BY <1>1, <1>3, <1>4 DEF Ordered
<1>6. Shape(l)
  BY <1>1, <1>3, <1>4 DEF Shape
<1>7. \A b \in Header(list) \ {base} :
        b \in Int /\ list.size[b] \in Nat /\ start <= b /\ b + list.size[b] <= bss
  BY <1>1 DEF Within, Shape
<1>8. BlocksApart(l)
  <2> SUFFICES ASSUME NEW b \in Header(l) \ {base}, NEW c \in Header(l) \ {base}, b # c
               PROVE  b + l.size[b] <= c \/ c + l.size[c] <= b
    BY DEF BlocksApart
  <2>1. CASE b = bss
    BY <1>4, <1>7, <2>1
  <2>2. CASE c = bss
    BY <1>4, <1>7, <2>2
  <2>3. CASE b # bss /\ c # bss
    BY <1>1, <1>4, <2>3 DEF BlocksApart
  <2> QED BY <2>1, <2>2, <2>3
<1>9. Within(l, start, bss + nb)
  <2> SUFFICES ASSUME NEW b \in Header(l) \ {base}
               PROVE  start <= b /\ b + l.size[b] <= bss + nb
    BY DEF Within
  <2>1. CASE b = bss
    BY <1>1, <1>4, <2>1
  <2>2. CASE b # bss
    BY <1>1, <1>4, <1>7, <2>2
  <2> QED BY <2>1, <2>2
<1>10. Filled(l, start, bss + nb)
  <2> SUFFICES ASSUME NEW x \in start .. (bss + nb) - 1
               PROVE  \E b \in Header(l) \ {base} : b <= x /\ x < b + l.size[b]
    BY DEF Filled
  <2>1. CASE x < bss
    <3>1. x \in start .. bss - 1
      BY <1>1, <2>1
    <3>2. PICK b \in Header(list) \ {base} : b <= x /\ x < b + list.size[b]
      BY <1>1, <3>1 DEF Filled
    <3> QED BY <1>4, <3>2
  <2>2. CASE bss <= x
    BY <1>1, <1>4, <2>2
  <2> QED BY <1>1, <2>1, <2>2
<1>11. JoinedBut(l, {})
  BY <1>1, <1>3, <1>4 DEF JoinedBut, Shape
<1>12. Sound(l, start, bss + nb)
  BY <1>1, <1>5, <1>6, <1>8, <1>9, <1>10 DEF Sound
<1>13. InUse(l) = Used \cup {bss} /\ bss \notin Used
  BY <1>1, <1>2, <1>4 DEF InUse, Shape
<1>14. \A u \in Used : l.size[u] = list.size[u]
  BY <1>1, <1>4 DEF InUse
<1> QED BY <1>4, <1>11, <1>12, <1>13, <1>14 DEF l

\* malloc that has to ask morecore keeps the heap sound.
LEMMA MorecoreKeeps ==
  ASSUME HeapInv, base \notin start .. top, NEW nbytes \in Request, malloc_morecore(nbytes)
  PROVE  HeapInv' /\ Gives
<1> DEFINE n  == nunits(nbytes)
           nb == round_up(n)
           l  == WithCore(nb)
<1>1. nbytes \in Nat /\ n \in Nat \ {0} /\ nb \in Nat \ {0}
  BY MallocAssumption, UnitsSuffice, ChunksSuffice
<1>2. CoreLeft(nb) /\ bss' = bss + nb /\ UNCHANGED <<start, top>>
  BY DEF malloc_morecore
<1>3. PICK p \in Node(list) :
        /\ StopsAt(l, p, bss)
        /\ \E prevp \in Node(Inserted(l, p, bss)) :
             /\ FirstFit(Inserted(l, p, bss), prevp, n)
             /\ list' = Carved(Inserted(l, p, bss), prevp, n)
             /\ Returns(Block(Inserted(l, p, bss), prevp, n), nbytes)
  BY DEF malloc_morecore
<1> DEFINE k == Inserted(l, p, bss)
<1>4. PICK prevp \in Node(k) :
        /\ FirstFit(k, prevp, n)
        /\ list' = Carved(k, prevp, n)
        /\ Returns(Block(k, prevp, n), nbytes)
  BY <1>3
<1> HIDE DEF nb
<1>5. /\ Sound(l, start, bss + nb) /\ JoinedBut(l, {})
      /\ bss \in InUse(l) /\ bss \notin Used /\ InUse(l) = Used \cup {bss}
      /\ Node(l) = Node(list) /\ \A u \in Used : l.size[u] = list.size[u]
  BY <1>1, <1>2, CoreKeeps
<1> HIDE DEF l
<1>6. Put(l, k, bss, start, bss + nb)
  BY <1>3, <1>5, InsertKeeps
<1> HIDE DEF k
<1>7. /\ Sound(k, start, bss') /\ JoinedBut(k, {}) /\ InUse(k) = Used
      /\ \A u \in Used : k.size[u] = list.size[u]
  BY <1>2, <1>5, <1>6 DEF Put
<1>8. k.size[k.ptr[prevp]] >= n
  BY <1>4 DEF FirstFit
<1>9. bss' \in Int /\ start <= bss' /\ bss' <= top
  BY <1>1, <1>2 DEF CoreLeft, HeapInv
<1> HIDE DEF n
<1> QED BY <1>1, <1>2, <1>4, <1>7, <1>8, <1>9, ReturnKeeps DEF n

\* free keeps the heap sound.
LEMMA FreeKeeps ==
  ASSUME HeapInv, NEW bp \in Used, free(bp)
  PROVE  HeapInv' /\ Takes
<1>1. PICK p \in Node(list) : StopsAt(list, p, bp) /\ list' = Inserted(list, p, bp)
  BY DEF free
<1>2. Put(list, list', bp, start, bss)
  BY <1>1, InsertKeeps DEF HeapInv
<1>3. held' = [q \in Used \ {bp} |-> held[q]] /\ UNCHANGED <<start, bss, top>>
  BY DEF free
<1>4. DOMAIN held' = Used \ {bp}
  BY <1>3
<1>5. /\ Sound(list', start, bss) /\ JoinedBut(list', {}) /\ InUse(list') = Used \ {bp}
      /\ \A u \in Used \ {bp} : list'.size[u] = list.size[u]
  BY <1>2 DEF Put, HeapInv
<1>6. Roomy'
  <2> SUFFICES ASSUME NEW b \in DOMAIN held'
               PROVE  (list'.size[b] - 1) * HEADER >= held'[b]
    BY DEF Roomy, Used
  <2>1. b \in Used /\ held'[b] = held[b] /\ list'.size[b] = list.size[b]
    BY <1>3, <1>4, <1>5
  <2> QED BY <2>1 DEF HeapInv, Roomy
<1>7. HeapInv'
  BY <1>3, <1>4, <1>5, <1>6 DEF HeapInv, Used
<1> QED BY <1>4, <1>5, <1>7 DEF Takes, Used

\* Every call of malloc or free keeps the heap sound.
LEMMA HeapStep ==
  ASSUME HeapInv, base \notin start .. top, HeapNext
  PROVE  /\ HeapInv' /\ UNCHANGED <<start, top>>
         /\ Gives \/ Takes \/ UNCHANGED heap
<1>1. ASSUME NEW nbytes \in Request, malloc(nbytes)
      PROVE  HeapInv' /\ UNCHANGED <<start, top>> /\ Gives
  BY <1>1, MallocKeeps DEF malloc
<1>2. ASSUME NEW nbytes \in Request, malloc_morecore(nbytes)
      PROVE  HeapInv' /\ UNCHANGED <<start, top>> /\ Gives
  BY <1>2, MorecoreKeeps DEF malloc_morecore
<1>3. ASSUME NEW nbytes \in Request, malloc_fails(nbytes)
      PROVE  HeapInv' /\ UNCHANGED <<start, top>> /\ UNCHANGED heap
  BY <1>3 DEF malloc_fails, heap, HeapInv, Roomy, Used
<1>4. ASSUME NEW bp \in Used, free(bp)
      PROVE  HeapInv' /\ UNCHANGED <<start, top>> /\ Takes
  BY <1>4, FreeKeeps DEF free
<1> QED BY <1>1, <1>2, <1>3, <1>4 DEF HeapNext

-----------------------------------------------------------------------------
\* The invariant implies what the runs check of the heap.
LEMMA HeapInvSuffices ==
  ASSUME HeapInv
  PROVE  HeapSound
<1>1. /\ Ordered(list) /\ Shape(list) /\ BlocksApart(list) /\ Within(list, start, bss)
      /\ Filled(list, start, bss) /\ JoinedBut(list, {})
      /\ start \in Int /\ bss \in Int /\ InUse(list) = Used
  BY DEF HeapInv, Sound
<1>2. ListInOrder
  BY <1>1 DEF ListInOrder, Ordered
<1>3. Joined
  BY <1>1 DEF Joined, JoinedBut
<1>4. Header(list) = Node(list) \cup Used /\ Node(list) \cap Used = {}
  BY <1>1 DEF InUse, Shape
<1>5. \A b \in Header(list) \ {base} :
        b \in Int /\ list.size[b] \in Nat \ {0} /\ start <= b /\ b + list.size[b] <= bss
  BY <1>1 DEF Shape, Within
<1>6. \A b, c \in Header(list) \ {base} : b # c => Unit(b) \cap Unit(c) = {}
  BY <1>1, <1>5 DEF BlocksApart, Unit
<1>7. UNION {Unit(b) : b \in Header(list) \ {base}} = start .. bss - 1
  <2>1. ASSUME NEW b \in Header(list) \ {base}, NEW x \in Unit(b)
        PROVE  x \in start .. bss - 1
    BY <1>1, <1>5 DEF Unit
  <2>2. ASSUME NEW x \in start .. bss - 1
        PROVE  \E b \in Header(list) \ {base} : x \in Unit(b)
    <3>1. PICK b \in Header(list) \ {base} : b <= x /\ x < b + list.size[b]
      BY <1>1 DEF Filled
    <3>2. x \in Unit(b)
      BY <1>1, <1>5, <3>1 DEF Unit
    <3> QED BY <3>2
  <2> QED BY <2>1, <2>2
<1>8. Tiled
  BY <1>4, <1>6, <1>7 DEF Tiled
<1>9. /\ list.freep \in Node(list) /\ base \in Node(list) /\ list.size[base] = 0
      /\ \A b \in Header(list) \ {base} : list.size[b] > 0
  BY <1>1, <1>5 DEF Shape
<1>10. Roomy
  BY DEF HeapInv
<1> QED BY <1>2, <1>3, <1>8, <1>9, <1>10 DEF HeapSound

\* No block has been given out yet.
Unused ==
  /\ list = EmptyList /\ Used = {}
  /\ start \in Int /\ bss = start

\* The list as the first call of malloc makes it is sound.
LEMMA UnusedSound ==
  ASSUME Unused
  PROVE  HeapSound
<1>1. /\ Node(list) = {base} /\ Header(list) = {base} /\ list.ptr[base] = base
      /\ list.size[base] = 0 /\ list.freep = base /\ base \in Int
  BY MallocAssumption DEF Unused, EmptyList, Node, Header
<1>2. ListInOrder /\ Joined
  BY <1>1 DEF ListInOrder, Joined
<1>3. start .. bss - 1 = {}
  BY DEF Unused
<1>4. Tiled
  BY <1>1, <1>3 DEF Tiled, Unused
<1> QED BY <1>1, <1>2, <1>4 DEF HeapSound, Roomy, Unused

\* An unused heap is as malloc expects it.
LEMMA UnusedInv ==
  ASSUME Unused, top \in Int, start <= top, base # start
  PROVE  HeapInv
<1>1. /\ Node(list) = {base} /\ Header(list) = {base} /\ list.ptr[base] = base
      /\ list.size[base] = 0 /\ list.freep = base /\ base \in Int
  BY MallocAssumption DEF Unused, EmptyList, Node, Header
<1>2. Ordered(list) /\ Shape(list) /\ BlocksApart(list) /\ Within(list, start, bss)
  BY <1>1 DEF Ordered, Shape, BlocksApart, Within
<1>3. Filled(list, start, bss) /\ JoinedBut(list, {}) /\ InUse(list) = Used
  BY <1>1 DEF Filled, JoinedBut, InUse, Unused
<1>4. start \in Int /\ bss = start /\ base \notin start .. bss
  BY <1>1 DEF Unused
<1> QED BY <1>2, <1>3, <1>4 DEF HeapInv, Sound, Roomy, Unused

\* The same, of the next state.
LEMMA UnusedInvNext == (Unused /\ top \in Int /\ start <= top /\ base # start => HeapInv)'
<1>1. Unused /\ top \in Int /\ start <= top /\ base # start => HeapInv
  BY UnusedInv
<1> QED BY <1>1, PTL

-----------------------------------------------------------------------------
(***************************************************************************)
(* The whole: the loops, then main, then malloc, free and sos_malloc.      *)
(***************************************************************************)
\* The list's own block, a variable of the server's image, is not in the heap.
BaseOutside == up = "yes" => base \notin start .. top

Begun ==
  /\ up \in {"no", "yes", "failed"}
  /\ up # "no" => loop = "done"
  /\ up # "yes" => Unused
  /\ up = "no" => areas = {}

HeapPlaced ==
  up = "yes" =>
    /\ start = mem_bot /\ top = mem_bot + HEAP_SIZE
    /\ frames.low = top
    /\ BaseOutside => HeapInv

Inv == BootInv /\ Begun /\ HeapPlaced

\* The invariant holds when the server starts.
LEMMA InitInv == InitMemory => Inv
<1> SUFFICES ASSUME InitMemory PROVE Inv
  OBVIOUS
<1>1. BootInv
  BY MapsAssumption
     DEF InitMemory, Init, BootInv, TypeOK, InsideConventional, AreasRemoved, Removed
<1>2. Unused
  BY DEF InitMemory, NoHeap, Unused, Used
<1> QED BY <1>1, <1>2 DEF Inv, Begun, HeapPlaced, InitMemory

\* Every step of the boot and of the allocators keeps the invariant.
LEMMA NextInv ==
  ASSUME Inv, [NextMemory]_allVars
  PROVE  Inv'
<1>1. CASE Next /\ UNCHANGED <<heap, driver, frames, up>>
  <2>1. UNCHANGED <<list, held, start, bss, top, areas, frames, up>>
    BY <1>1 DEF heap, driver
  <2>2. BootInv'
    BY <1>1, BootStep DEF Inv
  <2>3. loop # "done"
    BY <1>1 DEF Next, find, remove, EndLoop
  <2>4. up = "no" /\ Unused'
    BY <2>1, <2>3 DEF Inv, Begun, Unused, Used
  <2>5. Begun' /\ HeapPlaced'
    BY <2>1, <2>4 DEF Inv, Begun, HeapPlaced
  <2> QED BY <2>2, <2>5 DEF Inv
<1>2. CASE main
  <2>1. /\ loop = "done" /\ up = "no" /\ UNCHANGED <<vars, areas, list, held>>
        /\ start' = mem_bot /\ bss' = mem_bot /\ top' = mem_bot + HEAP_SIZE
        /\ up' \in {"yes", "failed"}
        /\ frames' = [low |-> mem_bot + HEAP_SIZE, high |-> (mem_top - ONE_MEG) % WORD]
    BY <1>2 DEF main, malloc_init, FramesAbove
  <2>2. UNCHANGED <<memory, loop, i, mem_bot, mem_top>>
    BY <2>1 DEF vars
  <2>3. BootInv'
    BY <2>2 DEF Inv, BootInv, TypeOK, InsideConventional, AreasRemoved, Removed
  <2>4. mem_bot \in Nat /\ HEAP_SIZE \in Nat
    BY DivisionAssumption DEF Inv, BootInv, TypeOK
  <2>5. Unused'
    BY <2>1, <2>4 DEF Inv, Begun, Unused, Used, EmptyList
  <2>6. Begun'
    BY <2>1, <2>2, <2>5 DEF Begun
  <2>7. HeapPlaced'
    <3> SUFFICES ASSUME up' = "yes"
                 PROVE  /\ start' = mem_bot' /\ top' = mem_bot' + HEAP_SIZE
                        /\ frames'.low = top'
                        /\ BaseOutside' => HeapInv'
      BY DEF HeapPlaced
    <3>1. ASSUME BaseOutside' PROVE HeapInv'
      <4>1. base \notin start' .. top'
        BY <3>1 DEF BaseOutside
      <4>2. top' \in Int /\ start' <= top' /\ base # start'
        BY <2>1, <2>4, <4>1
      <4> QED BY <2>5, <4>2, UnusedInvNext
    <3> QED BY <2>1, <2>2, <3>1
  <2> QED BY <2>3, <2>6, <2>7 DEF Inv
<1>3. CASE up = "yes" /\ HeapNext /\ UNCHANGED <<vars, driver, frames, up>>
  <2>1. UNCHANGED <<memory, loop, i, mem_bot, mem_top, areas, frames, up>>
    BY <1>3 DEF vars, driver
  <2>2. BootInv'
    BY <2>1 DEF Inv, BootInv, TypeOK, InsideConventional, AreasRemoved, Removed
  <2>3. Begun'
    BY <1>3, <2>1 DEF Inv, Begun
  <2>4. UNCHANGED <<start, top>>
    BY <1>3 DEF HeapNext, malloc, malloc_morecore, malloc_fails, free, heap
  <2>5. BaseOutside' => HeapInv'
    <3> SUFFICES ASSUME BaseOutside' PROVE HeapInv'
      OBVIOUS
    <3>1. base \notin start .. top /\ HeapInv
      BY <1>3, <2>1, <2>4 DEF BaseOutside, Inv, HeapPlaced
    <3> QED BY <1>3, <3>1, HeapStep
  <2>6. HeapPlaced'
    BY <1>3, <2>1, <2>4, <2>5 DEF Inv, HeapPlaced
  <2> QED BY <2>2, <2>3, <2>6 DEF Inv
<1>4. ASSUME NEW size \in DriverSize, sos_malloc(size) PROVE Inv'
  <2>1. /\ up = "yes"
        /\ UNCHANGED <<memory, loop, i, mem_bot, mem_top, list, held, start, bss, top, frames, up>>
    BY <1>4 DEF sos_malloc, vars, heap
  <2>2. BootInv'
    BY <2>1 DEF Inv, BootInv, TypeOK, InsideConventional, AreasRemoved, Removed
  <2>3. HeapInv => HeapInv'
    BY <2>1 DEF HeapInv, Roomy, Used
  <2>4. BaseOutside' => BaseOutside
    BY <2>1 DEF BaseOutside
  <2>5. Begun' /\ HeapPlaced'
    BY <2>1, <2>3, <2>4 DEF Inv, Begun, HeapPlaced
  <2> QED BY <2>2, <2>5 DEF Inv
<1>5. CASE UNCHANGED allVars
  <2>1. /\ UNCHANGED <<memory, loop, i, mem_bot, mem_top, list, held, start, bss, top>>
        /\ UNCHANGED <<frames, up, areas>>
    BY <1>5 DEF allVars, vars, heap, driver
  <2>2. BootInv'
    BY <2>1 DEF Inv, BootInv, TypeOK, InsideConventional, AreasRemoved, Removed
  <2>3. HeapInv => HeapInv'
    BY <2>1 DEF HeapInv, Roomy, Used
  <2>4. BaseOutside' => BaseOutside
    BY <2>1 DEF BaseOutside
  <2>5. Unused => Unused'
    BY <2>1 DEF Unused, Used
  <2>6. Begun' /\ HeapPlaced'
    BY <2>1, <2>3, <2>4, <2>5 DEF Inv, Begun, HeapPlaced
  <2> QED BY <2>2, <2>6 DEF Inv
<1> QED BY <1>1, <1>2, <1>3, <1>4, <1>5 DEF NextMemory

\* The invariant holds always.
LEMMA InvAlways == SpecMemory => []Inv
<1>1. Inv /\ [NextMemory]_allVars => Inv'
  BY NextInv
<1> QED BY <1>1, InitInv, PTL DEF SpecMemory

\* sos_find_memory gives the frame table memory inside one conventional block, and it
\* stays there while main, malloc and sos_malloc use it.
THEOREM RangeInsideConventional == SpecMemory => []InsideConventional
<1>1. Inv => InsideConventional
  BY DEF Inv, BootInv
<1> QED BY <1>1, InvAlways, PTL

\* sos_find_memory removes every other area from that memory, in whatever order and
\* overlap they come, unless one covers all of it.
THEOREM RangeWithoutAreas == SpecMemory => []AreasRemoved
<1>1. Inv => AreasRemoved
  BY DEF Inv, BootInv
<1> QED BY <1>1, InvAlways, PTL

\* Through any sequence of malloc, free and morecore, the list of free blocks is in
\* order and joined, and with the blocks in use it is all of the heap given out, each
\* with room for its request; as long as the list's own block is not in the heap.
THEOREM HeapStaysSound == SpecMemory => [](BaseOutside => HeapSound)
<1>1. Inv => (BaseOutside => HeapSound)
  BY HeapInvSuffices, UnusedSound DEF Inv, Begun, HeapPlaced
<1> QED BY <1>1, InvAlways, PTL

-----------------------------------------------------------------------------
(***************************************************************************)
(* malloc and free implement Heap.                                         *)
(***************************************************************************)
\* A successful malloc is a step of the abstract heap.
LEMMA GivesIsMalloc ==
  ASSUME HeapInv, HeapInv', Gives, UNCHANGED <<start, top>>
  PROVE  Abstract!Malloc
<1> DEFINE B == {[at |-> b, units |-> list.size[b]] : b \in DOMAIN held}
           C == {[at |-> b, units |-> list'.size[b]] : b \in DOMAIN held'}
<1>1. PICK at : /\ at \notin Used /\ Used' = Used \cup {at} /\ list'.size[at] \in Nat \ {0}
                /\ \A u \in Used : list'.size[u] = list.size[u]
  BY DEF Gives
<1> DEFINE new == [at |-> at, units |-> list'.size[at]]
<1>2. C = B \cup {new} /\ new \notin B
  BY <1>1 DEF Used
<1>3. /\ start' = start /\ top' = top /\ bss' <= top /\ bss' \in Int /\ top \in Int /\ start \in Int
      /\ BlocksApart(list') /\ Within(list', start, bss') /\ Shape(list')
      /\ InUse(list') = Used'
  BY DEF HeapInv, Sound
<1>4. \A u \in Used' : u \in Header(list') \ {base} /\ u \in Int /\ list'.size[u] \in Nat
  BY <1>3 DEF InUse, Shape
<1>5. start <= at /\ at + list'.size[at] <= top /\ list'.size[at] > 0
  <2>1. start <= at /\ at + list'.size[at] <= bss' /\ at \in Int
    BY <1>1, <1>3, <1>4 DEF Within
  <2> QED BY <1>1, <1>3, <2>1
<1>6. \A c \in B : at + list'.size[at] <= c.at \/ c.at + c.units <= at
  <2> SUFFICES ASSUME NEW u \in Used
               PROVE  at + list'.size[at] <= u \/ u + list.size[u] <= at
    BY DEF Used
  <2> QED BY <1>1, <1>3, <1>4 DEF BlocksApart
<1>7. /\ \E b \in C \ B :
           /\ C = B \cup {b}
           /\ b.units > 0 /\ start <= b.at /\ b.at + b.units <= top
           /\ \A c \in B : b.at + b.units <= c.at \/ c.at + c.units <= b.at
      /\ [low |-> start', high |-> top'] = [low |-> start, high |-> top]
  <2>1. new \in C \ B /\ new.at = at /\ new.units = list'.size[at]
    BY <1>2
  <2> HIDE DEF new, B, C
  <2> QED BY <1>2, <1>3, <1>5, <1>6, <2>1
<1> QED BY <1>7 DEF Abstract!Malloc, Abstract!Inside, Abstract!Apart

\* A free is a step of the abstract heap.
LEMMA TakesIsFree ==
  ASSUME Takes, UNCHANGED <<start, top>>
  PROVE  Abstract!Free
<1> DEFINE B == {[at |-> b, units |-> list.size[b]] : b \in DOMAIN held}
           C == {[at |-> b, units |-> list'.size[b]] : b \in DOMAIN held'}
<1>1. PICK bp \in Used : /\ Used' = Used \ {bp}
                         /\ \A u \in Used' : list'.size[u] = list.size[u]
  BY DEF Takes
<1> DEFINE old == [at |-> bp, units |-> list.size[bp]]
<1>2. old \in B
  BY DEF Used
<1>3. C = B \ {old}
  BY <1>1 DEF Used
<1>4. /\ \E b \in B : C = B \ {b}
      /\ [low |-> start', high |-> top'] = [low |-> start, high |-> top]
  BY <1>2, <1>3
<1> QED BY <1>4 DEF Abstract!Free

\* What malloc returns lies in the heap and apart from everything that has not been
\* freed, and free gives back one block and nothing else; as long as the list's own
\* block is not in the heap.
THEOREM MallocImplementsHeap == SpecMemory /\ []BaseOutside => ImplementsHeap
<1>1. InitMemory => Abstract!Init
  BY DEF InitMemory, NoHeap, Abstract!Init
<1>2. Inv /\ Inv' /\ BaseOutside /\ BaseOutside' /\ [NextMemory]_allVars =>
        [Abstract!Next]_<<{[at |-> b, units |-> list.size[b]] : b \in DOMAIN held},
                          [low |-> start, high |-> top]>>
  <2> SUFFICES ASSUME Inv, Inv', BaseOutside, BaseOutside', [NextMemory]_allVars
               PROVE  \/ Abstract!Start \/ Abstract!Malloc \/ Abstract!Free
                      \/ UNCHANGED heap
    BY DEF Abstract!Next, heap
  <2>1. CASE Next /\ UNCHANGED <<heap, driver, frames, up>>
    BY <2>1
  <2>2. CASE main
    <3>1. DOMAIN held = {} /\ held' = held /\ list' = list
      BY <2>2 DEF main, malloc_init, Inv, Begun, Unused, Used
    <3> QED BY <3>1 DEF Abstract!Start
  <2>3. CASE up = "yes" /\ HeapNext /\ UNCHANGED <<vars, driver, frames, up>>
    <3>1. HeapInv /\ base \notin start .. top
      BY <2>3 DEF Inv, HeapPlaced, BaseOutside
    <3>2. HeapInv' /\ UNCHANGED <<start, top>> /\ (Gives \/ Takes \/ UNCHANGED heap)
      BY <2>3, <3>1, HeapStep
    <3> QED BY <3>1, <3>2, GivesIsMalloc, TakesIsFree
  <2>4. CASE \E size \in DriverSize : sos_malloc(size)
    BY <2>4 DEF sos_malloc
  <2>5. CASE UNCHANGED allVars
    BY <2>5 DEF allVars
  <2> QED BY <2>1, <2>2, <2>3, <2>4, <2>5 DEF NextMemory
<1> QED BY <1>1, <1>2, InvAlways, PTL DEF SpecMemory, ImplementsHeap, Abstract!Spec

-----------------------------------------------------------------------------
(***************************************************************************)
(* The division of the memory.                                             *)
(***************************************************************************)
\* No block of conventional memory ends so high that an address computed from it,
\* within one request of the driver, does not fit in a machine word.
NoWrap ==
  \A m \in Maps : \A n \in 1 .. Len(m) : m[n].type = "conventional" =>
    m[n].high <= WORD /\ \A size \in DriverSize : m[n].high + size <= WORD

MapKept == memory \in Maps

\* sos_malloc gives out the megabyte from below.
DriverInv ==
  up = "yes" /\ mem_top >= ONE_MEG =>
    /\ frames.high = mem_top - ONE_MEG
    /\ sSosMemoryTop = mem_top
    /\ sSosMemoryBot \in Nat /\ frames.high <= sSosMemoryBot /\ sSosMemoryBot < mem_top
    /\ \A a \in areas : /\ a.low \in Nat /\ a.high \in Nat
                        /\ frames.high <= a.low /\ a.low <= a.high /\ a.high <= sSosMemoryBot
    /\ \A a, b \in areas : a # b => a.high <= b.low \/ b.high <= a.low

\* The range chosen ends below the last address of the machine.
LEMMA TopInWord ==
  ASSUME NoWrap, Inv, MapKept, mem_top >= ONE_MEG
  PROVE  /\ mem_top \in Nat /\ mem_top <= WORD
         /\ \A size \in DriverSize : mem_top + size <= WORD
<1>1. mem_top \in Nat /\ mem_top # 0 /\ ONE_MEG \in Nat \ {0} /\ WORD \in Nat /\ DriverSize \subseteq Nat
  BY DivisionAssumption DEF Inv, BootInv, TypeOK
<1>2. PICK n \in 1 .. Len(memory) : memory[n].type = "conventional" /\ mem_top <= memory[n].high
  BY <1>1 DEF Inv, BootInv, InsideConventional
<1>3. memory[n].high \in Nat
  BY DescOfMemory DEF Inv, BootInv, TypeOK
<1>4. memory[n].high <= WORD /\ \A size \in DriverSize : memory[n].high + size <= WORD
  BY <1>2 DEF NoWrap, MapKept
<1> QED BY <1>1, <1>2, <1>3, <1>4

\* Arithmetic modulo a word does not change what fits in a word.
LEMMA SmallModulo ==
  ASSUME NEW w \in Nat \ {0}, NEW x \in Nat, x < w
  PROVE  x % w = x
OBVIOUS

\* Every step keeps the driver's areas apart and in the megabyte at the top.
LEMMA DriverStep ==
  ASSUME NoWrap, Inv, Inv', MapKept, DriverInv, [NextMemory]_allVars
  PROVE  MapKept' /\ DriverInv'
<1>1. WORD \in Nat \ {0} /\ ONE_MEG \in Nat \ {0} /\ DriverSize \subseteq Nat
  BY DivisionAssumption
<1>2. MapKept'
  BY DEF NextMemory, Next, find, remove, EndLoop, main, sos_malloc, allVars, vars, MapKept
<1>3. CASE Next /\ UNCHANGED <<heap, driver, frames, up>>
  <2>1. loop # "done" /\ up' = up
    BY <1>3 DEF Next, find, remove, EndLoop
  <2> QED BY <1>2, <2>1 DEF Inv, Begun, DriverInv
<1>4. CASE main
  <2> SUFFICES ASSUME mem_top >= ONE_MEG
               PROVE  /\ frames'.high = mem_top - ONE_MEG
                      /\ sSosMemoryTop' = mem_top
                      /\ sSosMemoryBot' \in Nat /\ frames'.high <= sSosMemoryBot'
                      /\ sSosMemoryBot' < mem_top
                      /\ areas' = {} /\ mem_top' = mem_top
    BY <1>2, <1>4 DEF main, vars, DriverInv
  <2>1. mem_top \in Nat /\ mem_top <= WORD
    BY TopInWord
  <2>2. (mem_top - ONE_MEG) % WORD = mem_top - ONE_MEG
    BY <1>1, <2>1, SmallModulo
  <2>3. /\ frames'.high = mem_top - ONE_MEG /\ sSosMemoryBot' = mem_top - ONE_MEG
        /\ sSosMemoryTop' = mem_top
    BY <1>4, <2>2 DEF main, FramesAbove
  <2>4. areas' = {} /\ mem_top' = mem_top
    BY <1>4 DEF main, vars, Inv, Begun
  <2> QED BY <1>1, <2>1, <2>3, <2>4
<1>5. CASE up = "yes" /\ HeapNext /\ UNCHANGED <<vars, driver, frames, up>>
  BY <1>2, <1>5 DEF vars, driver, DriverInv
<1>6. ASSUME NEW size \in DriverSize, sos_malloc(size) PROVE DriverInv'
  <2> SUFFICES ASSUME mem_top >= ONE_MEG
               PROVE  DriverInv'
    BY <1>6 DEF sos_malloc, vars, DriverInv
  <2> DEFINE new == [low |-> sSosMemoryBot, high |-> sSosMemoryBot + size]
  <2>1. /\ up = "yes" /\ UNCHANGED <<mem_top, sSosMemoryTop, frames, up>>
        /\ areas' = areas \cup {new}
        /\ sSosMemoryBot' = (sSosMemoryBot + size) % WORD
        /\ (sSosMemoryBot + size) % WORD < sSosMemoryTop
    BY <1>6 DEF sos_malloc, vars, Fits
  <2>2. /\ mem_top \in Nat /\ mem_top <= WORD /\ mem_top + size <= WORD /\ size \in Nat
    BY <1>1, TopInWord
  <2>3. /\ frames.high = mem_top - ONE_MEG
        /\ sSosMemoryTop = mem_top
        /\ sSosMemoryBot \in Nat /\ frames.high <= sSosMemoryBot /\ sSosMemoryBot < mem_top
        /\ \A a \in areas : /\ a.low \in Nat /\ a.high \in Nat
                            /\ frames.high <= a.low /\ a.low <= a.high /\ a.high <= sSosMemoryBot
        /\ \A a, b \in areas : a # b => a.high <= b.low \/ b.high <= a.low
    BY <2>1 DEF DriverInv
  <2>4. (sSosMemoryBot + size) % WORD = sSosMemoryBot + size
    <3>1. sSosMemoryBot + size \in Nat /\ sSosMemoryBot + size < WORD
      BY <1>1, <2>2, <2>3
    <3> QED BY <1>1, <3>1, SmallModulo
  <2>5. new.low = sSosMemoryBot /\ new.high = sSosMemoryBot + size
    OBVIOUS
  <2> HIDE DEF new
  <2>6. /\ sSosMemoryBot' = sSosMemoryBot + size /\ sSosMemoryBot' \in Nat
        /\ sSosMemoryBot' < mem_top /\ sSosMemoryBot <= sSosMemoryBot'
        /\ frames.high \in Int /\ frames.high <= sSosMemoryBot'
    BY <1>1, <2>1, <2>2, <2>3, <2>4
  <2>7. \A a \in areas \cup {new} :
          /\ a.low \in Nat /\ a.high \in Nat
          /\ frames.high <= a.low /\ a.low <= a.high /\ a.high <= sSosMemoryBot'
    BY <2>2, <2>3, <2>5, <2>6
  <2>8. \A a, b \in areas \cup {new} : a # b => a.high <= b.low \/ b.high <= a.low
    BY <2>3, <2>5
  <2> QED BY <2>1, <2>3, <2>6, <2>7, <2>8 DEF DriverInv
<1>7. CASE UNCHANGED allVars
  BY <1>2, <1>7 DEF allVars, vars, driver, DriverInv
<1> QED BY <1>2, <1>3, <1>4, <1>5, <1>6, <1>7 DEF NextMemory

\* The heap, the frames and the driver's areas are parts of the range chosen, and no
\* two of them overlap, where no address wraps and the list's own block is not in the
\* heap.
THEOREM PartsDoNotOverlap ==
  ASSUME NoWrap
  PROVE  SpecMemory => [](BaseOutside => MemoryDivided)
<1>1. InitMemory => MapKept /\ DriverInv
  BY DEF InitMemory, Init, MapKept, DriverInv
<1>2. Inv /\ Inv' /\ MapKept /\ DriverInv /\ [NextMemory]_allVars => MapKept' /\ DriverInv'
  BY DriverStep
<1>3. Inv /\ DriverInv => (BaseOutside => MemoryDivided)
  <2> SUFFICES ASSUME Inv, DriverInv, BaseOutside, up = "yes", mem_top >= ONE_MEG
               PROVE  /\ mem_bot <= start /\ bss <= frames.low
                      /\ \A b \in Used : mem_bot <= b /\ b + list.size[b] <= frames.low
                      /\ \A a \in areas : frames.high <= a.low /\ a.high <= mem_top
                      /\ \A a, b \in areas : a # b => a.high <= b.low \/ b.high <= a.low
    BY DEF MemoryDivided, Used
  <2>1. /\ start = mem_bot /\ frames.low = top /\ HeapInv
        /\ mem_bot \in Nat /\ mem_top \in Nat
    BY DEF Inv, HeapPlaced, BootInv, TypeOK
  <2>2. /\ start \in Int /\ bss \in Int /\ top \in Int /\ bss <= top
        /\ Within(list, start, bss) /\ Shape(list) /\ InUse(list) = Used
    BY <2>1 DEF HeapInv, Sound
  <2>3. \A b \in Used : /\ b \in Int /\ list.size[b] \in Nat
                       /\ start <= b /\ b + list.size[b] <= bss
    BY <2>2 DEF InUse, Shape, Within
  <2>4. \A b \in Used : mem_bot <= b /\ b + list.size[b] <= frames.low
    BY <2>1, <2>2, <2>3
  <2>5. \A a \in areas : frames.high <= a.low /\ a.high <= mem_top
    BY <2>1 DEF DriverInv
  <2>6. \A a, b \in areas : a # b => a.high <= b.low \/ b.high <= a.low
    BY DEF DriverInv
  <2> QED BY <2>1, <2>2, <2>4, <2>5, <2>6
<1> QED BY <1>1, <1>2, <1>3, InvAlways, PTL DEF SpecMemory

-----------------------------------------------------------------------------
(***************************************************************************)
(* The frame table.                                                        *)
(***************************************************************************)
\* NoFrameLost keeps the stack inside its array, BitsMatchHolders keeps frames that
\* are on the stack from being pushed again.
FramesInv == FramesTypeOK /\ NoFrameTwice /\ BitsMatchHolders /\ NoFrameLost

\* Every frame has a bit of its own, within the chars malloc'ed for the bitfield.
LEMMA BitOfFrame ==
  /\ \A f \in Frame : f \div BITS_PER_CHAR \in Chars /\ f % BITS_PER_CHAR \in 0 .. BITS_PER_CHAR - 1
  /\ \A f, g \in Frame : f \div BITS_PER_CHAR = g \div BITS_PER_CHAR /\ f % BITS_PER_CHAR = g % BITS_PER_CHAR => f = g
<1> DEFINE B == BITS_PER_CHAR
<1>1. B \in Nat /\ B > 0 /\ frame_count \in Nat /\ frame_count > 0
  BY FramesAssumption
<1> HIDE DEF B
<1>2. /\ \A f \in Nat : f \div B \in Nat /\ f % B \in 0 .. B - 1
      /\ \A f, g \in Nat : f \div B = g \div B /\ f % B = g % B => f = g
  BY <1>1
<1>3. \A f, g \in Nat : f <= g => f \div B <= g \div B
  BY <1>1
<1>4. \A f \in Frame : f \in Nat /\ f <= frame_count
  BY <1>1 DEF Frame
<1>5. \A f \in Frame : f \div B \in Chars
  BY <1>1, <1>2, <1>3, <1>4 DEF Chars, B
<1> QED BY <1>2, <1>4, <1>5 DEF B

\* bitfield_set changes the bit of its frame only
LEMMA BitfieldSet ==
  ASSUME FramesInv, NEW frame \in Frame, NEW bit \in BOOLEAN, bitfield_set(frame, bit)
  PROVE  /\ bitfield' \in [Chars -> SUBSET (0 .. BITS_PER_CHAR - 1)]
         /\ \A g \in Frame : bitfield_get(g)' <=> IF g = frame THEN bit ELSE bitfield_get(g)
<1> DEFINE c(g) == g \div BITS_PER_CHAR
           b(g) == g % BITS_PER_CHAR
<1>1. /\ \A f \in Frame : c(f) \in Chars /\ b(f) \in 0 .. BITS_PER_CHAR - 1
      /\ \A f, g \in Frame : c(f) = c(g) /\ b(f) = b(g) => f = g
  BY BitOfFrame
<1>2. bitfield' = [bitfield EXCEPT ![c(frame)] = IF bit THEN @ \cup {b(frame)} ELSE @ \ {b(frame)}]
  BY DEF bitfield_set
<1>3. \A g \in Frame : bitfield_get(g) <=> b(g) \in bitfield[c(g)]
  BY DEF bitfield_get
<1>4. \A g \in Frame : bitfield_get(g)' <=> b(g) \in bitfield'[c(g)]
  BY DEF bitfield_get
<1>5. bitfield \in [Chars -> SUBSET (0 .. BITS_PER_CHAR - 1)]
  BY DEF FramesInv, FramesTypeOK
<1> HIDE DEF c, b
<1>6. bitfield' \in [Chars -> SUBSET (0 .. BITS_PER_CHAR - 1)]
  BY <1>1, <1>2, <1>5
<1>7. \A g \in Frame : bitfield_get(g)' <=> IF g = frame THEN bit ELSE bitfield_get(g)
  BY <1>1, <1>2, <1>3, <1>4, <1>5
<1> QED BY <1>6, <1>7

\* Frames are the numbers below frame_count, and the limit is at most that.
LEMMA FramesAreNumbers ==
  /\ Frame \subseteq Nat /\ \A k \in Nat : k < frame_count => k \in Frame
  /\ IsFiniteSet(Frame) /\ frame_count \in Nat /\ limit \in Nat /\ limit <= frame_count /\ limit > 0
<1>1. frame_count \in Nat /\ frame_count > 0 /\ limit \in Nat /\ limit <= frame_count /\ limit > 0
  BY FramesAssumption
<1>2. IsFiniteSet(0 .. frame_count - 1)
  BY <1>1, FS_Interval
<1> QED BY <1>1, <1>2 DEF Frame

\* The invariant holds after frame_init.
LEMMA FramesInitInv == frame_init => FramesInv
<1> SUFFICES ASSUME frame_init PROVE FramesInv
  OBVIOUS
<1>1. FramesTypeOK
  BY FramesAreNumbers DEF frame_init, FramesTypeOK, Frame
<1>2. NoFrameTwice
  BY FramesAreNumbers DEF frame_init, NoFrameTwice, Stacked, Frame
<1>3. BitsMatchHolders
  BY BitOfFrame DEF frame_init, BitsMatchHolders, bitfield_get
<1>4. NoFrameLost
  BY FS_EmptySet, FramesAreNumbers DEF frame_init, NoFrameLost
<1> QED BY <1>1, <1>2, <1>3, <1>4 DEF FramesInv

\* frame_alloc moves the top of the stack to its client
LEMMA FrameAllocInv ==
  ASSUME FramesInv, frame_alloc
  PROVE  /\ FramesInv'
         /\ stack[stack_count - 1] \in Frame
         /\ Pool!Alloc(stack[stack_count - 1])
<1> DEFINE f == stack[stack_count - 1]
<1>1. /\ stack_count \in Nat /\ stack_count >= 1 /\ stack_count <= frame_count
      /\ stack \in [Frame -> Frame] /\ handed_out \subseteq Frame
  BY FramesAreNumbers DEF FramesInv, FramesTypeOK, frame_alloc
<1>2. stack_count - 1 \in Frame /\ f \in Frame
  BY <1>1, FramesAreNumbers
<1>3. /\ stack_count' = stack_count - 1 /\ stack' = stack /\ handed_out' = handed_out \cup {f}
      /\ bitfield_set(f, TRUE)
  BY DEF frame_alloc
<1>4. \A k \in 0 .. stack_count - 1 : k \in Frame /\ stack[k] \in Frame
  BY <1>1, FramesAreNumbers
<1>5. f \in Stacked /\ f \notin handed_out
  BY <1>1 DEF FramesInv, NoFrameTwice, Stacked
<1>6. \A k \in 0 .. stack_count - 2 : stack[k] # f
  BY <1>1 DEF FramesInv, NoFrameTwice
<1> HIDE DEF f
<1>b. bitfield' \in [Chars -> SUBSET (0 .. BITS_PER_CHAR - 1)]
  BY <1>2, <1>3, BitfieldSet
<1>7. FramesTypeOK'
  BY <1>1, <1>2, <1>3, <1>b, FramesAreNumbers DEF FramesTypeOK
<1>8. Stacked' = Stacked \ {f}
  <2>1. \A g : g \in Stacked <=> \E k \in 0 .. stack_count - 1 : g = stack[k]
    BY DEF Stacked
  <2>2. \A g : g \in Stacked' <=> \E k \in 0 .. stack_count - 2 : g = stack[k]
    BY <1>1, <1>3 DEF Stacked
  <2>3. \A k \in 0 .. stack_count - 1 : k \in 0 .. stack_count - 2 \/ stack[k] = f
    BY <1>1 DEF f
  <2>4. 0 .. stack_count - 2 \subseteq 0 .. stack_count - 1
    BY <1>1
  <2> QED BY <1>6, <2>1, <2>2, <2>3, <2>4
<1>9. NoFrameTwice'
  BY <1>1, <1>3, <1>8 DEF FramesInv, NoFrameTwice
<1>10. BitsMatchHolders'
  BY <1>2, <1>3, <1>5, BitfieldSet DEF FramesInv, BitsMatchHolders
<1>11. NoFrameLost'
  <2>1. IsFiniteSet(handed_out)
    BY <1>1, FramesAreNumbers, FS_Subset
  <2>2. Cardinality(handed_out') = Cardinality(handed_out) + 1 /\ Cardinality(handed_out) \in Nat
    BY <1>3, <1>5, <2>1, FS_AddElement, FS_CardinalityType
  <2> QED BY <1>1, <1>3, <2>2, FramesAreNumbers DEF FramesInv, NoFrameLost
<1>12. Pool!Alloc(f)
  BY <1>3, <1>5, <1>8 DEF Pool!Alloc
<1> QED BY <1>2, <1>7, <1>9, <1>10, <1>11, <1>12 DEF FramesInv, f

\* frame_free returns a frame to the stack, which has room for it
LEMMA FrameFreeInv ==
  ASSUME FramesInv, NEW f \in Frame, frame_free(f)
  PROVE  FramesInv' /\ Pool!Free(f)
<1>1. /\ stack_count \in Nat /\ stack_count <= frame_count
      /\ stack \in [Frame -> Frame] /\ handed_out \subseteq Frame
  BY FramesAreNumbers DEF FramesInv, FramesTypeOK
<1>2. /\ stack' = [stack EXCEPT ![stack_count] = f] /\ stack_count' = stack_count + 1
      /\ handed_out' = handed_out \ {f} /\ bitfield_set(f, FALSE) /\ bitfield_get(f)
  BY DEF frame_free, frame_stack_add
<1>3. f \in handed_out /\ f \notin Stacked
  BY <1>2 DEF FramesInv, BitsMatchHolders, NoFrameTwice
<1>4. IsFiniteSet(handed_out)
  BY <1>1, FramesAreNumbers, FS_Subset
<1>5. /\ Cardinality(handed_out') = Cardinality(handed_out) - 1
      /\ Cardinality(handed_out) \in Nat /\ Cardinality(handed_out) > 0
  BY <1>2, <1>3, <1>4, FS_RemoveElement, FS_CardinalityType, FS_EmptySet
<1>6. NoFrameLost' /\ stack_count < frame_count
  BY <1>1, <1>2, <1>5, FramesAreNumbers DEF FramesInv, NoFrameLost
<1>7. stack_count \in Frame
  BY <1>1, <1>6, FramesAreNumbers
<1>b. bitfield' \in [Chars -> SUBSET (0 .. BITS_PER_CHAR - 1)]
  BY <1>2, BitfieldSet
<1>8. FramesTypeOK'
  BY <1>1, <1>2, <1>6, <1>7, <1>b, FramesAreNumbers DEF FramesTypeOK
<1>9. /\ stack'[stack_count] = f
      /\ \A k \in 0 .. stack_count - 1 : k \in Frame /\ stack'[k] = stack[k]
  BY <1>1, <1>2, <1>7, FramesAreNumbers
<1>10. \A k \in 0 .. stack_count' - 1 : k \in 0 .. stack_count - 1 \/ k = stack_count
  BY <1>1, <1>2
<1>11. Stacked' = Stacked \cup {f}
  <2>1. \A g : g \in Stacked <=> \E k \in 0 .. stack_count - 1 : g = stack[k]
    BY DEF Stacked
  <2>2. \A g : g \in Stacked' <=> \E k \in 0 .. stack_count' - 1 : g = stack'[k]
    BY DEF Stacked
  <2>3. stack_count \in 0 .. stack_count' - 1 /\ 0 .. stack_count - 1 \subseteq 0 .. stack_count' - 1
    BY <1>1, <1>2
  <2> QED BY <1>9, <1>10, <2>1, <2>2, <2>3
<1>12. NoFrameTwice'
  <2>1. \A k \in 0 .. stack_count - 1 : stack[k] # f
    BY <1>3 DEF Stacked
  <2>2. \A k, j \in 0 .. stack_count' - 1 : stack'[k] = stack'[j] => k = j
    BY <1>9, <1>10, <2>1 DEF FramesInv, NoFrameTwice
  <2> QED BY <1>2, <1>11, <2>2 DEF FramesInv, NoFrameTwice
<1>13. BitsMatchHolders'
  BY <1>2, BitfieldSet DEF FramesInv, BitsMatchHolders
<1>14. Pool!Free(f)
  BY <1>2, <1>3, <1>11 DEF Pool!Free
<1> QED BY <1>6, <1>8, <1>12, <1>13, <1>14 DEF FramesInv

\* Every step keeps the invariant and maps to a step of FramePool or to none.
LEMMA FramesNextInv ==
  ASSUME FramesInv, [FramesNext]_framesVars
  PROVE  FramesInv' /\ (Pool!PoolNext \/ UNCHANGED <<Stacked, handed_out>>)
<1>1. CASE frame_alloc
  BY <1>1, FrameAllocInv DEF Pool!PoolNext
<1>2. ASSUME NEW f \in Frame, frame_free(f)
      PROVE  FramesInv' /\ (Pool!PoolNext \/ UNCHANGED <<Stacked, handed_out>>)
  BY <1>2, FrameFreeInv DEF Pool!PoolNext
<1>3. CASE UNCHANGED framesVars
  BY <1>3 DEF framesVars, FramesInv, FramesTypeOK, NoFrameTwice, Stacked, BitsMatchHolders, bitfield_get, NoFrameLost
<1> QED BY <1>1, <1>2, <1>3 DEF FramesNext, frame_free_warning

\* The invariant, from which the stack never overflows its array and no frame is
\* ever handed out twice.
THEOREM FrameTableSafety == FramesSpec => []FramesInv
BY FramesInitInv, FramesNextInv, PTL DEF FramesSpec

\* frame_alloc never hands out a frame in use.
THEOREM NoFrameHandedOutTwice == FramesSpec => []NoFrameTwice
<1>1. FramesInv => NoFrameTwice
  BY DEF FramesInv
<1> QED BY <1>1, FrameTableSafety, PTL

\* The stack and the bitfield together implement the pool of frames the pager
\* relies on.
THEOREM FrameTableImplementsPool == FramesSpec => ImplementsPool
<1>1. frame_init => Pool!PoolInit
  <2> SUFFICES ASSUME frame_init PROVE Pool!PoolInit
    OBVIOUS
  <2>1. \A k \in 0 .. stack_count - 1 : stack[k] \in Frame
    BY FramesInitInv, FramesAreNumbers DEF FramesInv, FramesTypeOK
  <2> QED BY <2>1 DEF frame_init, Pool!PoolInit, Stacked
<1>2. FramesInv /\ [FramesNext]_framesVars => [Pool!PoolNext]_(Pool!poolVars)
  BY FramesNextInv DEF Pool!poolVars
<1> QED BY <1>1, <1>2, FrameTableSafety, PTL DEF FramesSpec, ImplementsPool, Pool!PoolSpec
=============================================================================
