------------------------------- MODULE Malloc -------------------------------
(***************************************************************************)
(* malloc and free of the server's C library (src/libs/c/src/malloc.c,     *)
(* sys-l4_rootserver/sys_morecore.c): a circular list of free blocks in    *)
(* the order of their addresses, searched first fit from where the last    *)
(* search ended, joined with its neighbours when a block is freed.         *)
(*                                                                         *)
(* Addresses count units of sizeof(Header). An operation is one step: the  *)
(* library is built without THREAD_SAFE, and the model is of callers that  *)
(* do not interrupt one another.                                           *)
(***************************************************************************)
EXTENDS Integers, FiniteSets

CONSTANTS
  Request,   \* the sizes that are asked for, in bytes
  HEADER,    \* sizeof(Header), in bytes
  CHUNK,     \* NALLOC, in units: morecore takes multiples of it
  base       \* the address of the list's own, empty, block

ASSUME MallocAssumption ==
  /\ Request \subseteq Nat
  /\ {HEADER, CHUNK} \subseteq Nat \ {0}
  /\ base \in Int

VARIABLES
  list,      \* the free list: ptr of each free block, size of each block, freep
  held,      \* for each block in use, the bytes that were asked for
  start,     \* the beginning of the heap
  bss,       \* __malloc_bss: what morecore has not yet given out begins here
  top        \* __malloc_top, rounded up to a unit; it is one byte less

heap == <<list, held, start, bss, top>>

Node(l)   == DOMAIN l.ptr
Header(l) == DOMAIN l.size
Used      == DOMAIN held

-----------------------------------------------------------------------------
nunits(nbytes) == (nbytes + HEADER - 1) \div HEADER + 1

\* The search of malloc, from the block behind freep on, stops behind prevp.
FirstFit(l, prevp, n) ==
  LET visited[k \in Nat] == IF k = 0 THEN l.freep ELSE l.ptr[visited[k - 1]]
  IN  /\ l.size[l.ptr[prevp]] >= n
      /\ \E k \in 0 .. Cardinality(Node(l)) - 1 :
           /\ visited[k] = prevp
           /\ \A j \in 1 .. k : l.size[visited[j]] < n

\* The search has come around to freep.
NoFit(l, n) == \A p \in Node(l) : l.size[p] < n

\* What malloc leaves of the list when it takes n units of the block behind prevp:
\* all of it, or its tail end.
Whole(l, prevp, n) == l.size[l.ptr[prevp]] = n

\* Mutant: the block keeps its size.
RestUncut(l, p, n) == l.size[p]

Rest(l, p, n) == l.size[p] - n

Block(l, prevp, n) ==
  LET p == l.ptr[prevp]
  IN  IF Whole(l, prevp, n) THEN p ELSE p + (l.size[p] - n)

Carved(l, prevp, n) ==
  LET p  == l.ptr[prevp]
      at == Block(l, prevp, n)
  IN  IF Whole(l, prevp, n)
      THEN [ptr   |-> [q \in Node(l) \ {p} |-> IF q = prevp THEN l.ptr[p] ELSE l.ptr[q]],
            size  |-> l.size,
            freep |-> prevp]
      ELSE [ptr   |-> l.ptr,
            size  |-> [q \in Header(l) \cup {at} |->
                         IF q = at THEN n ELSE IF q = p THEN Rest(l, p, n) ELSE l.size[q]],
            freep |-> prevp]

-----------------------------------------------------------------------------
\* Where the loop of free stops: p and the block behind it enclose bp, or bp is at
\* the start or the end of the arena. There is one such p at most.
StopsAt(l, p, bp) ==
  \/ p < bp /\ bp < l.ptr[p]
  \/ p >= l.ptr[p] /\ (p < bp \/ bp < l.ptr[p])

JoinsUpper(l, p, bp) == bp + l.size[bp] = l.ptr[p]

\* Mutant: a block is never joined to the one below.
NeverLower(l, p, bp) == FALSE

JoinsLower(l, p, bp) == p + l.size[p] = bp

\* The list after free has put bp behind p.
Inserted(l, p, bp) ==
  LET next  == l.ptr[p]
      up    == JoinsUpper(l, p, bp)
      low   == JoinsLower(l, p, bp)
      size  == IF up THEN l.size[bp] + l.size[next] ELSE l.size[bp]
      after == IF up THEN l.ptr[next] ELSE next
      gone  == (IF up THEN {next} ELSE {}) \cup (IF low THEN {bp} ELSE {})
  IN  [ptr   |-> [q \in (Node(l) \cup {bp}) \ gone |->
                    IF q = bp \/ (q = p /\ low) THEN after
                    ELSE IF q = p THEN bp ELSE l.ptr[q]],
       size  |-> [q \in Header(l) \ gone |->
                    IF q = p /\ low THEN l.size[p] + size
                    ELSE IF q = bp THEN size ELSE l.size[q]],
       freep |-> p]

-----------------------------------------------------------------------------
\* malloc returns block at.
Returns(at, nbytes) ==
  held' = [q \in Used \cup {at} |-> IF q = at THEN nbytes ELSE held[q]]

malloc(nbytes) ==
  /\ \E prevp \in Node(list) :
       /\ FirstFit(list, prevp, nunits(nbytes))
       /\ list' = Carved(list, prevp, nunits(nbytes))
       /\ Returns(Block(list, prevp, nunits(nbytes)), nbytes)
  /\ UNCHANGED <<start, bss, top>>

\* round_up(nu * sizeof(Header), NALLOC)
round_up(n) == ((n + CHUNK - 1) \div CHUNK) * CHUNK

\* Mutant: the end of the heap is not looked at.
CoreLeftAlways(nb) == TRUE

\* The check of morecore: __malloc_bss + nb <= __malloc_top
CoreLeft(nb) == bss + nb < top

\* The list with the block that morecore cuts off, not yet freed.
WithCore(nb) == [list EXCEPT !.size = [q \in Header(list) \cup {bss} |->
                                         IF q = bss THEN nb ELSE list.size[q]]]

\* malloc that finds nothing: morecore frees a new block, and the search goes on.
malloc_morecore(nbytes) ==
  LET n == nunits(nbytes)
      l == WithCore(round_up(n))
  IN
  /\ NoFit(list, n)
  /\ CoreLeft(round_up(n))
  /\ bss' = bss + round_up(n)
  /\ \E p \in Node(list) :
       /\ StopsAt(l, p, bss)
       /\ \E prevp \in Node(Inserted(l, p, bss)) :
            /\ FirstFit(Inserted(l, p, bss), prevp, n)
            /\ list' = Carved(Inserted(l, p, bss), prevp, n)
            /\ Returns(Block(Inserted(l, p, bss), prevp, n), nbytes)
  /\ UNCHANGED <<start, top>>

\* malloc returns NULL.
malloc_fails(nbytes) ==
  /\ NoFit(list, nunits(nbytes))
  /\ ~CoreLeft(round_up(nunits(nbytes)))
  /\ UNCHANGED heap

free(bp) ==
  /\ bp \in Used
  /\ \E p \in Node(list) :
       /\ StopsAt(list, p, bp)
       /\ list' = Inserted(list, p, bp)
  /\ held' = [q \in Used \ {bp} |-> held[q]]
  /\ UNCHANGED <<start, bss, top>>

-----------------------------------------------------------------------------
\* The list as the first lines of malloc make it.
EmptyList == [ptr |-> [q \in {base} |-> base], size |-> [q \in {base} |-> 0], freep |-> base]

NoHeap ==
  /\ list = EmptyList
  /\ held = [q \in {} |-> 0]
  /\ start = 0 /\ bss = 0 /\ top = 0

\* __malloc_init: the heap is [low, high), and nothing of it has been given out.
malloc_init(low, high) ==
  /\ start' = low /\ bss' = low /\ top' = high
  /\ UNCHANGED <<list, held>>

HeapNext ==
  \/ \E nbytes \in Request : malloc(nbytes) \/ malloc_morecore(nbytes) \/ malloc_fails(nbytes)
  \/ \E bp \in Used : free(bp)

-----------------------------------------------------------------------------
Unit(b) == b .. b + list.size[b] - 1

\* The list is a circle through all free blocks in the order of their addresses, the
\* one behind the highest being the lowest (malloc.c: __malloc_check, "Free bits should
\* be in order").
ListInOrder ==
  \A p \in Node(list) :
    LET next == list.ptr[p] IN
    /\ next \in Node(list)
    /\ \/ p < next /\ \A q \in Node(list) : q <= p \/ next <= q
       \/ next <= p /\ \A q \in Node(list) : next <= q /\ q <= p

\* No two free blocks touch, so that a large request finds what is free.
Joined == \A p \in Node(list) \ {base} : p + list.size[p] # list.ptr[p]

\* Blocks in use and free blocks lie side by side in what morecore has given out:
\* none overlap, and nothing in between is lost.
Tiled ==
  /\ Header(list) = Node(list) \cup Used /\ Node(list) \cap Used = {}
  /\ \A b, c \in Header(list) \ {base} : b # c => Unit(b) \cap Unit(c) = {}
  /\ UNION {Unit(b) : b \in Header(list) \ {base}} = start .. bss - 1

\* A block has room for what was asked for, besides its header.
Roomy == \A b \in Used : (list.size[b] - 1) * HEADER >= held[b]

\* Through any sequence of calls the list of free blocks is in order and without
\* neighbours, and together with the blocks in use it is all of the heap handed out so
\* far (malloc.c: malloc, free; sys_morecore.c: morecore).
HeapSound ==
  /\ list.freep \in Node(list) /\ base \in Node(list) /\ list.size[base] = 0
  /\ \A b \in Header(list) \ {base} : list.size[b] > 0
  /\ ListInOrder /\ Joined /\ Tiled /\ Roomy
=============================================================================
