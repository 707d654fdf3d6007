--------------------------- MODULE FileDataProofs ---------------------------
(***************************************************************************)
(* Theorems about FileCacheBoot and FileData, for any directory, any size  *)
(* of the cache and any number of processes and files.                     *)
(***************************************************************************)
EXTENDS FileData, SequenceTheorems, TLAPS

Early == {"start", "create", "descriptor", "readdir"}

\* The one who has a file created: its writer, and nilthread for io_init.
Asker(n) == IF n = "swap" THEN L4_nilthread ELSE Writer[n]

SwapCall == <<"create", "swap", L4_nilthread>>

Call == {<<"create", n, Asker(n)>> : n \in {"swap"} \cup Created}
          \cup ({"lookup"} \X Files) \cup ({"readdir"} \X (1 .. Len(Pages) + 1))

CacheTyped ==
  /\ file_cache \in Seq(Filename) /\ Len(file_cache) <= DIR_CACHE_SIZE
  /\ Cached \subseteq {"console", "swap"} \cup Files \cup Created
  /\ file_cache_initialized \in BOOLEAN /\ halted \in BOOLEAN
  /\ swap_fd \subseteq {SWAP_FD, SWAP_FD + 1}
  /\ pending \subseteq Call
  /\ shell \in {"none", "started", "missing"}
  /\ init \in Early \cup {"wait", "done"} /\ (shell # "none" => init = "done")

\* The console is entered before a call is sent.
ConsoleFirst ==
  IF init = "start" THEN file_cache = <<>> /\ pending = {}
  ELSE file_cache # <<>> /\ file_cache[1] = "console"

\* No name is in the cache twice, and none that a call may still enter is in it.
EnteredOnce ==
  /\ \A i, j \in 1 .. Len(file_cache) : file_cache[i] = file_cache[j] => i = j
  /\ \A c \in pending : c[1] \in {"create", "lookup"} => c[2] \notin Cached
  /\ init \in {"start", "create"} => "swap" \notin Cached /\ SwapCall \notin pending
  /\ init \in Early => /\ \A c \in pending : c[1] = "create"
                       /\ Cached \cap Files = {}

\* One readdir is under way at a time, and the names it will list were not listed before.
ListedOnce ==
  \A c \in pending : c[1] = "readdir" =>
    /\ \A d \in pending : d[1] = "readdir" => d = c
    /\ \A k \in c[2] .. Len(Pages), n \in Files :
         n \in Pages[k] => n \notin Cached /\ <<"lookup", n>> \notin pending

\* What is neither in the cache nor refused is under way, if no cookie ends the listing early.
Accounted ==
  Ends = {} /\ ~halted =>
    /\ init \notin {"start", "create"} =>
         "swap" \in Cached \cup failed \/ SwapCall \in pending
    /\ init \notin Early => \A n \in Files :
         \/ n \in Cached \cup failed \/ <<"lookup", n>> \in pending
         \/ \E c \in pending : c[1] = "readdir" /\ \E k \in c[2] .. Len(Pages) : n \in Pages[k]

CacheInv == CacheTyped /\ ConsoleFirst /\ EnteredOnce /\ ListedOnce /\ Accounted

Descriptor == [file : Name, write_position : Nat, read_position : Nat,
               put : Seq(Nat), got : Seq(Nat)]

DataTyped ==
  /\ disk \in [Name -> Seq(Nat)] /\ past \in [Name -> Seq(SUBSET Nat)]
  /\ st_size \in [Name -> Nat] /\ handle \in [User -> {Closed} \cup Descriptor]
  /\ DOMAIN io = User /\ bytes \in Nat

\* The positions are the lengths of what was put and got; what was put is what the file
\* begins with, what was got has been in the file.
StreamSound(u) ==
  LET h == handle[u] IN
  /\ h.file \in Cached
  /\ h.write_position = Len(h.put) /\ h.read_position = Len(h.got)
  /\ Writer[h.file] # u => h.put = <<>>
  /\ Len(h.put) <= Len(disk[h.file])
  /\ \A k \in 1 .. Len(h.put) : h.put[k] = disk[h.file][k]
  /\ Len(h.got) <= Len(past[h.file])
  /\ \A k \in 1 .. Len(h.got) : h.got[k] \in past[h.file][k]

\* A write begins where the process stopped writing, and once it is done its bytes are
\* in the file there.
WriteSound(c, h) ==
  /\ c.bytes \in Seq(Nat)
  /\ c.state = "sent" => c.at = Len(h.put)
  /\ c.state = "ok" =>
       /\ c.size = Len(disk[h.file]) /\ Len(h.put) + Len(c.bytes) <= Len(disk[h.file])
       /\ \A k \in 1 .. Len(c.bytes) : disk[h.file][Len(h.put) + k] = c.bytes[k]

\* A read begins where the process stopped reading, and its answer has bytes that were
\* in the file there.
ReadSound(c, h) ==
  /\ c.state = "sent" => c.at = Len(h.got) /\ c.count \in Nat
  /\ c.state = "ok" =>
       /\ c.bytes \in Seq(Nat) /\ Len(h.got) + Len(c.bytes) <= Len(past[h.file])
       /\ \A k \in 1 .. Len(c.bytes) : c.bytes[k] \in past[h.file][Len(h.got) + k]

CallSound(u) ==
  /\ io[u].kind = "create" => io[u].file \in Created /\ Writer[io[u].file] = u
  /\ io[u].kind \in {"read", "write"} => handle[u] # Closed
  /\ io[u].kind = "write" => Writer[handle[u].file] = u
  /\ io[u].kind = "write" /\ io[u].state # "error" => WriteSound(io[u], handle[u])
  /\ io[u].kind = "read" => ReadSound(io[u], handle[u])

\* The bytes of a file are among those it ever held, a file that nobody has created is
\* empty, and the size in the cache is behind only while a write has no answer yet.
FileSound(n) ==
  /\ Len(past[n]) = Len(disk[n]) /\ \A k \in 1 .. Len(disk[n]) : disk[n][k] \in past[n][k]
  /\ n \in Created \ Cached => disk[n] = <<>>
  /\ n \in Cached => \/ st_size[n] = Len(disk[n])
                     \/ /\ io[Writer[n]].kind = "write" /\ io[Writer[n]].state = "ok"
                        /\ handle[Writer[n]].file = n

DataInv ==
  /\ DataTyped
  /\ \A u \in User : CallSound(u) /\ (handle[u] # Closed => StreamSound(u))
  /\ \A n \in Name : FileSound(n)

Inv == CacheInv /\ DataInv

-----------------------------------------------------------------------------
(***************************************************************************)
(* What the operators return.                                              *)
(***************************************************************************)

\* The constants of the boot and of the files in use.
LEMMA Constants ==
  /\ Len(Pages) \in Nat /\ DIR_CACHE_SIZE \in Nat /\ DIR_CACHE_SIZE > 0
  /\ Files \subseteq Filename /\ Created \subseteq Filename
  /\ "swap" \in Filename /\ "console" \in Filename
  /\ "swap" \notin Files /\ "swap" \notin Created /\ "console" \notin Created
  /\ Created \cap Files = {}
  /\ Created \subseteq Name /\ Name \subseteq Files \cup Created
  /\ \A n \in Name : Writer[n] \in User
  /\ L4_nilthread \notin User
  /\ \A i, j \in 1 .. Len(Pages) : i # j => Pages[i] \cap Pages[j] = {}
  /\ Amount \subseteq Nat
<1>1. Len(Pages) \in Nat /\ \A k \in 1 .. Len(Pages) : Pages[k] \subseteq Filename
  BY BootAssumption
<1>2. Files \subseteq Filename /\ "swap" \notin Files
  BY <1>1 DEF Files, Ignored
<1>3. DIR_CACHE_SIZE \in Nat /\ DIR_CACHE_SIZE > 0
  BY BootAssumption
<1>4. Created \cap Files = {} /\ "swap" \notin Created /\ "console" \notin Created
  BY DataAssumption DEF Created, Ignored
<1>5. /\ Created \subseteq Name /\ Name \subseteq Files \cup Created /\ Created \subseteq Filename
      /\ \A n \in Name : Writer[n] \in User
  BY DataAssumption DEF Created
<1> QED BY <1>1, <1>2, <1>3, <1>4, <1>5, BootAssumption, DataAssumption

\* Two calls that are to enter the same name are the same call.
LEMMA CallIs ==
  ASSUME NEW c \in Call
  PROVE  /\ c[1] \in {"create", "lookup", "readdir"}
         /\ c[1] = "create" =>
              c = <<"create", c[2], Asker(c[2])>> /\ c[2] \in {"swap"} \cup Created
         /\ c[1] = "lookup" => c = <<"lookup", c[2]>> /\ c[2] \in Files
         /\ c[1] = "readdir" => c = <<"readdir", c[2]>> /\ c[2] \in 1 .. Len(Pages) + 1
         /\ c[1] \in {"create", "lookup"} => (c[1] = "lookup" <=> c[2] \in Files)
         /\ c[1] = "create" /\ c[2] = "swap" => c = SwapCall
<1>1. CASE \E n \in {"swap"} \cup Created : c = <<"create", n, Asker(n)>>
  BY <1>1, Constants DEF SwapCall, Asker
<1>2. CASE c \in ({"lookup"} \X Files) \cup ({"readdir"} \X (1 .. Len(Pages) + 1))
  BY <1>2
<1> QED BY <1>1, <1>2 DEF Call

\* A name that readdir lists and the boot does not skip is a file.
LEMMA ListedIsFile ==
  ASSUME NEW k \in 1 .. Len(Pages), NEW n \in Pages[k], n \notin Ignored
  PROVE  n \in Files
BY DEF Files

\* The files of a page, the empty page after the last included.
LEMMA PageFiles ==
  ASSUME NEW k \in 1 .. Len(Pages) + 1
  PROVE  /\ \A n : n \in LookedUp(k) <=> k <= Len(Pages) /\ n \in Pages[k] /\ n \in Files
         /\ Page(k) # {} => k <= Len(Pages)
<1>1. Len(Pages) \in Nat
  BY Constants
<1>2. CASE k <= Len(Pages)
  <2>1. k \in 1 .. Len(Pages)
    BY <1>1, <1>2
  <2>2. Page(k) = Pages[k]
    BY <1>2 DEF Page
  <2>3. \A n \in Pages[k] : n \in Files <=> n \notin Ignored
    BY <2>1 DEF Files
  <2> QED BY <1>2, <2>2, <2>3 DEF LookedUp
<1>3. CASE ~(k <= Len(Pages))
  BY <1>3 DEF Page, LookedUp
<1> QED BY <1>2, <1>3

\* The bound of a set of two numbers.
LEMMA MaxOfTwo ==
  ASSUME NEW a \in Nat, NEW b \in Nat
  PROVE  Max({a, b}) = IF a <= b THEN b ELSE a
<1> DEFINE m == IF a <= b THEN b ELSE a
<1>1. m \in {a, b} /\ \A y \in {a, b} : m >= y
  OBVIOUS
<1>2. \A x \in {a, b} : (\A y \in {a, b} : x >= y) => x = m
  OBVIOUS
<1> QED BY <1>1, <1>2 DEF Max

\* The lesser of two numbers.
LEMMA MinOfTwo ==
  ASSUME NEW a \in Nat, NEW b \in Nat
  PROVE  Min({a, b}) = IF a <= b THEN a ELSE b
<1> DEFINE m == IF a <= b THEN a ELSE b
<1>1. m \in {a, b} /\ \A y \in {a, b} : m <= y
  OBVIOUS
<1>2. \A x \in {a, b} : (\A y \in {a, b} : x <= y) => x = m
  OBVIOUS
<1> QED BY <1>1, <1>2 DEF Min

\* A write keeps what is before it and puts its bytes behind that.
LEMMA OverwrittenIs ==
  ASSUME NEW f \in Seq(Nat), NEW b \in Seq(Nat), NEW at \in 0 .. Len(f)
  PROVE  /\ Overwritten(f, at, b) \in Seq(Nat)
         /\ Len(Overwritten(f, at, b)) = IF at + Len(b) <= Len(f) THEN Len(f) ELSE at + Len(b)
         /\ \A k \in 1 .. Len(Overwritten(f, at, b)) :
              Overwritten(f, at, b)[k] = IF at < k /\ k <= at + Len(b) THEN b[k - at] ELSE f[k]
<1> DEFINE head == SubSeq(f, 1, at)
           tail == SubSeq(f, at + Len(b) + 1, Len(f))
           front == head \o b
           g == front \o tail
<1>1. Overwritten(f, at, b) = g
  BY DEF Overwritten
<1> HIDE DEF front, g
<1>0. Len(f) \in Nat /\ Len(b) \in Nat /\ at \in Nat /\ at <= Len(f)
  OBVIOUS
<1>2. head \in Seq(Nat) /\ Len(head) = at /\ \A k \in 1 .. at : head[k] = f[k]
  BY <1>0
<1>3. /\ tail \in Seq(Nat)
      /\ Len(tail) = IF at + Len(b) <= Len(f) THEN Len(f) - (at + Len(b)) ELSE 0
      /\ \A k \in 1 .. Len(tail) : tail[k] = f[at + Len(b) + k]
  BY <1>0
<1> HIDE DEF head, tail
<1>4. /\ front \in Seq(Nat) /\ Len(front) = Len(head) + Len(b)
      /\ \A k \in 1 .. Len(head) + Len(b) :
           front[k] = IF k <= Len(head) THEN head[k] ELSE b[k - Len(head)]
  BY <1>2, ConcatProperties, Zenon DEF front
<1>5. /\ Len(front) = at + Len(b)
      /\ \A k \in 1 .. at + Len(b) : front[k] = IF k <= at THEN f[k] ELSE b[k - at]
  <2>1. /\ Len(front) = at + Len(b)
        /\ \A k \in 1 .. at + Len(b) : front[k] = IF k <= at THEN head[k] ELSE b[k - at]
    BY <1>2, <1>4, Zenon
  <2>2. \A k \in 1 .. at + Len(b) : k <= at => head[k] = f[k]
    BY <1>0, <1>2
  <2> QED BY <2>1, <2>2
<1>6. /\ g \in Seq(Nat) /\ Len(g) = Len(front) + Len(tail)
      /\ \A k \in 1 .. Len(front) + Len(tail) :
           g[k] = IF k <= Len(front) THEN front[k] ELSE tail[k - Len(front)]
  <2>1. front \in Seq(Nat) /\ tail \in Seq(Nat)
    BY <1>3, <1>4
  <2> QED BY <2>1, ConcatProperties, Zenon DEF g
<1>7. Len(g) = IF at + Len(b) <= Len(f) THEN Len(f) ELSE at + Len(b)
  <2>1. Len(g) = (at + Len(b)) + Len(tail)
    BY <1>5, <1>6
  <2>2. Len(tail) = IF at + Len(b) <= Len(f) THEN Len(f) - (at + Len(b)) ELSE 0
    BY <1>3
  <2>3. \A x, y, z, w \in Int : w = (IF x <= y THEN y - x ELSE 0) /\ z = x + w
                               => z = IF x <= y THEN y ELSE x
    OBVIOUS
  <2>4. at + Len(b) \in Int /\ Len(tail) \in Int /\ Len(g) \in Int /\ Len(f) \in Int
    BY <1>0, <1>3, <1>6
  <2> QED BY <2>1, <2>2, <2>3, <2>4, Zenon
<1>8. ASSUME NEW k \in 1 .. Len(g)
      PROVE  g[k] = IF at < k /\ k <= at + Len(b) THEN b[k - at] ELSE f[k]
  <2>0. k \in Nat /\ k >= 1 /\ k <= Len(front) + Len(tail) /\ Len(tail) \in Nat
    <3>1. Len(front) \in Nat /\ Len(tail) \in Nat /\ Len(g) = Len(front) + Len(tail)
      BY <1>3, <1>4, <1>6
    <3> QED BY <3>1
  <2>1. CASE k <= at + Len(b)
    <3>1. g[k] = front[k] /\ front[k] = IF k <= at THEN f[k] ELSE b[k - at]
      BY <1>0, <1>5, <1>6, <2>0, <2>1
    <3> QED BY <1>0, <2>0, <2>1, <3>1
  <2>2. CASE ~(k <= at + Len(b))
    <3>1. k - Len(front) \in 1 .. Len(tail)
      BY <1>0, <1>5, <2>0, <2>2
    <3>2. g[k] = tail[k - Len(front)]
      BY <1>0, <1>5, <1>6, <2>0, <2>2
    <3>3. tail[k - Len(front)] = f[k]
      BY <1>0, <1>3, <1>5, <2>0, <3>1
    <3> QED BY <2>2, <3>2, <3>3
  <2> QED BY <2>1, <2>2
<1> QED BY <1>6, <1>1, <1>7, <1>8

\* A read returns the bytes from its position on, as many as there are.
LEMMA BytesIs ==
  ASSUME NEW f \in Seq(Nat), NEW at \in 0 .. Len(f), NEW count \in Nat
  PROVE  /\ Bytes(f, at, count) \in Seq(Nat)
         /\ Len(Bytes(f, at, count)) = IF at + count <= Len(f) THEN count ELSE Len(f) - at
         /\ \A k \in 1 .. Len(Bytes(f, at, count)) : Bytes(f, at, count)[k] = f[at + k]
<1>1. Len(f) \in Nat /\ at \in Nat /\ at <= Len(f)
  OBVIOUS
<1> DEFINE m == IF at + count <= Len(f) THEN at + count ELSE Len(f)
<1>2. Min({at + count, Len(f)}) = m
  <2>1. at + count \in Nat
    BY <1>1
  <2> QED BY <1>1, <2>1, MinOfTwo
<1>3. m \in Nat /\ m <= Len(f) /\ m >= at
  BY <1>1
<1>4. Bytes(f, at, count) = SubSeq(f, at + 1, m)
  BY <1>2 DEF Bytes
<1> HIDE DEF m
<1>5. /\ SubSeq(f, at + 1, m) \in Seq(Nat) /\ Len(SubSeq(f, at + 1, m)) = m - at
      /\ \A k \in 1 .. m - at : SubSeq(f, at + 1, m)[k] = f[at + k]
  BY <1>1, <1>3
<1>6. m - at = (IF at + count <= Len(f) THEN count ELSE Len(f) - at)
  BY <1>1 DEF m
<1> QED BY <1>4, <1>5, <1>6

\* The history of a file has what it had, and the bytes written.
LEMMA RememberedIs ==
  ASSUME NEW p \in Seq(SUBSET Nat), NEW b \in Seq(Nat), NEW at \in 0 .. Len(p)
  PROVE  /\ Remembered(p, at, b) \in Seq(SUBSET Nat)
         /\ Len(Remembered(p, at, b)) = IF at + Len(b) <= Len(p) THEN Len(p) ELSE at + Len(b)
         /\ \A k \in 1 .. Len(p) : p[k] \subseteq Remembered(p, at, b)[k]
         /\ \A k \in 1 .. Len(b) : b[k] \in Remembered(p, at, b)[at + k]
<1> DEFINE m == IF at + Len(b) <= Len(p) THEN Len(p) ELSE at + Len(b)
           el(k) == (IF k <= Len(p) THEN p[k] ELSE {})
                       \cup (IF k - at \in DOMAIN b THEN {b[k - at]} ELSE {})
<1>1. Len(p) \in Nat /\ Len(b) \in Nat /\ at \in Nat /\ DOMAIN b = 1 .. Len(b)
  OBVIOUS
<1>2. Max({Len(p), at + Len(b)}) = m
  BY <1>1, MaxOfTwo
<1>3. m \in Nat /\ m >= Len(p) /\ m >= at + Len(b)
  BY <1>1
<1>4. Remembered(p, at, b) = [k \in 1 .. m |-> el(k)]
  BY <1>2 DEF Remembered
<1>5. \A k \in 1 .. m : el(k) \in SUBSET Nat
  BY <1>1, <1>3
<1>6. \A k \in 1 .. Len(p) : k \in 1 .. m /\ p[k] \subseteq el(k)
  BY <1>1, <1>3
<1>7. \A k \in 1 .. Len(b) : at + k \in 1 .. m /\ b[k] \in el(at + k)
  <2> SUFFICES ASSUME NEW k \in 1 .. Len(b)
               PROVE  at + k \in 1 .. m /\ b[k] \in el(at + k)
    OBVIOUS
  <2>1. (at + k) - at = k /\ k \in DOMAIN b
    BY <1>1
  <2> QED BY <1>1, <1>3, <2>1
<1>8. Len(Remembered(p, at, b)) = m /\ Remembered(p, at, b) \in Seq(SUBSET Nat)
  <2> HIDE DEF el, m
  <2> QED BY <1>3, <1>4, <1>5
<1>9. \A k \in 1 .. m : Remembered(p, at, b)[k] = el(k)
  <2> HIDE DEF el, m
  <2> QED BY <1>4
<1> HIDE DEF el
<1> QED BY <1>6, <1>7, <1>8, <1>9

-----------------------------------------------------------------------------
(***************************************************************************)
(* The cache.                                                              *)
(***************************************************************************)

\* The names in the cache are the elements of the sequence.
LEMMA CachedIs ==
  ASSUME file_cache \in Seq(Filename)
  PROVE  \A n : n \in Cached <=> \E k \in 1 .. Len(file_cache) : file_cache[k] = n
BY DEF Cached, Range

\* What Append adds.
LEMMA AppendIs ==
  ASSUME NEW T, NEW s \in Seq(T), NEW e \in T
  PROVE  /\ Append(s, e) \in Seq(T) /\ Len(s) \in Nat /\ Len(Append(s, e)) = Len(s) + 1
         /\ \A k \in 1 .. Len(s) + 1 : Append(s, e)[k] = IF k <= Len(s) THEN s[k] ELSE e
         /\ {Append(s, e)[k] : k \in 1 .. Len(s) + 1} = {s[k] : k \in 1 .. Len(s)} \cup {e}
         /\ (\A i, j \in 1 .. Len(s) : s[i] = s[j] => i = j) /\ (\A i \in 1 .. Len(s) : s[i] # e)
              => \A i, j \in 1 .. Len(s) + 1 : Append(s, e)[i] = Append(s, e)[j] => i = j
<1> DEFINE a == Append(s, e)
<1>1. a \in Seq(T) /\ Len(s) \in Nat /\ Len(a) = Len(s) + 1
  OBVIOUS
<1>2. \A k \in 1 .. Len(s) + 1 : a[k] = IF k <= Len(s) THEN s[k] ELSE e
  OBVIOUS
<1> HIDE DEF a
<1>3. {a[k] : k \in 1 .. Len(s) + 1} = {s[k] : k \in 1 .. Len(s)} \cup {e}
  <2>1. \A k \in 1 .. Len(s) + 1 : a[k] \in {s[i] : i \in 1 .. Len(s)} \cup {e}
    BY <1>1, <1>2
  <2>2. \A k \in 1 .. Len(s) : k \in 1 .. Len(s) + 1 /\ a[k] = s[k]
    BY <1>1, <1>2
  <2>3. Len(s) + 1 \in 1 .. Len(s) + 1 /\ a[Len(s) + 1] = e
    BY <1>1, <1>2
  <2> QED BY <2>1, <2>2, <2>3
<1>4. ASSUME \A i, j \in 1 .. Len(s) : s[i] = s[j] => i = j, \A i \in 1 .. Len(s) : s[i] # e
      PROVE  \A i, j \in 1 .. Len(s) + 1 : a[i] = a[j] => i = j
  BY <1>1, <1>2, <1>4
<1> QED BY <1>1, <1>2, <1>3, <1>4 DEF a

\* file_cache_insert adds its name at the end, or fails its assertion.
LEMMA InsertIs ==
  ASSUME file_cache \in Seq(Filename), Len(file_cache) <= DIR_CACHE_SIZE,
         NEW name \in Filename, name \notin Cached,
         \A i, j \in 1 .. Len(file_cache) : file_cache[i] = file_cache[j] => i = j,
         file_cache_insert(name)
  PROVE  /\ file_cache' \in Seq(Filename) /\ Len(file_cache') <= DIR_CACHE_SIZE
         /\ \A i, j \in 1 .. Len(file_cache') : file_cache'[i] = file_cache'[j] => i = j
         /\ \/ /\ Len(file_cache) < DIR_CACHE_SIZE /\ halted' = halted
               /\ Cached' = Cached \cup {name} /\ file_cache' # <<>>
               /\ file_cache'[1] = IF file_cache = <<>> THEN name ELSE file_cache[1]
            \/ /\ ~(Len(file_cache) < DIR_CACHE_SIZE) /\ halted' = TRUE
               /\ file_cache' = file_cache /\ Cached' = Cached
<1>0. Len(file_cache) \in Nat /\ DIR_CACHE_SIZE \in Nat
  BY Constants
<1>1. CASE Len(file_cache) < DIR_CACHE_SIZE
  <2>1. file_cache' = Append(file_cache, name) /\ halted' = halted
    BY <1>1 DEF file_cache_insert
  <2>2. /\ file_cache' \in Seq(Filename) /\ Len(file_cache') = Len(file_cache) + 1
        /\ \A k \in 1 .. Len(file_cache) + 1 :
             file_cache'[k] = IF k <= Len(file_cache) THEN file_cache[k] ELSE name
        /\ {file_cache'[k] : k \in 1 .. Len(file_cache) + 1}
             = {file_cache[k] : k \in 1 .. Len(file_cache)} \cup {name}
    <3>1. /\ Append(file_cache, name) \in Seq(Filename)
          /\ Len(Append(file_cache, name)) = Len(file_cache) + 1
          /\ \A k \in 1 .. Len(file_cache) + 1 :
               Append(file_cache, name)[k] = IF k <= Len(file_cache) THEN file_cache[k] ELSE name
          /\ {Append(file_cache, name)[k] : k \in 1 .. Len(file_cache) + 1}
               = {file_cache[k] : k \in 1 .. Len(file_cache)} \cup {name}
      BY AppendIs
    <3> QED BY <2>1, <3>1
  <2>3. Cached = {file_cache[k] : k \in 1 .. Len(file_cache)}
    BY DEF Cached, Range
  <2>4. Cached' = {file_cache'[k] : k \in 1 .. Len(file_cache')}
    BY <2>2 DEF Cached, Range
  <2>5. \A i \in 1 .. Len(file_cache) : file_cache[i] # name
    BY <2>3
  <2>6. \A i, j \in 1 .. Len(file_cache') : file_cache'[i] = file_cache'[j] => i = j
    <3>1. \A i, j \in 1 .. Len(file_cache) + 1 :
            Append(file_cache, name)[i] = Append(file_cache, name)[j] => i = j
      BY <2>5, AppendIs
    <3> QED BY <2>1, <2>2, <3>1
  <2>7. Len(file_cache') <= DIR_CACHE_SIZE
    BY <1>0, <1>1, <2>2
  <2>8. file_cache' # <<>> /\ (file_cache = <<>> <=> Len(file_cache) = 0)
    BY <1>0, <2>2
  <2>9. file_cache'[1] = IF file_cache = <<>> THEN name ELSE file_cache[1]
    <3>1. 1 \in 1 .. Len(file_cache) + 1 /\ (1 <= Len(file_cache) <=> Len(file_cache) # 0)
      BY <1>0
    <3> QED BY <2>2, <2>8, <3>1, Zenon
  <2>10. Cached' = Cached \cup {name}
    BY <2>2, <2>3, <2>4, Zenon
  <2> QED BY <1>1, <2>1, <2>2, <2>6, <2>7, <2>8, <2>9, <2>10
<1>2. CASE ~(Len(file_cache) < DIR_CACHE_SIZE)
  BY <1>2 DEF file_cache_insert, Cached
<1> QED BY <1>1, <1>2

\* The name of the console is no file's. It is what io_init enters itself, and a file of
\* that name in the directory would be entered as well.
NoConsoleFile == "console" \notin Files

\* The console is entered first.
LEMMA ConsoleKeeps ==
  ASSUME CacheInv, NoConsoleFile,
         init = "start", file_cache_insert("console"), init' = "create",
         UNCHANGED <<pending, swap_fd, file_cache_initialized, failed, shell>>
  PROVE  CacheInv'
<1>1. file_cache = <<>> /\ pending = {} /\ shell = "none" /\ Cached \subseteq Cached
  BY DEF CacheInv, ConsoleFirst, CacheTyped
<1>2. Len(file_cache) = 0 /\ Cached = {} /\ file_cache \in Seq(Filename)
  BY <1>1 DEF CacheInv, CacheTyped, Cached, Range
<1>3. /\ file_cache' \in Seq(Filename) /\ Len(file_cache') <= DIR_CACHE_SIZE
      /\ \A i, j \in 1 .. Len(file_cache') : file_cache'[i] = file_cache'[j] => i = j
      /\ halted' = halted /\ Cached' = {"console"}
      /\ file_cache' # <<>> /\ file_cache'[1] = "console"
  <2>1. Len(file_cache) <= DIR_CACHE_SIZE /\ Len(file_cache) < DIR_CACHE_SIZE
    BY <1>2, Constants
  <2>2. \A i, j \in 1 .. Len(file_cache) : file_cache[i] = file_cache[j] => i = j
    BY <1>2
  <2>3. /\ file_cache' \in Seq(Filename) /\ Len(file_cache') <= DIR_CACHE_SIZE
        /\ \A i, j \in 1 .. Len(file_cache') : file_cache'[i] = file_cache'[j] => i = j
        /\ \/ /\ halted' = halted
              /\ Cached' = Cached \cup {"console"} /\ file_cache' # <<>>
              /\ file_cache'[1] = IF file_cache = <<>> THEN "console" ELSE file_cache[1]
           \/ ~(Len(file_cache) < DIR_CACHE_SIZE)
    <3>1. "console" \in Filename /\ "console" \notin Cached
      BY <1>2, Constants
    <3> QED BY <1>2, <2>1, <2>2, <3>1, InsertIs
  <2> QED BY <1>1, <1>2, <2>1, <2>3
<1>4. CacheTyped'
  BY <1>1, <1>3 DEF CacheInv, CacheTyped, Early, Call
<1>5. ConsoleFirst'
  BY <1>3 DEF ConsoleFirst
<1>6. EnteredOnce'
  BY <1>1, <1>3 DEF EnteredOnce, NoConsoleFile
<1>7. ListedOnce' /\ Accounted'
  BY <1>1 DEF ListedOnce, Accounted, Early
<1> QED BY <1>4, <1>5, <1>6, <1>7 DEF CacheInv

\* A file is created: the swap file by io_init, others by processes.
LEMMA CreateKeeps ==
  ASSUME CacheInv, NEW n, n \notin Cached,
         \/ n = "swap" /\ init = "create" /\ init' = "descriptor"
         \/ n \in Created /\ init = "done" /\ init' = init,
         pending' = pending \cup {<<"create", n, Asker(n)>>},
         UNCHANGED <<file_cache, file_cache_initialized, failed, swap_fd, shell, halted>>
  PROVE  CacheInv'
<1>1. Cached' = Cached
  BY DEF Cached
<1>2. <<"create", n, Asker(n)>> \in Call /\ (n = "swap" => <<"create", n, Asker(n)>> = SwapCall)
  BY DEF Call, Asker, SwapCall
<1>3. init # "start" /\ init' # "start"
  OBVIOUS
<1>4. CacheTyped' /\ ConsoleFirst'
  BY <1>1, <1>2, <1>3 DEF CacheInv, CacheTyped, ConsoleFirst, Early, Call
<1>5. EnteredOnce'
  <2>1. \A c \in pending' : c[1] \in {"create", "lookup"} => c[2] \notin Cached'
    BY <1>1 DEF CacheInv, EnteredOnce
  <2>2. init' \in Early => init \in Early
    BY DEF Early
  <2>3. init' \notin {"start", "create"}
    OBVIOUS
  <2> QED BY <1>1, <2>1, <2>2, <2>3 DEF CacheInv, EnteredOnce
<1>6. ListedOnce'
  <2>1. \A c : c \in pending' /\ c[1] = "readdir" => c \in pending
    OBVIOUS
  <2>2. \A k : <<"lookup", k>> \in pending' => <<"lookup", k>> \in pending
    OBVIOUS
  <2> QED BY <1>1, <2>1, <2>2 DEF CacheInv, ListedOnce
<1>7. Accounted'
  <2>1. pending \subseteq pending' /\ (n = "swap" => SwapCall \in pending')
    BY <1>2
  <2>2. init' \notin Early => init \notin Early
    BY DEF Early
  <2>3. n # "swap" => init \notin {"start", "create"}
    OBVIOUS
  <2> QED BY <1>1, <2>1, <2>2, <2>3 DEF CacheInv, Accounted
<1> QED BY <1>4, <1>5, <1>6, <1>7 DEF CacheInv

\* The first readdir is sent before a file has been listed.
LEMMA FirstReaddirKeeps ==
  ASSUME CacheInv, init = "readdir", init' = "wait",
         pending' = pending \cup {<<"readdir", 1>>},
         UNCHANGED <<file_cache, file_cache_initialized, failed, swap_fd, shell, halted>>
  PROVE  CacheInv'
<1>1. Cached' = Cached /\ init \in Early
  BY DEF Cached, Early
<1>2. <<"readdir", 1>> \in Call
  BY Constants DEF Call
<1>3. Cached \cap Files = {} /\ \A c \in pending : c[1] = "create"
  BY <1>1 DEF CacheInv, EnteredOnce
<1>4. CacheTyped' /\ ConsoleFirst'
  BY <1>1, <1>2 DEF CacheInv, CacheTyped, ConsoleFirst, Early
<1>5. EnteredOnce'
  BY <1>1 DEF CacheInv, EnteredOnce, Early
<1>6. ListedOnce'
  <2>1. \A c \in pending' : c[1] = "readdir" => c = <<"readdir", 1>>
    BY <1>3
  <2>2. \A k : <<"lookup", k>> \notin pending'
    BY <1>3
  <2> QED BY <1>1, <1>3, <2>1, <2>2 DEF ListedOnce
<1>7. Accounted'
  <2>1. pending \subseteq pending' /\ <<"readdir", 1>> \in pending'
    OBVIOUS
  <2>2. \A n \in Files : \E k \in 1 .. Len(Pages) : n \in Pages[k]
    BY DEF Files
  <2>3. \A n \in Files : \E c \in pending' :
          c[1] = "readdir" /\ \E k \in c[2] .. Len(Pages) : n \in Pages[k]
    BY <2>1, <2>2
  <2>4. init \notin {"start", "create"}
    OBVIOUS
  <2> QED BY <1>1, <2>1, <2>3, <2>4 DEF CacheInv, Accounted
<1> QED BY <1>4, <1>5, <1>6, <1>7 DEF CacheInv

\* io_init keeps the invariant.
LEMMA IoInitKeeps ==
  ASSUME CacheInv, NoConsoleFile, io_init, UNCHANGED <<file_cache_initialized, failed, shell>>
  PROVE  CacheInv'
<1>1. CASE init = "start"
  BY <1>1, ConsoleKeeps DEF io_init
<1>2. CASE init = "create"
  <2>1. "swap" \notin Cached /\ Asker("swap") = L4_nilthread
    BY <1>2 DEF CacheInv, EnteredOnce, Asker
  <2> QED BY <1>2, <2>1, CreateKeeps DEF io_init
<1>3. CASE init = "descriptor"
  <2>1. /\ swap_fd' = swap_fd \cup {SWAP_FD} /\ init' = "readdir"
        /\ UNCHANGED <<file_cache, pending, failed, file_cache_initialized, shell, halted>>
    BY <1>3 DEF io_init
  <2>2. Cached' = Cached
    BY <2>1 DEF Cached
  <2>3. CacheTyped' /\ ConsoleFirst'
    BY <1>3, <2>1, <2>2 DEF CacheInv, CacheTyped, ConsoleFirst, Early
  <2>4. EnteredOnce' /\ ListedOnce' /\ Accounted'
    BY <1>3, <2>1, <2>2 DEF CacheInv, EnteredOnce, ListedOnce, Accounted, Early
  <2> QED BY <2>3, <2>4 DEF CacheInv
<1>4. CASE init = "readdir"
  BY <1>4, FirstReaddirKeeps DEF io_init
<1> QED BY <1>1, <1>2, <1>3, <1>4 DEF io_init

\* Looking for the shell keeps the invariant.
LEMMA ShellKeeps ==
  ASSUME CacheInv, StartShell
  PROVE  CacheInv'
<1>1. /\ init = "wait" /\ init' = "done" /\ shell' \in {"started", "missing"}
      /\ UNCHANGED <<file_cache, file_cache_initialized, pending, failed, swap_fd, halted>>
  BY DEF StartShell
<1>2. Cached' = Cached
  BY <1>1 DEF Cached
<1>3. CacheTyped' /\ ConsoleFirst'
  BY <1>1, <1>2 DEF CacheInv, CacheTyped, ConsoleFirst, Early
<1>4. EnteredOnce' /\ ListedOnce' /\ Accounted'
  BY <1>1, <1>2 DEF CacheInv, EnteredOnce, ListedOnce, Accounted, Early
<1> QED BY <1>3, <1>4 DEF CacheInv

\* The answer to a creation or a lookup enters the name or is a refusal.
LEMMA StatusKeeps ==
  ASSUME CacheInv, NEW call, NEW ok \in BOOLEAN, nfs_set_status(call, ok),
         swap_fd' \subseteq {SWAP_FD, SWAP_FD + 1}
  PROVE  /\ CacheInv' /\ call[2] \notin Cached
         /\ Cached' = Cached \/ (ok /\ Cached' = Cached \cup {call[2]})
         /\ ok /\ ~halted' => call[2] \in Cached'
<1> DEFINE n == call[2]
<1>1. /\ call \in pending /\ call[1] \in {"create", "lookup"} /\ pending' = pending \ {call}
      /\ UNCHANGED <<file_cache_initialized, init, shell>>
  BY DEF nfs_set_status
<1>2. call \in Call /\ n \notin Cached /\ init # "start"
  BY <1>1 DEF CacheInv, CacheTyped, EnteredOnce, ConsoleFirst
<1>3. /\ call[1] = "create" => call = <<"create", n, Asker(n)>>
      /\ call[1] = "lookup" => call = <<"lookup", n>>
      /\ (call[1] = "lookup" <=> n \in Files) /\ (n = "swap" => call = SwapCall)
      /\ n \in {"swap"} \cup Files \cup Created /\ n \in Filename
  BY <1>1, <1>2, CallIs, Constants
<1>4. /\ Cached \subseteq Cached' /\ Cached' \subseteq Cached \cup {n} /\ failed \subseteq failed'
      /\ Cached' # Cached => ok
      /\ file_cache' \in Seq(Filename) /\ Len(file_cache') <= DIR_CACHE_SIZE
      /\ \A i, j \in 1 .. Len(file_cache') : file_cache'[i] = file_cache'[j] => i = j
      /\ file_cache' # <<>> /\ file_cache'[1] = file_cache[1]
      /\ halted' \in BOOLEAN /\ (~halted' => ~halted /\ n \in Cached' \cup failed')
      /\ ok /\ ~halted' => n \in Cached'
  <2>0. /\ file_cache \in Seq(Filename) /\ Len(file_cache) <= DIR_CACHE_SIZE
        /\ file_cache # <<>> /\ halted \in BOOLEAN
        /\ \A i, j \in 1 .. Len(file_cache) : file_cache[i] = file_cache[j] => i = j
    BY <1>2 DEF CacheInv, CacheTyped, ConsoleFirst, EnteredOnce
  <2>1. CASE ok
    <3>1. file_cache_insert(n) /\ failed' = failed
      BY <2>1 DEF nfs_set_status
    <3>2. /\ file_cache' \in Seq(Filename) /\ Len(file_cache') <= DIR_CACHE_SIZE
          /\ \A i, j \in 1 .. Len(file_cache') : file_cache'[i] = file_cache'[j] => i = j
          /\ \/ /\ halted' = halted /\ Cached' = Cached \cup {n} /\ file_cache' # <<>>
                /\ file_cache'[1] = IF file_cache = <<>> THEN n ELSE file_cache[1]
             \/ halted' = TRUE /\ file_cache' = file_cache /\ Cached' = Cached
      <4> HIDE DEF n
      <4> QED BY <1>2, <1>3, <2>0, <3>1, InsertIs
    <3> HIDE DEF n
    <3>3. \/ halted' = halted /\ Cached' = Cached \cup {n}
          \/ halted' = TRUE /\ Cached' = Cached
      BY <3>2
    <3>4. file_cache' # <<>> /\ file_cache'[1] = file_cache[1]
      BY <2>0, <3>2
    <3>5. /\ Cached \subseteq Cached' /\ Cached' \subseteq Cached \cup {n}
          /\ failed \subseteq failed' /\ (Cached' # Cached => ok)
      BY <2>1, <3>1, <3>3
    <3>6. halted' = TRUE \/ (halted' = halted /\ n \in Cached' /\ n \in Cached' \cup failed')
      BY <3>3
    <3>7. /\ halted' \in BOOLEAN /\ (~halted' => ~halted /\ n \in Cached' \cup failed')
          /\ ok /\ ~halted' => n \in Cached'
      BY <2>0, <3>6, Zenon
    <3> QED BY <3>2, <3>4, <3>5, <3>7, Zenon
  <2>2. CASE ~ok
    BY <2>0, <2>2 DEF nfs_set_status, Cached
  <2> QED BY <2>1, <2>2
<1> HIDE DEF n
<1>5. CacheTyped' /\ ConsoleFirst'
  BY <1>1, <1>2, <1>3, <1>4 DEF CacheInv, CacheTyped, ConsoleFirst
<1>6. EnteredOnce'
  <2>1. ASSUME NEW c \in pending', c[1] \in {"create", "lookup"} PROVE c[2] \notin Cached'
    <3>1. c \in pending /\ c # call /\ c \in Call /\ c[2] \notin Cached
      BY <1>1, <2>1 DEF CacheInv, CacheTyped, EnteredOnce
    <3>2. /\ c[1] = "create" => c = <<"create", c[2], Asker(c[2])>>
          /\ c[1] = "lookup" => c = <<"lookup", c[2]>>
          /\ (c[1] = "lookup" <=> c[2] \in Files)
      BY <2>1, <3>1, CallIs
    <3>3. c[2] # n
      BY <1>1, <1>3, <2>1, <3>1, <3>2 DEF n
    <3> QED BY <1>4, <3>1, <3>3
  <2>2. init \in {"start", "create"} => "swap" \notin Cached'
    <3>1. n = "swap" => call = SwapCall
      BY <1>3
    <3> QED BY <1>1, <1>4, <3>1 DEF CacheInv, EnteredOnce
  <2>3. init \in Early => Cached' \cap Files = {}
    BY <1>1, <1>3, <1>4 DEF CacheInv, EnteredOnce
  <2> QED BY <1>1, <1>4, <2>1, <2>2, <2>3 DEF CacheInv, EnteredOnce
<1>7. ListedOnce'
  <2> SUFFICES ASSUME NEW c \in pending', c[1] = "readdir"
               PROVE  /\ \A d \in pending' : d[1] = "readdir" => d = c
                      /\ \A k \in c[2] .. Len(Pages), m \in Files :
                           m \in Pages[k] => m \notin Cached' /\ <<"lookup", m>> \notin pending'
    BY DEF ListedOnce
  <2>1. c \in pending /\ \A d \in pending' : d \in pending
    BY <1>1
  <2>2. \A k \in c[2] .. Len(Pages), m \in Files :
          m \in Pages[k] => m \notin Cached /\ <<"lookup", m>> \notin pending
    BY <2>1 DEF CacheInv, ListedOnce
  <2>3. n \in Files => <<"lookup", n>> \in pending
    BY <1>1, <1>3
  <2>4. \A d \in pending' : d[1] = "readdir" => d = c
    BY <2>1 DEF CacheInv, ListedOnce
  <2> QED BY <1>4, <2>1, <2>2, <2>3, <2>4
<1>8. Accounted'
  <2> SUFFICES ASSUME Ends = {}, ~halted' PROVE Accounted'
    BY DEF Accounted
  <2>1. ~halted /\ n \in Cached' \cup failed'
    BY <1>4
  <2>2. SwapCall \in pending => SwapCall \in pending' \/ n = "swap"
    BY <1>1 DEF SwapCall, n
  <2>3. \A m : <<"lookup", m>> \in pending => <<"lookup", m>> \in pending' \/ m = n
    BY <1>1, <1>3
  <2>4. \A c \in pending : c[1] = "readdir" => c \in pending'
    BY <1>1
  <2>5. init \notin {"start", "create"} =>
          "swap" \in Cached' \cup failed' \/ SwapCall \in pending'
    BY <1>4, <2>1, <2>2 DEF CacheInv, Accounted
  <2>6. init \notin Early => \A m \in Files :
         \/ m \in Cached' \cup failed' \/ <<"lookup", m>> \in pending'
         \/ \E c \in pending' : c[1] = "readdir" /\ \E k \in c[2] .. Len(Pages) : m \in Pages[k]
    BY <1>4, <2>1, <2>3, <2>4 DEF CacheInv, Accounted
  <2> QED BY <1>1, <2>5, <2>6 DEF Accounted
<1> QED BY <1>2, <1>4, <1>5, <1>6, <1>7, <1>8 DEF CacheInv, n

\* The descriptors of the swap file stay the two that there can be.
LEMMA AnswerDescriptors ==
  ASSUME CacheInv, NEW call, NEW ok, Answer(call, ok)
  PROVE  swap_fd' \subseteq {SWAP_FD, SWAP_FD + 1}
BY DEF Answer, open_nfs_swap, nfs_readdir_callback, CacheInv, CacheTyped

\* The answer to a readdir sends a lookup for each file it lists and the next readdir, or
\* ends the listing.
LEMMA ReaddirKeeps ==
  ASSUME CacheInv, NEW n, NEW ok \in BOOLEAN, nfs_readdir_callback(n, ok)
  PROVE  CacheInv' /\ Cached' = Cached
<1> DEFINE c == <<"readdir", n>>
           next == <<"readdir", n + 1>>
           more == {<<"readdir", m + 1>> : m \in {n} \ Ends}
           new == {<<"lookup", name>> : name \in LookedUp(n)}
           rest == UNION {Page(m) \ Ignored : m \in n .. Len(Pages)}
<1>1. c \in pending /\ UNCHANGED <<file_cache, init, swap_fd, shell, halted>>
  BY DEF nfs_readdir_callback
<1>2. /\ Cached' = Cached /\ n \in 1 .. Len(Pages) + 1 /\ n \in Nat /\ Len(Pages) \in Nat
      /\ init \notin Early /\ init # "start"
  BY <1>1, Constants DEF CacheInv, CacheTyped, EnteredOnce, Call, Early, Cached
<1>3. /\ \A d \in pending : d[1] = "readdir" => d = c
      /\ \A k \in n .. Len(Pages), m \in Files :
           m \in Pages[k] => m \notin Cached /\ <<"lookup", m>> \notin pending
  <2>1. c[1] = "readdir" /\ c[2] = n
    OBVIOUS
  <2> QED BY <1>1, <2>1 DEF CacheInv, ListedOnce
<1>4. ConsoleFirst'
  BY <1>1, <1>2 DEF CacheInv, ConsoleFirst
<1>5. CASE ok /\ Page(n) # {}
  <2>1. /\ pending' = (pending \ {c}) \cup new \cup more
        /\ file_cache_initialized' \in BOOLEAN /\ failed' = failed
        /\ more \subseteq {next} /\ (Ends = {} => more = {next})
    BY <1>5 DEF nfs_readdir_callback
  <2> HIDE DEF more
  <2>2. /\ n \in 1 .. Len(Pages) /\ n + 1 \in 1 .. Len(Pages) + 1
        /\ \A m : m \in LookedUp(n) <=> m \in Pages[n] /\ m \in Files
    BY <1>2, <1>5, PageFiles
  <2>3. new \subseteq Call /\ next \in Call
    BY <2>2 DEF Call
  <2>4. /\ \A d \in pending' : d[1] = "readdir" => d = next
        /\ \A d \in pending' : d[1] = "create" => d \in pending
        /\ \A m : <<"lookup", m>> \in pending' <=>
                    <<"lookup", m>> \in pending \/ (m \in Pages[n] /\ m \in Files)
        /\ SwapCall \in pending' <=> SwapCall \in pending
        /\ Ends = {} => next \in pending'
    <3>1. \A d \in new : d[1] = "lookup" /\ d[2] \in LookedUp(n) /\ d = <<"lookup", d[2]>>
      OBVIOUS
    <3>2. \A m : <<"lookup", m>> \in new <=> m \in LookedUp(n)
      OBVIOUS
    <3>3. SwapCall[1] = "create"
      BY DEF SwapCall
    <3> HIDE DEF new
    <3> QED BY <1>3, <2>1, <2>2, <3>1, <3>2, <3>3
  <2>5. \A d \in pending' : d[1] = "lookup" => d = <<"lookup", d[2]>>
    BY <2>1, <2>3 DEF CacheInv, CacheTyped, Call
  <2> HIDE DEF new, c
  <2>6. CacheTyped'
    BY <1>1, <1>2, <2>1, <2>3 DEF CacheInv, CacheTyped
  <2>7. EnteredOnce'
    <3>1. \A d \in pending' : d[1] = "lookup" => d[2] \notin Cached
      <4> SUFFICES ASSUME NEW d \in pending', d[1] = "lookup" PROVE d[2] \notin Cached
        OBVIOUS
      <4>1. CASE <<"lookup", d[2]>> \in pending
        BY <2>5, <4>1 DEF CacheInv, EnteredOnce
      <4>2. CASE d[2] \in Pages[n] /\ d[2] \in Files
        <5>1. n \in n .. Len(Pages)
          BY <2>2
        <5> QED BY <1>3, <4>2, <5>1
      <4> QED BY <2>4, <2>5, <4>1, <4>2
    <3>2. \A d \in pending' : d[1] = "create" => d[2] \notin Cached
      BY <2>4 DEF CacheInv, EnteredOnce
    <3>3. init \notin {"start", "create"}
      BY <1>2 DEF Early
    <3> QED BY <1>1, <1>2, <3>1, <3>2, <3>3 DEF CacheInv, EnteredOnce
  <2>8. ListedOnce'
    <3>1. next[1] = "readdir" /\ next[2] = n + 1
      OBVIOUS
    <3>2. \A k \in n + 1 .. Len(Pages), m \in Files : m \in Pages[k] =>
            m \notin Cached /\ <<"lookup", m>> \notin pending /\ m \notin Pages[n]
      <4>1. \A k \in n + 1 .. Len(Pages) : k \in n .. Len(Pages) /\ k \in 1 .. Len(Pages) /\ k # n
        BY <1>2
      <4> QED BY <1>3, <2>2, <4>1, Constants
    <3> QED BY <1>2, <2>4, <3>1, <3>2 DEF ListedOnce
  <2>9. Accounted'
    <3>1. ASSUME NEW m \in Files, NEW d \in pending, d[1] = "readdir",
                 NEW k \in d[2] .. Len(Pages), m \in Pages[k]
          PROVE  <<"lookup", m>> \in pending' \/ \E j \in n + 1 .. Len(Pages) : m \in Pages[j]
      <4>1. d[2] = n
        BY <1>3, <3>1 DEF c
      <4>2. k = n \/ k \in n + 1 .. Len(Pages)
        BY <1>2, <4>1
      <4> QED BY <2>4, <3>1, <4>2
    <3>2. next[1] = "readdir" /\ next[2] = n + 1
      OBVIOUS
    <3> HIDE DEF next
    <3> QED BY <1>1, <1>2, <2>1, <2>4, <3>1, <3>2 DEF CacheInv, Accounted
  <2> QED BY <1>2, <1>4, <2>6, <2>7, <2>8, <2>9 DEF CacheInv
<1>6. CASE ~(ok /\ Page(n) # {})
  <2>1. /\ pending' = pending \ {c} /\ file_cache_initialized' = TRUE
        /\ failed' = failed \cup rest
    BY <1>6 DEF nfs_readdir_callback
  <2>2. /\ \A d \in pending' : d \in pending /\ d[1] # "readdir"
        /\ \A m : <<"lookup", m>> \in pending => <<"lookup", m>> \in pending'
        /\ SwapCall \in pending => SwapCall \in pending'
    BY <1>3, <2>1 DEF SwapCall
  <2>3. \A m \in Files, k \in n .. Len(Pages) : m \in Pages[k] => m \in rest
    <3>1. \A k \in n .. Len(Pages) : Page(k) = Pages[k]
      BY <1>2 DEF Page
    <3>2. \A m \in Files : m \notin Ignored
      BY DEF Files
    <3> QED BY <3>1, <3>2
  <2> HIDE DEF rest
  <2>4. CacheTyped'
    BY <1>1, <1>2, <2>1, <2>2 DEF CacheInv, CacheTyped
  <2>5. EnteredOnce'
    BY <1>1, <1>2, <2>2 DEF CacheInv, EnteredOnce
  <2>6. ListedOnce'
    BY <2>2 DEF ListedOnce
  <2>7. Accounted'
    <3>1. \A d \in pending : d[1] = "readdir" => d[2] = n
      BY <1>3
    <3> QED BY <1>1, <1>2, <2>1, <2>2, <2>3, <3>1 DEF CacheInv, Accounted
  <2> QED BY <1>2, <1>4, <2>4, <2>5, <2>6, <2>7 DEF CacheInv
<1> QED BY <1>5, <1>6

\* A step that does not touch the boot keeps its invariant.
LEMMA VarsKeep ==
  ASSUME CacheInv, UNCHANGED vars
  PROVE  CacheInv' /\ Cached' = Cached
<1>1. Cached' = Cached
  BY DEF vars, Cached
<1> QED BY <1>1 DEF vars, CacheInv, CacheTyped, ConsoleFirst, EnteredOnce, ListedOnce, Accounted

\* The invariant holds when the system starts.
LEMMA CacheInit == Init => CacheInv
<1> SUFFICES ASSUME Init PROVE CacheInv
  OBVIOUS
<1>1. file_cache = <<>> /\ pending = {} /\ init = "start" /\ Len(file_cache) = 0 /\ Cached = {}
  BY DEF Init, Cached, Range
<1>2. CacheTyped
  <2>1. file_cache \in Seq(Filename) /\ Len(file_cache) <= DIR_CACHE_SIZE /\ Cached \subseteq {}
    BY <1>1, Constants
  <2> QED BY <1>1, <2>1 DEF Init, CacheTyped, Early
<1>3. ConsoleFirst /\ EnteredOnce /\ ListedOnce
  BY <1>1 DEF ConsoleFirst, EnteredOnce, ListedOnce
<1>4. Accounted
  BY <1>1 DEF Accounted, Early
<1> QED BY <1>2, <1>3, <1>4 DEF CacheInv

\* Every step of the boot keeps the invariant.
LEMMA CacheNext ==
  ASSUME CacheInv, NoConsoleFile, [Next]_vars
  PROVE  CacheInv'
<1>1. CASE InitThread
  BY <1>1, IoInitKeeps, ShellKeeps DEF InitThread
<1>2. ASSUME NEW call \in pending, NEW ok \in BOOLEAN, Answer(call, ok) PROVE CacheInv'
  BY <1>2, AnswerDescriptors, StatusKeeps, ReaddirKeeps DEF Answer
<1>3. CASE UNCHANGED vars
  BY <1>3, VarsKeep
<1> QED BY <1>1, <1>2, <1>3 DEF Next

\* What the invariant says of the cache.
LEMMA CacheInvSuffices ==
  ASSUME CacheInv
  PROVE  CacheSound
<1>1. \A c \in pending : \/ c[1] = "create" /\ c[2] \in Filename
                         \/ c[1] = "lookup" /\ c[2] \in Files
                         \/ c[1] = "readdir" /\ c[2] \in 1 .. Len(Pages) + 1
  <2>1. \A c \in pending : c \in Call
    BY DEF CacheInv, CacheTyped
  <2> QED BY <2>1, CallIs, Constants
<1>2. file_cache # <<>> => file_cache[1] = "console"
  BY DEF CacheInv, ConsoleFirst
<1> QED BY <1>1, <1>2 DEF CacheInv, CacheTyped, EnteredOnce, CacheSound, TypeOK

-----------------------------------------------------------------------------
(***************************************************************************)
(* The contents of the files.                                              *)
(***************************************************************************)

\* The disk, as seen by those who do not write on it in this step: only files that u
\* writes change, and what a file has ever held is not forgotten.
Grown(u) ==
  \A n \in Name : \/ disk'[n] = disk[n] /\ past'[n] = past[n]
                  \/ /\ Writer[n] = u /\ Len(past[n]) <= Len(past'[n])
                     /\ \A k \in 1 .. Len(past[n]) : past[n][k] \subseteq past'[n][k]

\* Everyone but u is where he was.
Others(u) == \A v \in User : v # u => handle'[v] = handle[v] /\ io'[v] = io[v]

\* A process in a call, or not, gets the call e.
LEMMA IoSet ==
  ASSUME DataTyped, NEW u \in User, NEW e, io' = [io EXCEPT ![u] = e]
  PROVE  DOMAIN io' = User /\ io'[u] = e /\ \A v \in User : v # u => io'[v] = io[v]
BY DEF DataTyped

\* The handle of a process becomes h.
LEMMA HandleSet ==
  ASSUME DataTyped, NEW u \in User, NEW h \in {Closed} \cup Descriptor,
         handle' = [handle EXCEPT ![u] = h]
  PROVE  /\ handle' \in [User -> {Closed} \cup Descriptor] /\ handle'[u] = h
         /\ \A v \in User : v # u => handle'[v] = handle[v]
BY DEF DataTyped

\* An open handle is a descriptor of a file in use.
LEMMA HandleTypes ==
  ASSUME DataTyped, NEW u \in User, handle[u] # Closed
  PROVE  /\ handle[u] \in Descriptor /\ handle[u].file \in Name
         /\ handle[u].put \in Seq(Nat) /\ handle[u].got \in Seq(Nat)
         /\ handle[u].write_position \in Nat /\ handle[u].read_position \in Nat
         /\ disk[handle[u].file] \in Seq(Nat) /\ past[handle[u].file] \in Seq(SUBSET Nat)
         /\ Len(disk[handle[u].file]) \in Nat /\ Len(past[handle[u].file]) \in Nat
<1>1. handle[u] \in Descriptor
  BY DEF DataTyped
<1>2. handle[u].file \in Name
  BY <1>1 DEF Descriptor
<1>3. /\ handle[u].put \in Seq(Nat) /\ handle[u].got \in Seq(Nat)
      /\ handle[u].write_position \in Nat /\ handle[u].read_position \in Nat
  BY <1>1 DEF Descriptor
<1>4. disk[handle[u].file] \in Seq(Nat) /\ past[handle[u].file] \in Seq(SUBSET Nat)
  BY <1>2 DEF DataTyped
<1> QED BY <1>1, <1>2, <1>3, <1>4

\* What was in a file at some place has still been there when more was written.
LEMMA StillThere ==
  ASSUME NEW p \in Seq(SUBSET Nat), NEW q \in Seq(SUBSET Nat), Len(p) <= Len(q),
         \A k \in 1 .. Len(p) : p[k] \subseteq q[k],
         NEW b \in Seq(Nat), NEW m \in Nat, m + Len(b) <= Len(p),
         \A k \in 1 .. Len(b) : b[k] \in p[m + k]
  PROVE  m + Len(b) <= Len(q) /\ \A k \in 1 .. Len(b) : b[k] \in q[m + k]
<1>1. Len(p) \in Nat /\ Len(q) \in Nat /\ Len(b) \in Nat
  OBVIOUS
<1>2. \A k \in 1 .. Len(b) : m + k \in 1 .. Len(p)
  BY <1>1
<1>3. m + Len(b) <= Len(q)
  BY <1>1
<1> QED BY <1>2, <1>3

\* What u does to its own handle, its call and its files does not disturb the others.
LEMMA OthersKeep ==
  ASSUME Inv, NEW u, Others(u), Grown(u), Cached \subseteq Cached',
         disk' \in [Name -> Seq(Nat)], past' \in [Name -> Seq(SUBSET Nat)], NEW v \in User, v # u
  PROVE  CallSound(v)' /\ (handle'[v] # Closed => StreamSound(v)')
<1> DEFINE h == handle[v]
           c == io[v]
           n == h.file
<1>1. handle'[v] = h /\ io'[v] = c
  BY DEF Others
<1>2. CallSound(v) /\ (h # Closed => StreamSound(v)) /\ DataTyped
  BY DEF Inv, DataInv
<1>3. CASE h = Closed
  <2>1. c.kind \notin {"read", "write"}
    BY <1>2, <1>3 DEF CallSound
  <2> QED BY <1>1, <1>2, <1>3, <2>1 DEF CallSound
<1>4. CASE h # Closed
  <2>1. /\ n \in Name /\ h.put \in Seq(Nat) /\ h.got \in Seq(Nat)
        /\ Len(disk[n]) \in Nat /\ Len(past[n]) \in Nat /\ StreamSound(v)
    BY <1>2, <1>4, HandleTypes
  <2>2. CASE disk'[n] = disk[n] /\ past'[n] = past[n]
    <3>1. StreamSound(v)'
      <4>1. n \in Cached' /\ disk'[n] = disk[n] /\ past'[n] = past[n] /\ handle'[v].file = n
        BY <1>1, <2>1, <2>2 DEF StreamSound
      <4> QED BY <1>1, <2>1, <4>1, Zenon DEF StreamSound
    <3>2. CallSound(v)'
      <4>1. WriteSound(c, h)' <=> WriteSound(c, h)
        BY <1>1, <2>2 DEF WriteSound
      <4>2. ReadSound(c, h)' <=> ReadSound(c, h)
        BY <1>1, <2>2 DEF ReadSound
      <4> QED BY <1>1, <1>2, <4>1, <4>2 DEF CallSound
    <3> QED BY <3>1, <3>2
  <2>3. CASE /\ Writer[n] = u /\ Len(past[n]) <= Len(past'[n])
             /\ \A k \in 1 .. Len(past[n]) : past[n][k] \subseteq past'[n][k]
    <3>1. Writer[n] # v /\ h.put = <<>> /\ Len(h.put) = 0
      BY <2>1, <2>3 DEF StreamSound
    <3>2. c.kind # "write"
      BY <1>2, <1>4, <3>1 DEF CallSound
    <3>3. Len(past'[n]) \in Nat /\ Len(disk'[n]) \in Nat /\ Len(h.got) \in Nat
      BY <2>1
    <3>4. StreamSound(v)'
      <4>0. Len(h.got) <= Len(past[n]) /\ \A k \in 1 .. Len(h.got) : h.got[k] \in past[n][k]
        BY <2>1 DEF StreamSound
      <4>1. Len(h.got) <= Len(past'[n]) /\ \A k \in 1 .. Len(h.got) : h.got[k] \in past'[n][k]
        <5>1. 0 + Len(h.got) <= Len(past[n]) /\ \A k \in 1 .. Len(h.got) : h.got[k] \in past[n][0 + k]
          BY <3>3, <4>0
        <5>2. past[n] \in Seq(SUBSET Nat) /\ past'[n] \in Seq(SUBSET Nat)
          BY <1>2, <2>1 DEF DataTyped
        <5>3. 0 + Len(h.got) <= Len(past'[n]) /\ \A k \in 1 .. Len(h.got) : h.got[k] \in past'[n][0 + k]
          <6> HIDE DEF n, h
          <6> QED BY <2>1, <2>3, <5>1, <5>2, StillThere
        <5> QED BY <3>3, <5>3
      <4>2. Len(h.put) <= Len(disk'[n]) /\ \A k \in 1 .. Len(h.put) : h.put[k] = disk'[n][k]
        BY <3>1, <3>3
      <4> QED BY <1>1, <2>1, <3>1, <4>1, <4>2 DEF StreamSound
    <3>5. c.kind = "read" => ReadSound(c, h)'
      <4> SUFFICES ASSUME c.kind = "read" PROVE ReadSound(c, h)'
        OBVIOUS
      <4>1. ReadSound(c, h)
        BY <1>2 DEF CallSound
      <4>2. ASSUME c.state = "ok"
            PROVE  /\ Len(h.got) + Len(c.bytes) <= Len(past'[n])
                   /\ \A k \in 1 .. Len(c.bytes) : c.bytes[k] \in past'[n][Len(h.got) + k]
        <5>1. /\ c.bytes \in Seq(Nat) /\ Len(h.got) + Len(c.bytes) <= Len(past[n])
              /\ \A k \in 1 .. Len(c.bytes) : c.bytes[k] \in past[n][Len(h.got) + k]
          BY <4>1, <4>2 DEF ReadSound
        <5>2. past[n] \in Seq(SUBSET Nat) /\ past'[n] \in Seq(SUBSET Nat)
          BY <1>2, <2>1 DEF DataTyped
        <5> HIDE DEF h, n, c
        <5> QED BY <2>3, <3>3, <5>1, <5>2, StillThere
      <4> QED BY <1>1, <4>1, <4>2 DEF ReadSound
    <3>6. CallSound(v)'
      BY <1>1, <1>2, <1>4, <3>2, <3>5 DEF CallSound
    <3> QED BY <3>4, <3>6
  <2> QED BY <2>1, <2>2, <2>3 DEF Grown
<1> QED BY <1>3, <1>4

\* A step of u in which its call, its handle and the files are in order keeps the invariant.
LEMMA Assemble ==
  ASSUME Inv, NEW u \in User, Others(u), Grown(u), Cached \subseteq Cached',
         CacheInv', DataTyped', CallSound(u)', handle'[u] # Closed => StreamSound(u)',
         \A n \in Name : FileSound(n)'
  PROVE  Inv'
<1>1. disk' \in [Name -> Seq(Nat)] /\ past' \in [Name -> Seq(SUBSET Nat)]
  BY DEF DataTyped
<1>2. \A v \in User : CallSound(v)' /\ (handle'[v] # Closed => StreamSound(v)')
  <2> SUFFICES ASSUME NEW v \in User, v # u
               PROVE  CallSound(v)' /\ (handle'[v] # Closed => StreamSound(v)')
    OBVIOUS
  <2> QED BY <1>1, OthersKeep
<1> QED BY <1>2 DEF Inv, DataInv

\* The files, when u changes neither them nor what the cache has of them.
LEMMA FilesKeep ==
  ASSUME Inv, NEW u \in User, Others(u), UNCHANGED <<disk, past, st_size>>, Cached' = Cached,
         ~(io[u].kind = "write" /\ io[u].state = "ok")
  PROVE  \A n \in Name : FileSound(n)'
<1> SUFFICES ASSUME NEW n \in Name PROVE FileSound(n)'
  OBVIOUS
<1>1. FileSound(n) /\ Writer[n] \in User
  BY Constants DEF Inv, DataInv
<1>2. CASE Writer[n] = u
  BY <1>1, <1>2 DEF FileSound
<1>3. CASE Writer[n] # u
  <2>1. io'[Writer[n]] = io[Writer[n]] /\ handle'[Writer[n]] = handle[Writer[n]]
    BY <1>1, <1>3 DEF Others
  <2> QED BY <1>1, <2>1 DEF FileSound
<1> QED BY <1>2, <1>3

\* A step of u that changes nothing but its call and its handle.
LEMMA QuietStep ==
  ASSUME Inv, NEW u \in User, Others(u), UNCHANGED <<vars, disk, past, st_size>>,
         ~(io[u].kind = "write" /\ io[u].state = "ok"),
         handle' \in [User -> {Closed} \cup Descriptor], DOMAIN io' = User, bytes' \in Nat,
         CallSound(u)', handle'[u] = handle[u] \/ (handle'[u] # Closed => StreamSound(u)')
  PROVE  Inv'
<1>1. CacheInv' /\ Cached' = Cached
  BY VarsKeep DEF Inv
<1>2. DataTyped'
  BY DEF Inv, DataInv, DataTyped
<1>3. Grown(u)
  BY DEF Grown
<1>4. \A n \in Name : FileSound(n)'
  BY <1>1, FilesKeep
<1>5. handle'[u] # Closed => StreamSound(u)'
  <2>1. CASE handle'[u] = handle[u]
    <3>1. handle[u] # Closed => StreamSound(u)
      BY DEF Inv, DataInv
    <3> QED BY <1>1, <2>1, <3>1 DEF StreamSound
  <2> QED BY <2>1
<1> QED BY <1>1, <1>2, <1>3, <1>4, <1>5, Assemble

\* A process opens a file.
LEMMA OpenKeeps ==
  ASSUME Inv, NEW u \in User, NEW n \in Name, open_file(u, n)
  PROVE  Inv'
<1> DEFINE h == create_file_descriptor(n)
<1>1. /\ io[u] = Idle /\ n \in Cached /\ handle' = [handle EXCEPT ![u] = h]
      /\ UNCHANGED <<vars, disk, past, st_size, io, bytes>> /\ DataTyped
  BY DEF open_file, Ready, Inv, DataInv
<1>2. h \in Descriptor
  BY DEF create_file_descriptor, Descriptor
<1>3. /\ handle' \in [User -> {Closed} \cup Descriptor] /\ handle'[u] = h
      /\ \A v \in User : v # u => handle'[v] = handle[v]
  <2> HIDE DEF h
  <2> QED BY <1>1, <1>2, HandleSet
<1>4. StreamSound(u)'
  <2>1. /\ handle'[u].file = n /\ handle'[u].put = <<>> /\ handle'[u].got = <<>>
        /\ handle'[u].write_position = 0 /\ handle'[u].read_position = 0
    BY <1>3 DEF create_file_descriptor
  <2>2. Len(<<>>) = 0 /\ Len(disk'[n]) \in Nat /\ Len(past'[n]) \in Nat /\ Cached' = Cached
    BY <1>1, VarsKeep DEF DataTyped, Inv
  <2> QED BY <1>1, <2>1, <2>2 DEF StreamSound
<1>5. CallSound(u)' /\ Others(u) /\ DOMAIN io' = User /\ bytes' \in Nat
  BY <1>1, <1>3 DEF CallSound, Idle, Others, DataTyped
<1> QED BY <1>1, <1>3, <1>4, <1>5, QuietStep DEF Idle

\* A process closes its file.
LEMMA CloseKeeps ==
  ASSUME Inv, NEW u \in User, close_file(u)
  PROVE  Inv'
<1>1. /\ io[u] = Idle /\ handle' = [handle EXCEPT ![u] = Closed]
      /\ UNCHANGED <<vars, disk, past, st_size, io, bytes>> /\ DataTyped
  BY DEF close_file, Ready, Inv, DataInv
<1>2. /\ handle' \in [User -> {Closed} \cup Descriptor] /\ handle'[u] = Closed
      /\ \A v \in User : v # u => handle'[v] = handle[v]
  BY <1>1, HandleSet
<1>3. CallSound(u)' /\ Others(u) /\ DOMAIN io' = User /\ bytes' \in Nat
  BY <1>1, <1>2 DEF CallSound, Idle, Others, DataTyped
<1> QED BY <1>1, <1>2, <1>3, QuietStep DEF Idle

\* A process sends a write.
LEMMA WriteKeeps ==
  ASSUME Inv, NEW u \in User, NEW count \in Nat, MayWrite(u), write_nfs(u, count)
  PROVE  Inv'
<1> DEFINE b == [k \in 1 .. count |-> bytes + k]
           e == [kind |-> "write", state |-> "sent", at |-> handle[u].write_position, bytes |-> b]
<1>1. /\ io[u] = Idle /\ handle[u] # Closed /\ Writer[handle[u].file] = u
      /\ io' = [io EXCEPT ![u] = e] /\ bytes' = bytes + count
      /\ UNCHANGED <<vars, disk, past, st_size, handle>> /\ DataTyped
  BY DEF MayWrite, write_nfs, Ready, Inv, DataInv
<1>2. DOMAIN io' = User /\ io'[u] = e /\ Others(u)
  <2> HIDE DEF e
  <2> QED BY <1>1, IoSet DEF Others
<1>3. b \in Seq(Nat)
  BY <1>1 DEF DataTyped
<1>4. StreamSound(u)
  BY <1>1 DEF Inv, DataInv
<1> HIDE DEF b
<1>5. /\ io'[u].kind = "write" /\ io'[u].state = "sent" /\ io'[u].bytes = b
      /\ io'[u].at = handle[u].write_position
  BY <1>2
<1>6. CallSound(u)'
  BY <1>1, <1>3, <1>4, <1>5 DEF CallSound, WriteSound, StreamSound
<1>7. bytes' \in Nat /\ handle' \in [User -> {Closed} \cup Descriptor]
  BY <1>1 DEF DataTyped
<1> QED BY <1>1, <1>2, <1>6, <1>7, QuietStep DEF Idle

\* A process sends a read.
LEMMA ReadKeeps ==
  ASSUME Inv, NEW u \in User, NEW count \in Nat, read_nfs(u, count)
  PROVE  Inv'
<1> DEFINE e == [kind |-> "read", state |-> "sent", at |-> handle[u].read_position, count |-> count]
<1>1. /\ io[u] = Idle /\ handle[u] # Closed /\ io' = [io EXCEPT ![u] = e]
      /\ UNCHANGED <<vars, disk, past, st_size, handle, bytes>> /\ DataTyped
  BY DEF read_nfs, Ready, Inv, DataInv
<1>2. DOMAIN io' = User /\ io'[u] = e /\ Others(u)
  <2> HIDE DEF e
  <2> QED BY <1>1, IoSet DEF Others
<1>3. StreamSound(u)
  BY <1>1 DEF Inv, DataInv
<1>4. /\ io'[u].kind = "read" /\ io'[u].state = "sent" /\ io'[u].count = count
      /\ io'[u].at = handle[u].read_position
  BY <1>2
<1>5. CallSound(u)'
  BY <1>1, <1>3, <1>4 DEF CallSound, ReadSound, StreamSound
<1>6. bytes' \in Nat /\ handle' \in [User -> {Closed} \cup Descriptor]
  BY <1>1 DEF DataTyped
<1> QED BY <1>1, <1>2, <1>5, <1>6, QuietStep DEF Idle

\* The server reads for a process.
LEMMA ServeReadKeeps ==
  ASSUME Inv, NEW u \in User, ServeRead(u)
  PROVE  Inv'
<1> DEFINE n == handle[u].file
           b == Bytes(disk[n], io[u].at, io[u].count)
           e == [kind |-> "read", state |-> "ok", count |-> io[u].count, bytes |-> b]
<1>1. /\ io[u].kind = "read" /\ io[u].state = "sent" /\ io' = [io EXCEPT ![u] = e]
      /\ UNCHANGED <<vars, disk, past, st_size, handle, bytes>> /\ DataTyped
  BY DEF ServeRead, Inv, DataInv
<1>2. DOMAIN io' = User /\ io'[u] = e /\ Others(u)
  <2> HIDE DEF e
  <2> QED BY <1>1, IoSet DEF Others
<1>3. handle[u] # Closed /\ ReadSound(io[u], handle[u]) /\ StreamSound(u)
  BY <1>1 DEF Inv, DataInv, CallSound
<1>4. /\ n \in Name /\ disk[n] \in Seq(Nat) /\ handle[u].got \in Seq(Nat)
      /\ io[u].at = Len(handle[u].got) /\ io[u].count \in Nat
      /\ Len(past[n]) = Len(disk[n]) /\ Len(handle[u].got) <= Len(disk[n])
      /\ \A k \in 1 .. Len(disk[n]) : disk[n][k] \in past[n][k]
  BY <1>1, <1>3, HandleTypes DEF ReadSound, StreamSound, Inv, DataInv, FileSound
<1> DEFINE f == disk[n]
           p == past[n]
           at == io[u].at
           count == io[u].count
           got == handle[u].got
<1>5. /\ b \in Seq(Nat) /\ at + Len(b) <= Len(p)
      /\ \A k \in 1 .. Len(b) : b[k] \in p[at + k]
  <2>0. /\ f \in Seq(Nat) /\ got \in Seq(Nat) /\ at = Len(got) /\ count \in Nat
        /\ Len(p) = Len(f) /\ Len(got) <= Len(f) /\ \A k \in 1 .. Len(f) : f[k] \in p[k]
    BY <1>4, Zenon
  <2>1. b = Bytes(f, at, count)
    OBVIOUS
  <2> HIDE DEF f, p, at, count, b, got
  <2>2. /\ f \in Seq(Nat) /\ Len(f) \in Nat /\ at \in Nat /\ at \in 0 .. Len(f) /\ count \in Nat
        /\ Len(p) = Len(f) /\ \A k \in 1 .. Len(f) : f[k] \in p[k]
    BY <2>0
  <2>3. /\ b \in Seq(Nat) /\ Len(b) \in Nat
        /\ Len(b) = IF at + count <= Len(f) THEN count ELSE Len(f) - at
        /\ \A k \in 1 .. Len(b) : b[k] = f[at + k]
    <3>1. /\ Bytes(f, at, count) \in Seq(Nat)
          /\ Len(Bytes(f, at, count)) = IF at + count <= Len(f) THEN count ELSE Len(f) - at
          /\ \A k \in 1 .. Len(Bytes(f, at, count)) : Bytes(f, at, count)[k] = f[at + k]
      BY <2>2, BytesIs, Zenon
    <3> QED BY <2>1, <3>1
  <2>4. at + Len(b) <= Len(f)
    BY <2>2, <2>3
  <2>5. \A k \in 1 .. Len(b) : at + k \in 1 .. Len(f)
    BY <2>2, <2>3, <2>4
  <2> QED BY <2>2, <2>3, <2>4, <2>5
<1> HIDE DEF b
<1>8. io'[u].kind = "read" /\ io'[u].state = "ok" /\ io'[u].bytes = b
  BY <1>2
<1>9. ReadSound(io[u], handle[u])'
  BY <1>1, <1>4, <1>5, <1>8 DEF ReadSound
<1>10. CallSound(u)'
  BY <1>1, <1>3, <1>8, <1>9 DEF CallSound
<1>11. bytes' \in Nat /\ handle' \in [User -> {Closed} \cup Descriptor]
  BY <1>1 DEF DataTyped
<1> QED BY <1>1, <1>2, <1>10, <1>11, QuietStep

\* The server refuses a call of a process.
LEMMA RefuseKeeps ==
  ASSUME Inv, NEW u \in User, Refuse(u)
  PROVE  Inv'
<1> DEFINE e == [kind |-> io[u].kind, state |-> "error"]
<1>1. /\ io[u].kind \in {"read", "write"} /\ io[u].state = "sent"
      /\ io' = [io EXCEPT ![u] = e]
      /\ UNCHANGED <<vars, disk, past, st_size, handle, bytes>> /\ DataTyped
  BY DEF Refuse, Inv, DataInv
<1>2. DOMAIN io' = User /\ io'[u] = e /\ Others(u)
  <2> HIDE DEF e
  <2> QED BY <1>1, IoSet DEF Others
<1>3. io'[u].kind = io[u].kind /\ io'[u].state = "error"
  BY <1>2
<1>4. CallSound(u)'
  BY <1>1, <1>3 DEF CallSound, ReadSound, Inv, DataInv
<1>5. bytes' \in Nat /\ handle' \in [User -> {Closed} \cup Descriptor]
  BY <1>1 DEF DataTyped
<1> QED BY <1>1, <1>2, <1>4, <1>5, QuietStep

\* A process is told that its call failed.
LEMMA FailKeeps ==
  ASSUME Inv, NEW u \in User, IoFails(u)
  PROVE  Inv'
<1>1. /\ io[u].state = "error" /\ io' = [io EXCEPT ![u] = Idle]
      /\ UNCHANGED <<vars, disk, past, st_size, handle, bytes>> /\ DataTyped
  BY DEF IoFails, Inv, DataInv
<1>2. DOMAIN io' = User /\ io'[u] = Idle /\ Others(u)
  BY <1>1, IoSet DEF Others
<1>3. CallSound(u)'
  BY <1>2 DEF CallSound, Idle
<1>4. bytes' \in Nat /\ handle' \in [User -> {Closed} \cup Descriptor]
  BY <1>1 DEF DataTyped
<1> QED BY <1>1, <1>2, <1>3, <1>4, QuietStep

\* What a concatenation holds, for streams of bytes.
LEMMA StreamGrows ==
  ASSUME NEW s \in Seq(Nat), NEW b \in Seq(Nat)
  PROVE  /\ s \o b \in Seq(Nat) /\ Len(s \o b) = Len(s) + Len(b)
         /\ Len(s) \in Nat /\ Len(b) \in Nat
         /\ \A k \in 1 .. Len(s \o b) :
              \/ k \in 1 .. Len(s) /\ (s \o b)[k] = s[k]
              \/ k - Len(s) \in 1 .. Len(b) /\ (s \o b)[k] = b[k - Len(s)]
<1> DEFINE g == s \o b
<1>1. /\ g \in Seq(Nat) /\ Len(g) = Len(s) + Len(b)
      /\ \A k \in 1 .. Len(s) + Len(b) : g[k] = IF k <= Len(s) THEN s[k] ELSE b[k - Len(s)]
  BY ConcatProperties, Zenon
<1>2. Len(s) \in Nat /\ Len(b) \in Nat
  OBVIOUS
<1> HIDE DEF g
<1>3. \A k \in 1 .. Len(g) : \/ k \in 1 .. Len(s) /\ g[k] = s[k]
                             \/ k - Len(s) \in 1 .. Len(b) /\ g[k] = b[k - Len(s)]
  BY <1>1, <1>2
<1> QED BY <1>1, <1>2, <1>3 DEF g

\* A descriptor after a read and after a write.
AfterRead(h, m, s)  == [h EXCEPT !.read_position = m, !.got = s]
AfterWrite(h, m, s) == [h EXCEPT !.write_position = m, !.put = s]

\* They are descriptors of the same file, with the other position where it was.
LEMMA ReadMoves ==
  ASSUME NEW h \in Descriptor, NEW m \in Nat, NEW s \in Seq(Nat), NEW d, d = AfterRead(h, m, s)
  PROVE  /\ d \in Descriptor /\ d.file = h.file /\ d.put = h.put /\ d.got = s
         /\ d.write_position = h.write_position /\ d.read_position = m
BY DEF Descriptor, AfterRead

LEMMA WriteMoves ==
  ASSUME NEW h \in Descriptor, NEW m \in Nat, NEW s \in Seq(Nat), NEW d, d = AfterWrite(h, m, s)
  PROVE  /\ d \in Descriptor /\ d.file = h.file /\ d.put = s /\ d.got = h.got
         /\ d.write_position = m /\ d.read_position = h.read_position
BY DEF Descriptor, AfterWrite

\* A process gets what it asked to read.
LEMMA GotKeeps ==
  ASSUME Inv, NEW u \in User, nfs_read_callback(u)
  PROVE  Inv'
<1> DEFINE h == handle[u]
           n == h.file
           b == io[u].bytes
           g == AfterRead(h, h.read_position + Len(b), h.got \o b)
<1>1. /\ io[u].kind = "read" /\ io[u].state = "ok" /\ io' = [io EXCEPT ![u] = Idle]
      /\ UNCHANGED <<vars, disk, past, st_size, bytes>> /\ DataTyped
  BY DEF nfs_read_callback, Inv, DataInv
<1>2. h # Closed /\ ReadSound(io[u], h) /\ StreamSound(u)
  BY <1>1 DEF Inv, DataInv, CallSound
<1>3. /\ h \in Descriptor /\ h.got \in Seq(Nat) /\ h.read_position \in Nat /\ b \in Seq(Nat)
      /\ Len(h.got) + Len(b) <= Len(past[n])
      /\ \A k \in 1 .. Len(b) : b[k] \in past[n][Len(h.got) + k]
  BY <1>1, <1>2, HandleTypes DEF ReadSound
<1>4. handle' = [handle EXCEPT ![u] = g]
  BY <1>1 DEF nfs_read_callback, bytes_read, DataTyped, AfterRead
<1>5. /\ h.got \o b \in Seq(Nat) /\ Len(h.got \o b) = Len(h.got) + Len(b)
      /\ Len(h.got) \in Nat /\ Len(b) \in Nat
      /\ \A k \in 1 .. Len(h.got \o b) :
           \/ k \in 1 .. Len(h.got) /\ (h.got \o b)[k] = h.got[k]
           \/ k - Len(h.got) \in 1 .. Len(b) /\ (h.got \o b)[k] = b[k - Len(h.got)]
  <2> HIDE DEF h, b
  <2> QED BY <1>3, StreamGrows
<1>6. /\ g \in Descriptor /\ g.file = n /\ g.put = h.put /\ g.write_position = h.write_position
      /\ g.got = h.got \o b /\ g.read_position = h.read_position + Len(b)
  <2> HIDE DEF b, h
  <2> DEFINE m == h.read_position + Len(b)
             s == h.got \o b
  <2>1. h \in Descriptor /\ m \in Nat /\ s \in Seq(Nat)
    BY <1>3, <1>5
  <2>2. g = AfterRead(h, m, s)
    OBVIOUS
  <2> HIDE DEF m, s, g
  <2>3. /\ g \in Descriptor /\ g.file = h.file /\ g.put = h.put /\ g.write_position = h.write_position
        /\ g.got = s /\ g.read_position = m
    BY <2>1, <2>2, ReadMoves
  <2> QED BY <2>3 DEF m, s
<1>7. /\ handle' \in [User -> {Closed} \cup Descriptor] /\ handle'[u] = g
      /\ \A v \in User : v # u => handle'[v] = handle[v]
  <2> HIDE DEF g
  <2> QED BY <1>1, <1>4, <1>6, HandleSet
<1> HIDE DEF g
<1>8. /\ Len(g.got) <= Len(past[n]) /\ g.read_position = Len(g.got)
      /\ \A k \in 1 .. Len(g.got) : g.got[k] \in past[n][k]
  <2>1. h.read_position = Len(h.got) /\ \A k \in 1 .. Len(h.got) : h.got[k] \in past[n][k]
    BY <1>2 DEF StreamSound
  <2> HIDE DEF h, b, n
  <2>2. ASSUME NEW k \in 1 .. Len(g.got) PROVE g.got[k] \in past[n][k]
    <3>1. CASE k \in 1 .. Len(h.got) /\ g.got[k] = h.got[k]
      BY <2>1, <3>1
    <3>2. CASE k - Len(h.got) \in 1 .. Len(b) /\ g.got[k] = b[k - Len(h.got)]
      <4>1. Len(h.got) + (k - Len(h.got)) = k
        BY <1>5
      <4>2. b[k - Len(h.got)] \in past[n][Len(h.got) + (k - Len(h.got))]
        BY <1>3, <3>2
      <4> QED BY <3>2, <4>1, <4>2
    <3> QED BY <1>5, <1>6, <3>1, <3>2
  <2> QED BY <1>3, <1>5, <1>6, <2>1, <2>2
<1>9. StreamSound(u)'
  <2>1. Cached' = Cached /\ disk' = disk /\ past' = past
    BY <1>1, VarsKeep DEF Inv
  <2> QED BY <1>2, <1>6, <1>7, <1>8, <2>1 DEF StreamSound
<1>10. DOMAIN io' = User /\ io'[u] = Idle /\ Others(u)
  BY <1>1, <1>7, IoSet DEF Others
<1>11. CallSound(u)' /\ bytes' \in Nat
  BY <1>1, <1>10 DEF CallSound, Idle, DataTyped
<1> QED BY <1>1, <1>7, <1>9, <1>10, <1>11, QuietStep

\* A write is remembered: each byte of the file is still among those it ever held.
LEMMA WriteRemembered ==
  ASSUME NEW f \in Seq(Nat), NEW p \in Seq(SUBSET Nat), NEW b \in Seq(Nat), NEW at \in 0 .. Len(f),
         Len(p) = Len(f), \A k \in 1 .. Len(f) : f[k] \in p[k]
  PROVE  /\ Len(Remembered(p, at, b)) = Len(Overwritten(f, at, b))
         /\ \A k \in 1 .. Len(Overwritten(f, at, b)) :
              Overwritten(f, at, b)[k] \in Remembered(p, at, b)[k]
<1> DEFINE g == Overwritten(f, at, b)
           q == Remembered(p, at, b)
<1>0. Len(f) \in Nat /\ Len(b) \in Nat /\ at \in Nat /\ at <= Len(f) /\ at \in 0 .. Len(p)
  OBVIOUS
<1>1. /\ Len(g) = IF at + Len(b) <= Len(f) THEN Len(f) ELSE at + Len(b)
      /\ \A k \in 1 .. Len(g) : g[k] = IF at < k /\ k <= at + Len(b) THEN b[k - at] ELSE f[k]
  BY OverwrittenIs
<1>2. /\ Len(q) = IF at + Len(b) <= Len(p) THEN Len(p) ELSE at + Len(b)
      /\ \A k \in 1 .. Len(p) : p[k] \subseteq q[k]
      /\ \A k \in 1 .. Len(b) : b[k] \in q[at + k]
  BY <1>0, RememberedIs
<1> HIDE DEF g, q
<1>3. Len(q) = Len(g) /\ Len(g) \in Nat
  BY <1>0, <1>1, <1>2
<1>4. ASSUME NEW k \in 1 .. Len(g) PROVE g[k] \in q[k]
  <2>1. CASE at < k /\ k <= at + Len(b)
    <3>1. k - at \in 1 .. Len(b) /\ at + (k - at) = k
      BY <1>0, <1>3, <2>1
    <3>2. b[k - at] \in q[at + (k - at)]
      BY <1>2, <3>1
    <3> QED BY <1>1, <2>1, <3>1, <3>2
  <2>2. CASE ~(at < k /\ k <= at + Len(b))
    <3>1. k \in 1 .. Len(f)
      BY <1>0, <1>1, <1>3, <2>2
    <3>2. g[k] = f[k] /\ f[k] \in p[k] /\ p[k] \subseteq q[k]
      BY <1>1, <1>2, <2>2, <3>1
    <3> QED BY <3>2
  <2> QED BY <2>1, <2>2
<1> QED BY <1>3, <1>4 DEF g, q

\* The server writes for a process.
LEMMA ServeWriteKeeps ==
  ASSUME Inv, NEW u \in User, ServeWrite(u)
  PROVE  Inv'
<1> DEFINE h == handle[u]
           n == h.file
           at == io[u].at
           b == io[u].bytes
           f == disk[n]
           p == past[n]
           g == Overwritten(f, at, b)
           q == Remembered(p, at, b)
           e == [kind |-> "write", state |-> "ok", bytes |-> b, size |-> Len(disk'[n])]
<1>1. /\ io[u].kind = "write" /\ io[u].state = "sent"
      /\ disk' = [disk EXCEPT ![n] = g] /\ past' = [past EXCEPT ![n] = q]
      /\ io' = [io EXCEPT ![u] = e]
      /\ UNCHANGED <<vars, st_size, handle, bytes>> /\ DataTyped
  BY DEF ServeWrite, Inv, DataInv
<1>2. DOMAIN io' = User /\ io'[u] = e /\ Others(u)
  <2> HIDE DEF e
  <2> QED BY <1>1, IoSet DEF Others
<1>3. h # Closed /\ Writer[n] = u /\ WriteSound(io[u], h) /\ StreamSound(u)
  BY <1>1 DEF Inv, DataInv, CallSound
<1>4. /\ n \in Name /\ f \in Seq(Nat) /\ p \in Seq(SUBSET Nat) /\ h.put \in Seq(Nat)
      /\ FileSound(n)
  BY <1>1, <1>3, HandleTypes DEF Inv, DataInv
<1>5. /\ b \in Seq(Nat) /\ at = Len(h.put) /\ Len(h.put) <= Len(f)
      /\ Len(p) = Len(f) /\ \A k \in 1 .. Len(f) : f[k] \in p[k]
  BY <1>1, <1>3, <1>4 DEF WriteSound, StreamSound, FileSound
<1>6. at \in 0 .. Len(f) /\ at \in 0 .. Len(p) /\ at \in Nat /\ Len(f) \in Nat /\ Len(b) \in Nat
  <2> HIDE DEF h, f, p, at, b
  <2> QED BY <1>4, <1>5
<1>7. /\ g \in Seq(Nat) /\ Len(g) = (IF at + Len(b) <= Len(f) THEN Len(f) ELSE at + Len(b))
      /\ \A k \in 1 .. Len(g) : g[k] = IF at < k /\ k <= at + Len(b) THEN b[k - at] ELSE f[k]
  <2> HIDE DEF h, f, p, at, b
  <2> QED BY <1>4, <1>5, <1>6, OverwrittenIs
<1>8. /\ q \in Seq(SUBSET Nat) /\ Len(q) = (IF at + Len(b) <= Len(p) THEN Len(p) ELSE at + Len(b))
      /\ \A k \in 1 .. Len(p) : p[k] \subseteq q[k]
  <2> HIDE DEF h, f, p, at, b
  <2> QED BY <1>4, <1>5, <1>6, RememberedIs
<1>9. Len(q) = Len(g) /\ \A k \in 1 .. Len(g) : g[k] \in q[k]
  <2> HIDE DEF h, f, p, at, b
  <2> QED BY <1>4, <1>5, <1>6, WriteRemembered
<1>10. /\ disk' \in [Name -> Seq(Nat)] /\ past' \in [Name -> Seq(SUBSET Nat)]
       /\ disk'[n] = g /\ past'[n] = q
       /\ \A m \in Name : m # n => disk'[m] = disk[m] /\ past'[m] = past[m]
  <2>1. disk \in [Name -> Seq(Nat)] /\ past \in [Name -> Seq(SUBSET Nat)]
    BY <1>1 DEF DataTyped
  <2> HIDE DEF n, g, q
  <2> QED BY <1>1, <1>4, <1>7, <1>8, <2>1
<1>11. Len(p) <= Len(q) /\ at + Len(b) <= Len(g) /\ Len(f) <= Len(g) /\ Len(g) \in Nat
  <2> HIDE DEF h, f, p, at, b, g, q
  <2> QED BY <1>5, <1>6, <1>7, <1>8
<1>12. Grown(u)
  <2> HIDE DEF h, n, at, b, g, q
  <2> QED BY <1>3, <1>8, <1>10, <1>11 DEF Grown
<1>13. DataTyped'
  BY <1>1, <1>2, <1>10 DEF DataTyped
<1>14. CacheInv' /\ Cached' = Cached
  BY <1>1, VarsKeep DEF Inv
<1>15. io'[u].kind = "write" /\ io'[u].state = "ok" /\ io'[u].bytes = b /\ io'[u].size = Len(g)
  BY <1>2, <1>10
<1>16. CallSound(u)'
  <2>1. ASSUME NEW k \in 1 .. Len(b) PROVE g[at + k] = b[k]
    <3> HIDE DEF h, f, p, at, b, g
    <3>1. at + k \in 1 .. Len(g) /\ at < at + k /\ at + k <= at + Len(b) /\ (at + k) - at = k
      BY <1>6, <1>11
    <3> QED BY <1>7, <3>1
  <2>2. handle'[u] = h /\ disk'[h.file] = g /\ Len(h.put) = at
    BY <1>1, <1>5, <1>10
  <2>3. WriteSound(io[u], handle[u])'
    <3> HIDE DEF h, at, b, g
    <3> QED BY <1>5, <1>11, <1>15, <2>1, <2>2 DEF WriteSound
  <2> QED BY <1>3, <1>15, <2>2, <2>3 DEF CallSound
<1>17. StreamSound(u)'
  <2>1. \A k \in 1 .. Len(h.put) : h.put[k] = f[k]
    BY <1>3 DEF StreamSound
  <2>2. ASSUME NEW k \in 1 .. Len(h.put) PROVE h.put[k] = g[k]
    <3> HIDE DEF h, f, p, at, b, g
    <3>1. k \in 1 .. Len(g) /\ ~(at < k)
      BY <1>5, <1>6, <1>11
    <3> QED BY <1>7, <2>1, <3>1
  <2>3. Len(h.put) <= Len(g) /\ Len(h.got) <= Len(q) /\ \A k \in 1 .. Len(h.got) : h.got[k] \in q[k]
    <3>1. Len(h.got) <= Len(p) /\ (\A k \in 1 .. Len(h.got) : h.got[k] \in p[k]) /\ h.got \in Seq(Nat)
      BY <1>1, <1>3, HandleTypes DEF StreamSound
    <3> HIDE DEF h, f, p, at, b, g, q
    <3>2. Len(h.got) \in Nat /\ Len(p) \in Nat /\ \A k \in 1 .. Len(h.got) : k \in 1 .. Len(p)
      BY <1>5, <1>6, <3>1
    <3> QED BY <1>5, <1>6, <1>8, <1>9, <1>11, <3>1, <3>2
  <2>4. handle'[u] = h /\ disk'[h.file] = g /\ past'[h.file] = q
    BY <1>1, <1>10
  <2>5. /\ h.file \in Cached' /\ Writer[h.file] = u
        /\ h.write_position = Len(h.put) /\ h.read_position = Len(h.got)
    BY <1>3, <1>14 DEF StreamSound
  <2> HIDE DEF h, g, q
  <2> QED BY <2>2, <2>3, <2>4, <2>5 DEF StreamSound
<1>18. ASSUME NEW m \in Name PROVE FileSound(m)'
  <2>1. FileSound(m) /\ Writer[m] \in User
    BY Constants DEF Inv, DataInv
  <2>2. CASE m = n
    <3>1. n \in Cached' /\ handle'[u] = h
      BY <1>1, <1>3, <1>14 DEF StreamSound
    <3> HIDE DEF g, q
    <3> QED BY <1>3, <1>9, <1>10, <1>15, <2>2, <3>1 DEF FileSound
  <2>3. CASE m # n
    <3>1. disk'[m] = disk[m] /\ past'[m] = past[m] /\ st_size' = st_size
      BY <1>1, <1>10, <2>3
    <3>2. CASE Writer[m] = u
      <4>1. m \in Cached => st_size[m] = Len(disk[m])
        BY <1>1, <2>1, <3>2 DEF FileSound
      <4> QED BY <1>14, <2>1, <3>1, <4>1 DEF FileSound
    <3>3. CASE Writer[m] # u
      <4>1. io'[Writer[m]] = io[Writer[m]] /\ handle' = handle
        BY <1>1, <1>2, <2>1, <3>3 DEF Others
      <4> QED BY <1>14, <2>1, <3>1, <4>1 DEF FileSound
    <3> QED BY <3>2, <3>3
  <2> QED BY <2>2, <2>3
<1> QED BY <1>2, <1>12, <1>13, <1>14, <1>16, <1>17, <1>18, Assemble

\* A process is told that what it wrote was written.
LEMMA PutKeeps ==
  ASSUME Inv, NEW u \in User, nfs_write_callback(u)
  PROVE  Inv'
<1> DEFINE h == handle[u]
           n == h.file
           b == io[u].bytes
           g == AfterWrite(h, h.write_position + Len(b), h.put \o b)
<1>1. /\ io[u].kind = "write" /\ io[u].state = "ok" /\ io' = [io EXCEPT ![u] = Idle]
      /\ st_size' = [st_size EXCEPT ![n] = io[u].size]
      /\ UNCHANGED <<vars, disk, past, bytes>> /\ DataTyped
  BY DEF nfs_write_callback, new_size, Inv, DataInv
<1>2. h # Closed /\ Writer[n] = u /\ WriteSound(io[u], h) /\ StreamSound(u)
  BY <1>1 DEF Inv, DataInv, CallSound
<1>3. /\ h \in Descriptor /\ n \in Name /\ h.put \in Seq(Nat) /\ h.write_position \in Nat
      /\ b \in Seq(Nat) /\ io[u].size = Len(disk[n]) /\ Len(disk[n]) \in Nat
      /\ Len(h.put) + Len(b) <= Len(disk[n])
      /\ \A k \in 1 .. Len(b) : disk[n][Len(h.put) + k] = b[k]
  BY <1>1, <1>2, HandleTypes DEF WriteSound
<1>4. handle' = [handle EXCEPT ![u] = g]
  BY <1>1 DEF nfs_write_callback, DataTyped, AfterWrite
<1>5. /\ h.put \o b \in Seq(Nat) /\ Len(h.put \o b) = Len(h.put) + Len(b)
      /\ Len(h.put) \in Nat /\ Len(b) \in Nat
      /\ \A k \in 1 .. Len(h.put \o b) :
           \/ k \in 1 .. Len(h.put) /\ (h.put \o b)[k] = h.put[k]
           \/ k - Len(h.put) \in 1 .. Len(b) /\ (h.put \o b)[k] = b[k - Len(h.put)]
  <2> HIDE DEF h, b
  <2> QED BY <1>3, StreamGrows
<1>6. /\ g \in Descriptor /\ g.file = n /\ g.got = h.got /\ g.read_position = h.read_position
      /\ g.put = h.put \o b /\ g.write_position = h.write_position + Len(b)
  <2> HIDE DEF b, h
  <2> DEFINE m == h.write_position + Len(b)
             s == h.put \o b
  <2>1. h \in Descriptor /\ m \in Nat /\ s \in Seq(Nat)
    BY <1>3, <1>5
  <2>2. g = AfterWrite(h, m, s)
    OBVIOUS
  <2> HIDE DEF m, s, g
  <2>3. /\ g \in Descriptor /\ g.file = h.file /\ g.got = h.got /\ g.read_position = h.read_position
        /\ g.put = s /\ g.write_position = m
    BY <2>1, <2>2, WriteMoves
  <2> QED BY <2>3 DEF m, s
<1>7. /\ handle' \in [User -> {Closed} \cup Descriptor] /\ handle'[u] = g
      /\ \A v \in User : v # u => handle'[v] = handle[v]
  <2> HIDE DEF g
  <2> QED BY <1>1, <1>4, <1>6, HandleSet
<1> HIDE DEF g
<1>8. /\ Len(g.put) <= Len(disk[n]) /\ g.write_position = Len(g.put)
      /\ \A k \in 1 .. Len(g.put) : g.put[k] = disk[n][k]
  <2>1. h.write_position = Len(h.put) /\ \A k \in 1 .. Len(h.put) : h.put[k] = disk[n][k]
    BY <1>2 DEF StreamSound
  <2> HIDE DEF h, b, n
  <2>2. ASSUME NEW k \in 1 .. Len(g.put) PROVE g.put[k] = disk[n][k]
    <3>1. CASE k \in 1 .. Len(h.put) /\ g.put[k] = h.put[k]
      BY <2>1, <3>1
    <3>2. CASE k - Len(h.put) \in 1 .. Len(b) /\ g.put[k] = b[k - Len(h.put)]
      <4>1. Len(h.put) + (k - Len(h.put)) = k
        BY <1>5
      <4>2. disk[n][Len(h.put) + (k - Len(h.put))] = b[k - Len(h.put)]
        BY <1>3, <3>2
      <4> QED BY <3>2, <4>1, <4>2
    <3> QED BY <1>5, <1>6, <3>1, <3>2
  <2> QED BY <1>3, <1>5, <1>6, <2>1, <2>2
<1>9. CacheInv' /\ Cached' = Cached
  BY <1>1, VarsKeep DEF Inv
<1>10. StreamSound(u)'
  BY <1>1, <1>2, <1>6, <1>7, <1>8, <1>9 DEF StreamSound
<1>11. DOMAIN io' = User /\ io'[u] = Idle /\ Others(u)
  BY <1>1, <1>7, IoSet DEF Others
<1>12. CallSound(u)' /\ Grown(u)
  BY <1>1, <1>11 DEF CallSound, Idle, Grown
<1>13. /\ st_size' \in [Name -> Nat] /\ st_size'[n] = Len(disk[n])
       /\ \A m \in Name : m # n => st_size'[m] = st_size[m]
  <2>1. st_size \in [Name -> Nat] /\ io[u].size \in Nat
    BY <1>1, <1>3 DEF DataTyped
  <2> HIDE DEF n
  <2> QED BY <1>1, <1>3, <2>1
<1>14. DataTyped'
  BY <1>1, <1>7, <1>11, <1>13 DEF DataTyped
<1>15. ASSUME NEW m \in Name PROVE FileSound(m)'
  <2>1. FileSound(m) /\ Writer[m] \in User
    BY Constants DEF Inv, DataInv
  <2>2. CASE m = n
    BY <1>1, <1>9, <1>13, <2>1, <2>2 DEF FileSound
  <2>3. CASE m # n /\ Writer[m] = u
    <3>1. m \in Cached => st_size[m] = Len(disk[m])
      BY <2>1, <2>3 DEF FileSound
    <3> QED BY <1>1, <1>9, <1>13, <2>1, <2>3, <3>1 DEF FileSound
  <2>4. CASE m # n /\ Writer[m] # u
    <3>1. io'[Writer[m]] = io[Writer[m]] /\ handle'[Writer[m]] = handle[Writer[m]]
      BY <1>11, <2>1, <2>4 DEF Others
    <3> QED BY <1>1, <1>9, <1>13, <2>1, <2>4, <3>1 DEF FileSound
  <2> QED BY <2>2, <2>3, <2>4
<1> QED BY <1>9, <1>10, <1>11, <1>12, <1>14, <1>15, Assemble

\* A process creates a file.
LEMMA CreationKeeps ==
  ASSUME Inv, OneCreator, NEW u \in User, NEW n \in Name, u \in Opener[n], create_nfs(u, n)
  PROVE  Inv'
<1> DEFINE e == [kind |-> "create", file |-> n]
<1>0. n \in Created /\ Writer[n] = u /\ Asker(n) = u
  BY Constants DEF OneCreator, Asker
<1>1. /\ shell = "started" /\ io[u] = Idle /\ n \notin Cached
      /\ pending' = pending \cup {<<"create", n, Asker(n)>>} /\ io' = [io EXCEPT ![u] = e]
      /\ UNCHANGED <<file_cache, file_cache_initialized, failed, init, swap_fd, shell, halted>>
      /\ UNCHANGED <<disk, past, st_size, handle, bytes>> /\ DataTyped /\ CacheInv
  BY <1>0 DEF create_nfs, Ready, Inv, DataInv
<1>2. init = "done" /\ init' = init
  BY <1>1 DEF CacheInv, CacheTyped
<1>3. CacheInv' /\ Cached' = Cached
  <2>1. Cached' = Cached
    BY <1>1 DEF Cached
  <2> QED BY <1>0, <1>1, <1>2, <2>1, CreateKeeps
<1>4. DOMAIN io' = User /\ io'[u] = e /\ Others(u)
  <2> HIDE DEF e
  <2> QED BY <1>1, IoSet DEF Others
<1>5. io'[u].kind = "create" /\ io'[u].file = n
  BY <1>4
<1>6. CallSound(u)'
  BY <1>0, <1>1, <1>5 DEF CallSound
<1>7. handle'[u] # Closed => StreamSound(u)'
  BY <1>1, <1>3 DEF Inv, DataInv, StreamSound
<1>8. DataTyped' /\ Grown(u)
  BY <1>1, <1>4 DEF DataTyped, Grown
<1>9. \A m \in Name : FileSound(m)'
  BY <1>1, <1>3, <1>4, FilesKeep DEF Idle
<1> QED BY <1>3, <1>4, <1>6, <1>7, <1>8, <1>9, Assemble

\* The answer to a creation.
LEMMA CreatedKeeps ==
  ASSUME Inv, NEW u \in User, NEW ok \in BOOLEAN, nfs_create_callback(u, ok)
  PROVE  Inv'
<1> DEFINE n == io[u].file
           h == create_file_descriptor(n)
<1>1. /\ io[u].kind = "create" /\ nfs_set_status(<<"create", n, u>>, ok)
      /\ disk' = (IF ok THEN [disk EXCEPT ![n] = <<>>] ELSE disk)
      /\ st_size' = (IF ok THEN [st_size EXCEPT ![n] = 0] ELSE st_size)
      /\ \/ halted' /\ UNCHANGED <<handle, io>>
         \/ /\ ~halted' /\ handle' = (IF ok THEN [handle EXCEPT ![u] = h] ELSE handle)
            /\ io' = [io EXCEPT ![u] = Idle]
      /\ UNCHANGED <<swap_fd, past, bytes>> /\ DataTyped /\ CacheInv /\ CallSound(u)
  BY DEF nfs_create_callback, Inv, DataInv
<1>2. n \in Created /\ n \in Name /\ Writer[n] = u
  BY <1>1, Constants DEF CallSound
<1>3. /\ CacheInv' /\ n \notin Cached
      /\ Cached' = Cached \/ (ok /\ Cached' = Cached \cup {n})
      /\ ok /\ ~halted' => n \in Cached'
  <2> DEFINE call == <<"create", n, u>>
  <2>1. call[2] = n /\ swap_fd' \subseteq {SWAP_FD, SWAP_FD + 1}
    BY <1>1 DEF CacheInv, CacheTyped
  <2> HIDE DEF call
  <2> QED BY <1>1, <2>1, StatusKeeps DEF call
<1>11. disk' = disk
  <2>1. disk[n] = <<>> /\ disk \in [Name -> Seq(Nat)]
    BY <1>1, <1>2, <1>3 DEF Inv, DataInv, FileSound, DataTyped
  <2> HIDE DEF n
  <2> QED BY <1>1, <1>2, <2>1
<1>4. h \in Descriptor
  BY <1>2 DEF create_file_descriptor, Descriptor
<1>5. /\ handle' \in [User -> {Closed} \cup Descriptor] /\ DOMAIN io' = User /\ Others(u)
      /\ handle'[u] = handle[u] \/ (ok /\ ~halted' /\ handle'[u] = h)
      /\ io'[u] = io[u] \/ io'[u] = Idle
  <2>1. CASE UNCHANGED <<handle, io>>
    BY <1>1, <2>1 DEF DataTyped, Others
  <2>2. CASE /\ ~halted' /\ handle' = (IF ok THEN [handle EXCEPT ![u] = h] ELSE handle)
             /\ io' = [io EXCEPT ![u] = Idle]
    <3>1. DOMAIN io' = User /\ io'[u] = Idle /\ \A v \in User : v # u => io'[v] = io[v]
      BY <1>1, <2>2, IoSet
    <3> HIDE DEF h
    <3>2. CASE ok
      <4>1. /\ handle' \in [User -> {Closed} \cup Descriptor] /\ handle'[u] = h
            /\ \A v \in User : v # u => handle'[v] = handle[v]
        BY <1>1, <1>4, <2>2, <3>2, HandleSet
      <4> QED BY <2>2, <3>1, <3>2, <4>1 DEF Others
    <3>3. CASE ~ok
      BY <1>1, <2>2, <3>1, <3>3 DEF Others, DataTyped
    <3> QED BY <3>2, <3>3
  <2> QED BY <1>1, <2>1, <2>2
<1>6. /\ st_size' \in [Name -> Nat] /\ (ok => st_size'[n] = 0)
      /\ \A m \in Name : m # n => st_size'[m] = st_size[m]
  <2>1. st_size \in [Name -> Nat]
    BY <1>1 DEF DataTyped
  <2> HIDE DEF n
  <2> QED BY <1>1, <1>2, <2>1
<1>7. DataTyped' /\ Grown(u) /\ Cached \subseteq Cached'
  BY <1>1, <1>3, <1>5, <1>6, <1>11 DEF DataTyped, Grown
<1>8. CallSound(u)'
  <2>1. CASE io'[u] = io[u]
    BY <1>1, <1>11, <2>1 DEF CallSound
  <2>2. CASE io'[u] = Idle
    BY <2>2 DEF CallSound, Idle
  <2> QED BY <1>5, <2>1, <2>2
<1>9. handle'[u] # Closed => StreamSound(u)'
  <2>1. CASE handle'[u] = handle[u]
    BY <1>1, <1>7, <1>11, <2>1 DEF Inv, DataInv, StreamSound
  <2>2. CASE ok /\ ~halted' /\ handle'[u] = h
    <3>1. /\ handle'[u].file = n /\ handle'[u].put = <<>> /\ handle'[u].got = <<>>
          /\ handle'[u].write_position = 0 /\ handle'[u].read_position = 0
      BY <2>2 DEF create_file_descriptor
    <3>2. Len(<<>>) = 0 /\ Len(disk'[n]) \in Nat /\ Len(past'[n]) \in Nat /\ n \in Cached'
      BY <1>1, <1>2, <1>3, <1>11, <2>2 DEF DataTyped
    <3> HIDE DEF n, h
    <3> QED BY <3>1, <3>2 DEF StreamSound
  <2> QED BY <1>5, <2>1, <2>2
<1>10. ASSUME NEW m \in Name PROVE FileSound(m)'
  <2>1. FileSound(m) /\ Writer[m] \in User
    BY Constants DEF Inv, DataInv
  <2>2. CASE m = n
    <3>1. disk[m] = <<>> /\ Len(disk[m]) = 0
      BY <1>2, <1>3, <2>1, <2>2 DEF FileSound
    <3>2. m \in Cached' => ok
      BY <1>3, <2>2
    <3>3. m \in Cached' => st_size'[m] = Len(disk'[m])
      BY <1>1, <1>6, <1>11, <2>2, <3>1, <3>2
    <3> QED BY <1>1, <1>11, <2>1, <3>1, <3>3 DEF FileSound
  <2>3. CASE m # n
    <3>1. disk' = disk /\ past' = past /\ st_size'[m] = st_size[m] /\ (m \in Cached' <=> m \in Cached)
      BY <1>1, <1>3, <1>6, <1>11, <2>3
    <3>2. CASE Writer[m] = u
      <4>1. m \in Cached => st_size[m] = Len(disk[m])
        BY <1>1, <2>1, <3>2 DEF FileSound
      <4> QED BY <2>1, <3>1, <4>1 DEF FileSound
    <3>3. CASE Writer[m] # u
      <4>1. io'[Writer[m]] = io[Writer[m]] /\ handle'[Writer[m]] = handle[Writer[m]]
        BY <1>5, <2>1, <3>3 DEF Others
      <4> QED BY <2>1, <3>1, <4>1 DEF FileSound
    <3> QED BY <3>2, <3>3
  <2> QED BY <2>2, <2>3
<1> QED BY <1>3, <1>5, <1>7, <1>8, <1>9, <1>10, Assemble

\* A step of the boot: a file of the processes that it enters has its size with it.
LEMMA BootKeeps ==
  ASSUME Inv, CacheInv', UNCHANGED <<disk, past, handle, io, bytes>>, Cached \subseteq Cached',
         st_size' \in [Name -> Nat],
         \A n \in Name : n \in Cached => st_size'[n] = st_size[n],
         \A n \in Name : n \in Cached' /\ n \notin Cached => st_size'[n] = Len(disk[n])
  PROVE  Inv'
<1>1. DataTyped'
  BY DEF Inv, DataInv, DataTyped
<1>2. ASSUME NEW u \in User PROVE CallSound(u)' /\ (handle'[u] # Closed => StreamSound(u)')
  <2>1. CallSound(u) /\ (handle[u] # Closed => StreamSound(u))
    BY DEF Inv, DataInv
  <2>2. CallSound(u)'
    BY <2>1 DEF CallSound, WriteSound, ReadSound
  <2>3. handle'[u] # Closed => StreamSound(u)'
    BY <2>1 DEF StreamSound
  <2> QED BY <2>2, <2>3
<1>3. ASSUME NEW n \in Name PROVE FileSound(n)'
  <2>1. FileSound(n)
    BY DEF Inv, DataInv
  <2>2. CASE n \in Cached
    BY <2>1, <2>2 DEF FileSound
  <2>3. CASE n \notin Cached
    BY <2>1, <2>3 DEF FileSound
  <2> QED BY <2>2, <2>3
<1> QED BY <1>1, <1>2, <1>3 DEF Inv, DataInv

\* The init thread enters nothing but the console.
LEMMA ThreadEnters ==
  ASSUME CacheInv, InitThread
  PROVE  Cached \subseteq Cached' /\ Cached' \subseteq Cached \cup {"console"}
<1>1. CASE file_cache' = file_cache
  BY <1>1 DEF Cached
<1>2. CASE file_cache_insert("console") /\ file_cache' # file_cache
  <2>1. /\ file_cache' = Append(file_cache, "console") /\ file_cache \in Seq(Filename)
        /\ "console" \in Filename
    BY <1>2, Constants DEF file_cache_insert, CacheInv, CacheTyped
  <2>2. /\ file_cache' \in Seq(Filename) /\ Len(file_cache') = Len(file_cache) + 1
        /\ {file_cache'[k] : k \in 1 .. Len(file_cache) + 1}
             = {file_cache[k] : k \in 1 .. Len(file_cache)} \cup {"console"}
    <3>1. /\ Append(file_cache, "console") \in Seq(Filename)
          /\ Len(Append(file_cache, "console")) = Len(file_cache) + 1
          /\ {Append(file_cache, "console")[k] : k \in 1 .. Len(file_cache) + 1}
               = {file_cache[k] : k \in 1 .. Len(file_cache)} \cup {"console"}
      BY <2>1, AppendIs
    <3> QED BY <2>1, <3>1
  <2>3. Cached = {file_cache[k] : k \in 1 .. Len(file_cache)}
    BY <2>1 DEF Cached, Range
  <2>4. Cached' = {file_cache'[k] : k \in 1 .. Len(file_cache')}
    BY <2>2 DEF Cached, Range
  <2> QED BY <2>2, <2>3, <2>4
<1> QED BY <1>1, <1>2 DEF InitThread, io_init, StartShell

\* The boot keeps the invariant.
LEMMA BootNext ==
  ASSUME Inv, NoConsoleFile, Boot
  PROVE  Inv'
<1>0. CacheInv /\ st_size \in [Name -> Nat] /\ disk \in [Name -> Seq(Nat)]
  BY DEF Inv, DataInv, DataTyped
<1>1. CASE InitThread /\ UNCHANGED data
  <2>1. CacheInv'
    BY <1>0, <1>1, IoInitKeeps, ShellKeeps DEF InitThread
  <2>2. Cached \subseteq Cached' /\ Cached' \subseteq Cached \cup {"console"}
    BY <1>0, <1>1, ThreadEnters
  <2>3. "console" \notin Name
    BY Constants DEF NoConsoleFile
  <2>4. UNCHANGED <<disk, past, st_size, handle, io, bytes>>
    BY <1>1 DEF data
  <2>5. \A n \in Name : n \in Cached' => n \in Cached
    BY <2>2, <2>3
  <2> QED BY <1>0, <2>1, <2>2, <2>4, <2>5, BootKeeps
<1>2. ASSUME NEW call \in pending, NEW ok \in BOOLEAN, BootAnswer(call, ok) PROVE Inv'
  <2>1. UNCHANGED <<disk, past, handle, io, bytes>> /\ Answer(call, ok)
    BY <1>2 DEF BootAnswer
  <2>2. CASE nfs_set_status(call, ok)
    <3>1. /\ CacheInv' /\ call[2] \notin Cached
          /\ Cached' = Cached \/ (ok /\ Cached' = Cached \cup {call[2]})
      BY <1>0, <2>1, <2>2, AnswerDescriptors, StatusKeeps
    <3>2. CASE call[1] = "lookup" /\ ok /\ call[2] \in Name
      <4> DEFINE n == call[2]
      <4>1. st_size' = [st_size EXCEPT ![n] = Len(disk[n])] /\ n \in Name /\ Len(disk[n]) \in Nat
        BY <1>0, <1>2, <3>2 DEF BootAnswer
      <4> HIDE DEF n
      <4>2. /\ st_size' \in [Name -> Nat] /\ st_size'[n] = Len(disk[n])
            /\ \A m \in Name : m # n => st_size'[m] = st_size[m]
        BY <1>0, <4>1
      <4>3. \A m \in Name : m \in Cached' /\ m \notin Cached => m = n
        BY <3>1 DEF n
      <4>4. n \notin Cached
        BY <3>1 DEF n
      <4> QED BY <2>1, <3>1, <4>2, <4>3, <4>4, BootKeeps
    <3>3. CASE ~(call[1] = "lookup" /\ ok /\ call[2] \in Name)
      <4>1. st_size' = st_size
        BY <1>2, <3>3 DEF BootAnswer
      <4>2. call[1] = "create" => call[2] = "swap"
        <5>1. call \in Call /\ (call[1] = "create" => call[3] = L4_nilthread)
          BY <1>0, <1>2 DEF BootAnswer, CacheInv, CacheTyped
        <5>2. \A n \in Created : Writer[n] # L4_nilthread
          BY Constants
        <5> QED BY <5>1, <5>2, CallIs DEF Asker
      <4>3. call[1] \in {"create", "lookup"} /\ "swap" \notin Name
        BY <2>2, Constants DEF nfs_set_status
      <4>4. \A m \in Name : m \in Cached' => m \in Cached
        BY <3>1, <3>3, <4>2, <4>3
      <4> QED BY <1>0, <2>1, <3>1, <4>1, <4>4, BootKeeps
    <3> QED BY <3>2, <3>3
  <2>3. CASE call[1] = "readdir" /\ nfs_readdir_callback(call[2], ok)
    <3>1. CacheInv' /\ Cached' = Cached
      BY <1>0, <2>3, ReaddirKeeps
    <3>2. st_size' = st_size
      BY <1>2, <2>3 DEF BootAnswer
    <3> QED BY <1>0, <2>1, <3>1, <3>2, BootKeeps
  <2> QED BY <2>1, <2>2, <2>3 DEF Answer
<1> QED BY <1>1, <1>2 DEF Boot

\* What a process does keeps the invariant.
LEMMA UseNext ==
  ASSUME Inv, OneCreator, NEW u \in User, Use(u)
  PROVE  Inv'
<1>1. ASSUME NEW n \in Name, open_file(u, n) \/ (u \in Opener[n] /\ create_nfs(u, n)) PROVE Inv'
  BY <1>1, OpenKeeps, CreationKeeps
<1>2. ASSUME NEW ok \in BOOLEAN, nfs_create_callback(u, ok) PROVE Inv'
  BY <1>2, CreatedKeeps
<1>3. ASSUME NEW count \in Amount, (MayWrite(u) /\ write_nfs(u, count)) \/ read_nfs(u, count) PROVE Inv'
  <2>1. count \in Nat
    BY Constants
  <2> QED BY <1>3, <2>1, WriteKeeps, ReadKeeps
<1>4. CASE ServeWrite(u) \/ ServeRead(u) \/ Refuse(u)
  BY <1>4, ServeWriteKeeps, ServeReadKeeps, RefuseKeeps
<1>5. CASE nfs_write_callback(u) \/ nfs_read_callback(u) \/ IoFails(u) \/ close_file(u)
  BY <1>5, PutKeeps, GotKeeps, FailKeeps, CloseKeeps
<1> QED BY <1>1, <1>2, <1>3, <1>4, <1>5 DEF Use

\* The invariant holds when the system starts.
LEMMA DataInit == InitData => Inv
<1> SUFFICES ASSUME InitData PROVE Inv
  OBVIOUS
<1>1. CacheInv /\ Cached = {}
  BY CacheInit DEF InitData, Init, Cached, Range
<1>2. /\ disk = [n \in Name |-> IF n \in Files THEN <<0, 0>> ELSE <<>>]
      /\ past = [n \in Name |-> IF n \in Files THEN <<{0}, {0}>> ELSE <<>>]
      /\ st_size = [n \in Name |-> 0] /\ handle = [u \in User |-> Closed]
      /\ io = [u \in User |-> Idle] /\ bytes = 0
  BY DEF InitData
<1>3. /\ <<0, 0>> \in Seq(Nat) /\ <<>> \in Seq(Nat) /\ Len(<<0, 0>>) = 2 /\ Len(<<>>) = 0
      /\ <<{0}, {0}>> \in Seq(SUBSET Nat) /\ <<>> \in Seq(SUBSET Nat) /\ Len(<<{0}, {0}>>) = 2
  OBVIOUS
<1>4. DataTyped
  BY <1>2, <1>3 DEF DataTyped
<1>5. \A u \in User : CallSound(u) /\ handle[u] = Closed
  BY <1>2 DEF CallSound, Idle
<1>6. ASSUME NEW n \in Name PROVE FileSound(n)
  <2>1. n \in Created => n \notin Files
    BY Constants
  <2>2. CASE n \in Files
    <3>1. disk[n] = <<0, 0>> /\ past[n] = <<{0}, {0}>> /\ n \notin Cached /\ n \notin Created
      BY <1>1, <1>2, <2>1, <2>2
    <3>2. \A k \in 1 .. 2 : <<0, 0>>[k] \in <<{0}, {0}>>[k]
      OBVIOUS
    <3> QED BY <1>3, <3>1, <3>2 DEF FileSound
  <2>3. CASE n \notin Files
    <3>1. disk[n] = <<>> /\ past[n] = <<>> /\ n \notin Cached
      BY <1>1, <1>2, <2>3
    <3> QED BY <1>3, <3>1 DEF FileSound
  <2> QED BY <2>2, <2>3
<1> QED BY <1>1, <1>4, <1>5, <1>6 DEF Inv, DataInv

\* Every step of the whole system keeps the invariant.
LEMMA DataNext ==
  ASSUME Inv, NoConsoleFile, OneCreator, [Boot \/ \E u \in User : Use(u)]_allVars
  PROVE  Inv'
<1>1. CASE Boot
  BY <1>1, BootNext
<1>2. CASE \E u \in User : Use(u)
  BY <1>2, UseNext
<1>3. CASE UNCHANGED allVars
  <2>1. UNCHANGED vars /\ UNCHANGED <<disk, past, st_size, handle, io, bytes>>
    BY <1>3 DEF allVars, data
  <2>2. CacheInv' /\ Cached' = Cached
    BY <2>1, VarsKeep DEF Inv
  <2>3. st_size' \in [Name -> Nat]
    BY <2>1 DEF Inv, DataInv, DataTyped
  <2> QED BY <2>1, <2>2, <2>3, BootKeeps
<1> QED BY <1>1, <1>2, <1>3

-----------------------------------------------------------------------------
(***************************************************************************)
(* Theorems.                                                               *)
(***************************************************************************)

\* The invariant says what stat reports.
LEMMA SizesSuffice ==
  ASSUME Inv
  PROVE  SizesExact
BY DEF Inv, DataInv, FileSound, SizesExact

\* The invariant says what the streams of a process are.
LEMMA StreamsSuffice ==
  ASSUME Inv
  PROVE  StreamsIntact
<1> SUFFICES ASSUME NEW u \in User, handle[u] # Closed
             PROVE  LET h == handle[u] IN
                    /\ h.put = Bytes(disk[h.file], 0, Len(h.put))
                    /\ Len(h.got) <= Len(past[h.file])
                    /\ \A k \in 1 .. Len(h.got) : h.got[k] \in past[h.file][k]
  BY DEF StreamsIntact
<1> DEFINE h == handle[u]
           f == disk[h.file]
           s == h.put
           b == Bytes(f, 0, Len(s))
<1>1. StreamSound(u) /\ DataTyped
  BY DEF Inv, DataInv
<1>2. f \in Seq(Nat) /\ s \in Seq(Nat) /\ Len(s) <= Len(f) /\ \A k \in 1 .. Len(s) : s[k] = f[k]
  BY <1>1, HandleTypes DEF StreamSound
<1>3. s = b
  <2> HIDE DEF f, s
  <2>1. Len(f) \in Nat /\ Len(s) \in Nat /\ 0 \in 0 .. Len(f) /\ 0 + Len(s) <= Len(f)
    BY <1>2
  <2>2. /\ b \in Seq(Nat) /\ Len(b) = (IF 0 + Len(s) <= Len(f) THEN Len(s) ELSE Len(f) - 0)
        /\ \A k \in 1 .. Len(b) : b[k] = f[0 + k]
    BY <1>2, <2>1, BytesIs
  <2> HIDE DEF b
  <2>3. Len(b) = Len(s) /\ \A k \in 1 .. Len(s) : b[k] = s[k]
    BY <1>2, <2>1, <2>2
  <2> QED BY <1>2, <2>2, <2>3, SeqEqual
<1> QED BY <1>1, <1>3 DEF StreamSound

\* Whatever the order of the answers, the console is entry 0 of the cache, the cache does
\* not grow past its array, and no name is in it twice: while the system boots, ...
THEOREM CacheStaysSound ==
  ASSUME NoConsoleFile
  PROVE  Spec => []CacheSound
<1>1. Init => CacheInv
  BY CacheInit
<1>2. CacheInv /\ [Next]_vars => CacheInv'
  BY CacheNext
<1>3. CacheInv => CacheSound
  BY CacheInvSuffices
<1> QED BY <1>1, <1>2, <1>3, PTL DEF Spec

\* The invariant of the whole system.
LEMMA DataInvariant ==
  ASSUME NoConsoleFile, OneCreator
  PROVE  SpecData => []Inv
<1>1. InitData => Inv
  BY DataInit
<1>2. Inv /\ [Boot \/ \E u \in User : Use(u)]_allVars => Inv'
  BY DataNext
<1> QED BY <1>1, <1>2, PTL DEF SpecData

\* ... and while processes create files, although lookups of the boot may still be
\* outstanding then, as long as only one process creates a file and none opens a file of
\* the directory before it has been looked up (create_nfs does not ask).
THEOREM CacheStaysSoundInUse ==
  ASSUME NoConsoleFile, OneCreator
  PROVE  SpecData => []CacheSound
<1>1. Inv => CacheSound
  BY CacheInvSuffices DEF Inv
<1> QED BY <1>1, DataInvariant, PTL

\* Between the calls of its writer, st_size of a file in the cache is its size on the
\* server: lookups that are answered late, creations and refused writes included.
THEOREM SizesStayExact ==
  ASSUME NoConsoleFile, OneCreator
  PROVE  SpecData => []SizesExact
<1>1. Inv => SizesExact
  BY SizesSuffice
<1> QED BY <1>1, DataInvariant, PTL

\* What a process was told it wrote is what its file begins with, and what it was given
\* to read has been in the file at that place.
THEOREM StreamsStayIntact ==
  ASSUME NoConsoleFile, OneCreator
  PROVE  SpecData => []StreamsIntact
<1>1. Inv => StreamsIntact
  BY StreamsSuffice
<1> QED BY <1>1, DataInvariant, PTL

\* Once the init thread is through, no call is outstanding and no assertion failed, every
\* file of every page, the swap file and the console are in the cache or were refused.
NothingForgotten ==
  init = "done" /\ pending = {} /\ ~halted =>
    (Files \cup {"console", "swap"}) \ failed \subseteq Cached

\* nfs_readdir_callback, nfs_set_status and io_init lose no file on the way, unless a
\* cookie has its top bit set: the safety part of CacheFilled, in which the answers
\* themselves are a matter of fairness.
THEOREM NoFileForgotten ==
  ASSUME NoConsoleFile, OneCreator, Ends = {}
  PROVE  SpecData => []NothingForgotten
<1>1. ASSUME Inv PROVE NothingForgotten
  <2> SUFFICES ASSUME init = "done", pending = {}, ~halted
               PROVE  (Files \cup {"console", "swap"}) \ failed \subseteq Cached
    BY DEF NothingForgotten
  <2>1. CacheInv /\ init \notin Early /\ init \notin {"start", "create"}
    BY <1>1 DEF Inv, Early
  <2>2. "swap" \in Cached \cup failed /\ \A n \in Files : n \in Cached \cup failed
    BY <2>1 DEF CacheInv, Accounted
  <2>3. "console" \in Cached
    <3>1. file_cache \in Seq(Filename) /\ file_cache # <<>> /\ file_cache[1] = "console"
      BY <2>1 DEF CacheInv, CacheTyped, ConsoleFirst
    <3>2. 1 \in 1 .. Len(file_cache)
      BY <3>1
    <3> QED BY <3>1, <3>2, CachedIs
  <2> QED BY <2>2, <2>3
<1> QED BY <1>1, DataInvariant, PTL
=============================================================================
