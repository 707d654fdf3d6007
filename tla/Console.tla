------------------------------ MODULE Console ------------------------------
(***************************************************************************)
(* Console input: the serial file of src/sos/io/io_serial.c, its circular  *)
(* buffer (src/sos/datastructures/circular_buffer.c), and the descriptors  *)
(* of the console in the file tables of processes (io.c, process.c).       *)
(*                                                                         *)
(* Characters arrive by interrupt whether or not anyone reads. One process *)
(* may have the console open for reading; it blocks in read until a line   *)
(* is complete or the buffer is full. Characters are numbered as they      *)
(* arrive, so that order, loss and duplication can be seen.                *)
(***************************************************************************)
EXTENDS Integers, Sequences, FiniteSets

CONSTANTS
  Pid,                \* slots of the process table for user processes
  PROCESS_MAX_FILES,
  SIZE,               \* READ_BUFFER_SIZE, the size of the circular buffer
  ReadLen,            \* lengths that read is called with
  MaxChars,           \* bound: characters that arrive
  MaxBirths           \* bound: processes ever created

ASSUME ConsoleAssumption ==
  /\ PROCESS_MAX_FILES \in Nat \ {0} /\ SIZE \in Nat /\ SIZE >= 2
  /\ ReadLen \subseteq Nat /\ MaxChars \in Nat /\ MaxBirths \in Nat
  /\ 0 \notin Pid

Fd   == 0 .. PROCESS_MAX_FILES - 1
Mode == {{"r"}, {"w"}, {"r", "w"}}
Null == [mode |-> {}, to_read |-> 0, std |-> FALSE]
Nil  == 0

VARIABLES
  active,          \* ptable[p].is_active
  filetable,       \* the console's descriptors of each process
  reader,          \* the thread that may read the console, or Nil
  blocked,         \* processes blocked in a read of the console
  buffer,          \* the circular buffer's memory
  read_position,
  write_position,
  overflow,
  arrived,         \* number of characters that have arrived
  newline,         \* those of them that are newlines
  taken,           \* characters handed to readers, in order (ghost)
  births           \* processes created so far

cbuf    == <<buffer, read_position, write_position, overflow, taken>>
process == <<active, births>>
vars    == <<process, filetable, reader, blocked, cbuf, arrived, newline>>

Smaller(a, b) == IF a < b THEN a ELSE b

-----------------------------------------------------------------------------
\* The characters a copy of memory starting at the read position delivers: in
\* one piece, or the end of the buffer and then its start.
Copied(b, r, w) ==
  IF r < w THEN SubSeq(b, r + 1, w) ELSE SubSeq(b, r + 1, SIZE) \o SubSeq(b, 1, w)

\* circular_buffer_read(cb, to_read): the number of characters it returns, from
\* a buffer whose write position is w.
Readable(w, to_read) ==
  Smaller((SIZE + w - read_position) % SIZE, Smaller(to_read, SIZE - 1))

\* circular_buffer_read after a write that has left memory b, position w and
\* overflow o behind.
circular_buffer_read(b, w, o, to_read) ==
  LET n == Readable(w, to_read) IN
  /\ buffer' = b
  /\ write_position' = w
  /\ IF n > 0
     THEN /\ overflow' = FALSE
          /\ read_position' = (read_position + n) % SIZE
          /\ taken' = taken \o SubSeq(Copied(b, read_position, w), 1, n)
     ELSE /\ overflow' = o
          /\ UNCHANGED <<read_position, taken>>

Advanced(w) == (w + 1) % SIZE

\* Mutant: the buffer is full one character later.
FullAtWrite(w) == w = read_position

\* The buffer is full when one more character would make it look empty.
Full(w) == Advanced(w) = read_position

-----------------------------------------------------------------------------
\* The descriptor that get_reading_file_handle finds, if any.
Waiting(p) == {fd \in Fd : filetable[p][fd].to_read > 0}

\* Mutant: only newlines end a read.
LineEnds(is_newline, dropped) == is_newline

\* Mutant: only a full buffer ends a read.
OnlyFullEnds(is_newline, dropped) == dropped

\* When a character that arrives ends the pending read.
ReadEnds(is_newline, dropped) == is_newline \/ dropped

\* serial_receive_handler, with circular_buffer_write and read_serial
serial_receive_handler(is_newline) ==
  LET c  == arrived + 1
      b  == IF overflow THEN buffer ELSE [buffer EXCEPT ![write_position + 1] = c]
      w  == IF overflow THEN write_position ELSE Advanced(write_position)
      o  == overflow \/ Full(w)
  IN
  /\ arrived < MaxChars
  /\ arrived' = c
  /\ newline' = IF is_newline /\ ~overflow THEN newline \cup {c} ELSE newline
  /\ IF reader # Nil /\ ReadEnds(is_newline, overflow) /\ Waiting(reader) # {}
     THEN LET fd == CHOOSE fd \in Waiting(reader) : \A other \in Waiting(reader) : fd <= other IN
          /\ circular_buffer_read(b, w, o, filetable[reader][fd].to_read)
          /\ IF Readable(w, filetable[reader][fd].to_read) > 0
             THEN /\ filetable' = [filetable EXCEPT ![reader][fd].to_read = 0]
                  /\ blocked' = blocked \ {reader}
             ELSE UNCHANGED <<filetable, blocked>>
     ELSE /\ buffer' = b /\ write_position' = w /\ overflow' = o
          /\ UNCHANGED <<read_position, taken, filetable, blocked>>
  /\ UNCHANGED <<process, reader>>

-----------------------------------------------------------------------------
Runs(p) == active[p] /\ p \notin blocked

\* read_file and read_serial: the call returns at once if there is anything.
read_serial(p, fd, n) ==
  /\ Runs(p)
  /\ "r" \in filetable[p][fd].mode
  /\ circular_buffer_read(buffer, write_position, overflow, n)
  /\ IF Readable(write_position, n) > 0
     THEN /\ filetable' = [filetable EXCEPT ![p][fd].to_read = 0]
          /\ UNCHANGED blocked
     ELSE /\ filetable' = [filetable EXCEPT ![p][fd].to_read = n]
          /\ blocked' = blocked \cup {p}
  /\ UNCHANGED <<process, reader, arrived, newline>>

FreeFds(p) == {fd \in Fd : filetable[p][fd] = Null}

MayRead(p) == reader \in {Nil, p}

\* open_serial; it answers -1 without a free descriptor, and to a second reader.
open_serial(p, mode) ==
  /\ Runs(p)
  /\ FreeFds(p) # {}
  /\ "r" \in mode => MayRead(p)
  /\ reader' = IF "r" \in mode THEN p ELSE reader
  /\ \E fd \in FreeFds(p) :
       /\ \A other \in FreeFds(p) : fd <= other
       /\ filetable' = [filetable EXCEPT ![p][fd] =
            [mode |-> mode, to_read |-> 0, std |-> FALSE]]
  /\ UNCHANGED <<process, blocked, cbuf, arrived, newline>>

\* close_serial gives the console up with its last descriptor for reading.
LastReader(p, fd) ==
  /\ "r" \in filetable[p][fd].mode
  /\ \A other \in Fd \ {fd} : "r" \notin filetable[p][other].mode

close_serial(p, fd) ==
  /\ Runs(p)
  /\ filetable[p][fd] # Null
  /\ reader' = IF LastReader(p, fd) THEN Nil ELSE reader
  /\ filetable' = [filetable EXCEPT ![p][fd] = Null]
  /\ UNCHANGED <<process, blocked, cbuf, arrived, newline>>

-----------------------------------------------------------------------------
\* register_process: descriptor 0 writes to the console. Its awaits_callback is
\* not initialised; std marks it.
register_process(p) ==
  /\ ~active[p]
  /\ births < MaxBirths
  /\ births' = births + 1
  /\ active' = [active EXCEPT ![p] = TRUE]
  /\ filetable' = [filetable EXCEPT ![p] =
       [fd \in Fd |-> IF fd = 0 THEN [mode |-> {"w"}, to_read |-> 0, std |-> TRUE]
                         ELSE Null]]
  /\ UNCHANGED <<reader, blocked, cbuf, arrived, newline>>

\* Mutant: deletion leaves the console with the deleted process.
ReaderKept(p, junk) == reader

\* delete_process takes the console from a reader it deletes, at each descriptor
\* of the console whose awaits_callback is not set. That is every descriptor
\* made by open_serial; for the one of register_process it is not known (junk).
ReaderWithout(p, junk) ==
  IF reader = p /\ \E fd \in Fd : filetable[p][fd] # Null /\ ~(filetable[p][fd].std /\ junk)
  THEN Nil ELSE reader

delete_process(p, junk) ==
  /\ active[p]
  /\ reader' = ReaderWithout(p, junk)
  /\ active' = [active EXCEPT ![p] = FALSE]
  /\ blocked' = blocked \ {p}
  /\ filetable' = [filetable EXCEPT ![p] = [fd \in Fd |-> Null]]
  /\ UNCHANGED <<births, cbuf, arrived, newline>>

-----------------------------------------------------------------------------
Init ==
  /\ active = [p \in Pid |-> FALSE]
  /\ filetable = [p \in Pid |-> [fd \in Fd |-> Null]]
  /\ reader = Nil
  /\ blocked = {}
  /\ buffer = [i \in 1 .. SIZE |-> 0]
  /\ read_position = 0 /\ write_position = 0 /\ overflow = FALSE
  /\ arrived = 0
  /\ newline = {}
  /\ taken = <<>>
  /\ births = 0

Next ==
  \/ \E is_newline \in BOOLEAN : serial_receive_handler(is_newline)
  \/ \E p \in Pid : register_process(p)
  \/ \E p \in Pid, junk \in BOOLEAN : delete_process(p, junk)
  \/ \E p \in Pid, mode \in Mode : open_serial(p, mode)
  \/ \E p \in Pid, fd \in Fd : close_serial(p, fd)
  \/ \E p \in Pid, fd \in Fd, n \in ReadLen : read_serial(p, fd, n)

Spec == Init /\ [][Next]_vars

-----------------------------------------------------------------------------
\* Types of the buffer, the descriptors and the reader.
TypeOK ==
  /\ active \in [Pid -> BOOLEAN]
  /\ filetable \in [Pid -> [Fd -> [mode : SUBSET {"r", "w"}, to_read : ReadLen \cup {0},
                                    std : BOOLEAN]]]
  /\ reader \in Pid \cup {Nil} /\ blocked \subseteq Pid
  /\ buffer \in [1 .. SIZE -> 0 .. MaxChars]
  /\ read_position \in 0 .. SIZE - 1 /\ write_position \in 0 .. SIZE - 1
  /\ overflow \in BOOLEAN

\* The processes that have the console open for reading.
Readers == {p \in Pid : active[p] /\ \E fd \in Fd : "r" \in filetable[p][fd].mode}

\* At most one process has the console open for reading, the reader is that
\* process, and nobody is the reader who has not got it open: the console is
\* never held by a process that has closed it or is gone (io_serial.c: "only one
\* process can open a serial file (multiple times) for reading").
ReaderExact == Readers = IF reader = Nil THEN {} ELSE {reader}

\* The console has at most one reader and knows it, and the positions of its
\* buffer stay inside the array (io_serial.c, circular_buffer.c).
ReaderInv == TypeOK /\ ReaderExact

Contents == SubSeq(Copied(buffer, read_position, write_position), 1,
                   (SIZE + write_position - read_position) % SIZE)

\* A blocked reader is one that the interrupt finds: it is the reader of the
\* console, with a descriptor that has something to read (syscall.txt:
\* "otherwise the user thread will wait until it receives a reply message
\* forever").
BlockedReaderFound ==
  \A p \in blocked : reader = p /\ Waiting(p) # {}

\* No complete line is withheld from a blocked reader, and the interrupt that brings
\* the rest of one will find that reader (io_serial.c: "send if there is a reader and
\* we're either at a newline or buffer has overflow").
NoLineWithheld ==
  /\ BlockedReaderFound
  /\ blocked # {} => \A i \in 1 .. Len(Contents) : Contents[i] \notin newline

\* A reader blocked on a full buffer is woken by the next character.
OverflowWakes ==
  [][overflow /\ arrived' # arrived => blocked' = {}]_vars

\* The buffer, its positions and its overflow flag implement the bounded queue:
\* every character that was not dropped is handed out once and in order, and
\* one is dropped only when SIZE - 1 are waiting (circular_buffer.c).
Fifo == INSTANCE CharFifo WITH
          Char <- 1 .. MaxChars, Capacity <- SIZE - 1, chars <- Contents, taken <- taken

ImplementsFifo == Fifo!Spec
=============================================================================
