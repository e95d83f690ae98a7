----------------------------- MODULE PositionFile -----------------------------
(***************************************************************************)
(* The double-buffered position file: bufferedPositionFileReadUpdateStart, *)
(* bufferedPositionFileReadUpdate and -Finish, and the thread that, while  *)
(* the caller goes through one buffer, writes the other one back to where  *)
(* it was read from and fills it again.  The bytes of an entry that was    *)
(* changed are negative.                                                   *)
(***************************************************************************)
EXTENDS Integers, SequencesExt

CONSTANTS
  Entry,          \* sizeof(plyPositionEntry_t)
  Block,          \* file_block_size
  BufferEntries,  \* max_entries_in_buffer
  MaxEntries

VARIABLES
  file,           \* the bytes in the file
  main,           \* where the caller is
  update,         \* update_enable
  size,           \* total_bytes_in_file
  buffer, bytes,  \* buffer and bytes_in_buffer, of buffers 0 and 1
  place,          \* buffer_position_in_file, likewise
  use,            \* in_use_buffer
  position, max,  \* current_position_index and max_position_index
  read,           \* total_bytes_read_from_file
  offset,         \* of the file descriptor
  thread, done    \* where asyncPositionReadWriteThread is in its work

caller == <<main, update, size, use, position, max>>
rvars == <<file, caller, buffer, bytes, place, read, offset, thread, done>>

BufferBytes == BufferEntries * Entry
Offsets == 0..BufferBytes - 1
Smaller(a, b) == IF a <= b THEN a ELSE b
Rounded(n) == ((n + Block - 1) \div Block) * Block

Junk == MaxEntries + 1      \* a byte of memory that was never written

(* One read() or write() of n bytes moves all of them, or some blocks.     *)
Transfers(n) == {m \in 1..n : m = n \/ m % Block = 0}

(* With O_DIRECT it must start at the border of a block, or read() at the  *)
(* end of the file; else it fails, which ends the program.                 *)
Direct(at) == at % Block = 0

(* The structure before it is opened.                                      *)
Unopened ==
  /\ update = FALSE /\ size = 0
  /\ buffer = [b \in {0, 1} |-> [o \in Offsets |-> Junk]]
  /\ bytes = [b \in {0, 1} |-> 0] /\ place = [b \in {0, 1} |-> 0]
  /\ use = 0 /\ position = 0 /\ max = 0 /\ read = 0 /\ offset = 0
  /\ thread = "none" /\ done = 0

Goto(from, to) == main = from /\ main' = to
GotoThread(from, to) == thread = from /\ thread' = to

-----------------------------------------------------------------------------
(* The caller.  pthread_join waits until thread = "none".                  *)

Start(u) ==
  /\ Goto("closed", "first")
  /\ update' = u /\ size' = Len(file)
  /\ buffer' = [b \in {0, 1} |-> [o \in Offsets |-> Junk]]
  /\ bytes' = [b \in {0, 1} |-> 0] /\ place' = [b \in {0, 1} |-> 0]
  /\ use' = 0 /\ position' = 0 /\ max' = 0 /\ read' = 0 /\ offset' = 0
  /\ thread' = "start" /\ done' = 0
  /\ UNCHANGED file

(* The second thread is given the address of the local structure, which is *)
(* returned by value.  Started takes the returned structure to be the same *)
(* object; here it is a copy, and what the thread does is lost.            *)
StartedWithCopy ==
  /\ Goto("first", "ready") /\ thread = "none"
  /\ use' = 1 - use /\ max' = bytes[use'] \div Entry
  /\ UNCHANGED <<file, update, size, position, buffer, bytes, place, read, offset, thread, done>>

Started ==
  /\ Goto("first", "ready") /\ thread = "none"
  /\ use' = 1 - use /\ max' = bytes[use'] \div Entry
  /\ thread' = "start"
  /\ UNCHANGED <<file, update, size, position, buffer, bytes, place, read, offset, done>>

NextInBuffer ==
  /\ Goto("ready", "got") /\ position < max
  /\ position' = position + 1
  /\ UNCHANGED <<file, update, size, buffer, bytes, place, use, max, read, offset, thread, done>>

SwapBuffers ==
  /\ main = "ready" /\ position >= max /\ thread = "none"
  /\ use' = 1 - use /\ max' = bytes[use'] \div Entry
  /\ thread' = "start"
  /\ \/ max' = 0 /\ main' = "end" /\ position' = 0
     \/ max' > 0 /\ main' = "got" /\ position' = 1
  /\ UNCHANGED <<file, update, size, buffer, bytes, place, read, offset, done>>

(* What the caller does with the entry it was handed, which lies in the    *)
(* buffer, before it asks for the next.                                    *)
Use ==
  /\ Goto("got", "ready")
  /\ buffer' = IF update
                 THEN [buffer EXCEPT ![use] =
                         [o \in Offsets |-> IF o \div Entry = position - 1 THEN -@[o] ELSE @[o]]]
                 ELSE buffer
  /\ UNCHANGED <<file, update, size, bytes, place, use, position, max, read, offset, thread, done>>

(* brdDbDeepSearchAggregate and others stop before the end is reported.    *)
Finish ==
  /\ main \in {"ready", "end"} /\ thread = "none"
  /\ main' = "leaving" /\ use' = 1 - use /\ thread' = "start"
  /\ UNCHANGED <<file, update, size, buffer, bytes, place, position, max, read, offset, done>>

Finished ==
  /\ Goto("leaving", "closed") /\ thread = "none"
  /\ UNCHANGED <<file, update, size, buffer, bytes, place, use, position, max, read, offset,
                 thread, done>>

-----------------------------------------------------------------------------
(* The thread.                                                             *)
background == 1 - use

ThreadStart ==
  /\ \/ /\ GotoThread("start", "write") /\ bytes[background] # 0 /\ update
        /\ offset' = place[background] /\ done' = 0
        /\ buffer' = [buffer EXCEPT ![background] =
                        [o \in Offsets |-> IF o \in bytes[background]..Rounded(bytes[background]) - 1
                                             THEN 0 ELSE @[o]]]
     \/ /\ GotoThread("start", "read") /\ (bytes[background] = 0 \/ ~update)
        /\ done' = 0
        /\ UNCHANGED <<buffer, offset>>
  /\ place' = IF thread' = "read" THEN [place EXCEPT ![background] = read] ELSE place
  /\ UNCHANGED <<file, caller, bytes, read>>

WriteBack ==
  LET left == Rounded(bytes[background]) - done
  IN  /\ thread = "write" /\ Direct(offset)
      /\ \E n \in Transfers(left) :
           /\ file' = [k \in 1..(IF offset + n > Len(file) THEN offset + n ELSE Len(file)) |->
                         IF k \in offset + 1..offset + n
                           THEN buffer[background][done + k - offset - 1] ELSE file[k]]
           /\ offset' = offset + n /\ done' = done + n
           /\ thread' = IF n < left THEN "write"
                        ELSE IF bytes[background] % Block # 0 THEN "truncate" ELSE "seek"
      /\ UNCHANGED <<caller, buffer, bytes, place, read>>

ThreadTruncate ==
  /\ GotoThread("truncate", "seek")
  /\ file' = SubSeq(file, 1, size)
  /\ UNCHANGED <<caller, buffer, bytes, place, read, offset, done>>

NoSeekBack ==
  /\ GotoThread("seek", "read")
  /\ done' = 0
  /\ place' = [place EXCEPT ![background] = read]
  /\ UNCHANGED <<file, caller, buffer, bytes, read, offset>>

SeekBack ==
  /\ GotoThread("seek", "read")
  /\ offset' = read /\ done' = 0
  /\ place' = [place EXCEPT ![background] = read]
  /\ UNCHANGED <<file, caller, buffer, bytes, read>>

(* When the loop of read() calls ends: the buffer is full, or the file has *)
(* ended, of which a read that ends within a block is taken as a sign.     *)
ReadsToFullBlock(n) == n % Block # 0 \/ done + n = BufferBytes

LastRead(n) == n = 0 \/ n % Block # 0 \/ done + n = BufferBytes

ReadAhead ==
  LET left == Smaller(BufferBytes - done, Len(file) - offset)
  IN  /\ thread = "read" /\ (Direct(offset) \/ left <= 0)
      /\ \E n \in IF left > 0 THEN Transfers(left) ELSE {0} :
           /\ buffer' = [buffer EXCEPT ![background] =
                           [o \in Offsets |-> IF o \in done..done + n - 1
                                                THEN file[offset + o - done + 1] ELSE @[o]]]
           /\ offset' = offset + n
           /\ \/ /\ LastRead(n)
                 /\ bytes' = [bytes EXCEPT ![background] = done + n]
                 /\ read' = read + done + n
                 /\ thread' = "none" /\ done' = 0
              \/ /\ ~LastRead(n)
                 /\ done' = done + n
                 /\ UNCHANGED <<bytes, read, thread>>
      /\ UNCHANGED <<file, caller, place>>

Thread == ThreadStart \/ WriteBack \/ ThreadTruncate \/ SeekBack \/ ReadAhead

Caller == Started \/ NextInBuffer \/ SwapBuffers \/ Use \/ Finish \/ Finished

-----------------------------------------------------------------------------
TypeOK ==
  /\ main \in {"closed", "first", "ready", "got", "end", "leaving"}
  /\ file \in Seq(-MaxEntries..Junk)
  /\ update \in BOOLEAN /\ size \in Nat /\ size % Entry = 0
  /\ buffer \in [{0, 1} -> [Offsets -> -MaxEntries..Junk]]
  /\ bytes \in [{0, 1} -> {n \in 0..BufferBytes : n % Entry = 0}]
  /\ place \in [{0, 1} -> 0..size]
  /\ use \in {0, 1} /\ position \in 0..BufferEntries /\ max \in 0..BufferEntries
  /\ read \in 0..size /\ offset \in Nat
  /\ thread \in {"none", "start", "write", "truncate", "seek", "read"}
  /\ done \in 0..BufferBytes

(* Where byte k of the file is now: in a buffer that has been read and may *)
(* have changed, or in the file.                                           *)
Buffered(b) == main # "closed" /\ ~(b = background /\ thread = "read")

ByteAt(k) ==
  IF \E b \in {0, 1} : Buffered(b) /\ k - 1 \in place[b]..place[b] + bytes[b] - 1
    THEN LET b == CHOOSE b \in {0, 1} : Buffered(b) /\ k - 1 \in place[b]..place[b] + bytes[b] - 1
         IN  buffer[b][k - 1 - place[b]]
    ELSE file[k]

Bytes == [k \in 1..(IF main = "closed" THEN Len(file) ELSE size) |-> ByteAt(k)]

HandedOut == place[use] \div Entry + position
=============================================================================
