----------------------------- MODULE BufferedFile -----------------------------
(***************************************************************************)
(* The double-buffered file writer: bufferedFileWriteStart, -Write and     *)
(* -Finish, and the thread they start for every buffer that is full.  The  *)
(* file is opened with O_DIRECT, so only whole blocks can be written.      *)
(* An entry takes Entry bytes, each of which is the number of the entry;   *)
(* 0 is a byte of padding.                                                 *)
(***************************************************************************)
EXTENDS Integers, SequencesExt

CONSTANTS
  Entry,          \* entry_size_in_bytes
  Block,          \* file_block_size
  BufferEntries,  \* max_entries_in_buffer
  MaxEntries      \* how many entries the caller writes at most

VARIABLES
  file,           \* the bytes in the file
  main,           \* where the caller is
  wbuffer,        \* buffer[0] and buffer[1]
  wuse,           \* in_use_buffer
  num,            \* num_entries_in_buffer
  total,          \* total_bytes_written_in_file
  writer          \* the thread: which buffer, its size, how much is done

wvars == <<file, main, wbuffer, wuse, num, total, writer>>

BufferBytes == BufferEntries * Entry
Offsets == 0..BufferBytes - 1
Junk == MaxEntries + 1      \* a byte of memory that was never written

Init ==
  /\ file = <<>> /\ main = "fill"
  /\ wbuffer = [b \in {0, 1} |-> [o \in Offsets |-> Junk]]
  /\ wuse = 0 /\ num = 0 /\ total = 0
  /\ writer = [running |-> FALSE, buffer |-> 1, size |-> 0, done |-> 0]

Goto(from, to) == main = from /\ main' = to

Rounded(n) == ((n + Block - 1) \div Block) * Block

(* One write() of n bytes moves all of them, or some blocks; with O_DIRECT *)
(* it fails, and ends the program, unless it starts at the border of one.  *)
Transfers(n) == {m \in 1..n : m = n \/ m % Block = 0}

Written == total \div Entry + IF main \in {"fill", "full"} THEN num ELSE 0

-----------------------------------------------------------------------------
Write ==
  /\ Written < MaxEntries
  /\ wbuffer' = [wbuffer EXCEPT ![wuse] =
                   [o \in Offsets |-> IF o \div Entry = num THEN Written + 1 ELSE @[o]]]
  /\ num' = num + 1
  /\ Goto("fill", IF num' = BufferEntries THEN "full" ELSE "fill")
  /\ UNCHANGED <<file, wuse, total, writer>>

(* A full buffer is handed to a new thread once the last one has ended.    *)
Swap ==
  /\ Goto("full", "fill") /\ ~writer.running
  /\ writer' = [running |-> TRUE, buffer |-> wuse, size |-> num * Entry, done |-> 0]
  /\ wuse' = 1 - wuse /\ total' = total + num * Entry /\ num' = 0
  /\ UNCHANGED <<file, wbuffer>>

(* asyncWriteThread.                                                       *)
AsyncWrite ==
  /\ writer.running /\ Len(file) % Block = 0
  /\ \E n \in Transfers(writer.size - writer.done) :
       /\ file' = file \o [k \in 1..n |-> wbuffer[writer.buffer][writer.done + k - 1]]
       /\ writer' = [writer EXCEPT !.done = @ + n, !.running = writer.done + n < writer.size]
  /\ UNCHANGED <<main, wbuffer, wuse, num, total>>

(* bufferedFileFinish: the rest is padded to whole blocks, and the padding *)
(* cut off the file.                                                       *)
FinishUnpadded ==
  /\ main = "fill" /\ ~writer.running
  /\ \/ num = 0 /\ main' = "closed" /\ UNCHANGED <<wbuffer, total, writer>>
     \/ /\ num > 0 /\ main' = "finish"
        /\ writer' = [running |-> TRUE, buffer |-> wuse, size |-> Rounded(num * Entry), done |-> 0]
        /\ total' = total + num * Entry
        /\ UNCHANGED wbuffer
  /\ UNCHANGED <<file, wuse, num>>

Finish ==
  /\ main = "fill" /\ ~writer.running
  /\ \/ num = 0 /\ main' = "closed" /\ UNCHANGED <<wbuffer, total, writer>>
     \/ /\ num > 0 /\ main' = "finish"
        /\ wbuffer' = [wbuffer EXCEPT ![wuse] =
                         [o \in Offsets |-> IF o \in num * Entry..Rounded(num * Entry) - 1
                                              THEN 0 ELSE @[o]]]
        /\ writer' = [running |-> TRUE, buffer |-> wuse, size |-> Rounded(num * Entry), done |-> 0]
        /\ total' = total + num * Entry
  /\ UNCHANGED <<file, wuse, num>>

Truncate ==
  /\ Goto("finish", "closed") /\ ~writer.running
  /\ file' = SubSeq(file, 1, total)
  /\ UNCHANGED <<wbuffer, wuse, num, total, writer>>

Next == Write \/ Swap \/ AsyncWrite \/ Finish \/ Truncate

-----------------------------------------------------------------------------
TypeOK ==
  /\ file \in Seq(0..Junk)
  /\ main \in {"fill", "full", "finish", "closed"}
  /\ wbuffer \in [{0, 1} -> [Offsets -> 0..Junk]]
  /\ wuse \in {0, 1} /\ num \in 0..BufferEntries /\ total \in Nat
  /\ writer \in [running : BOOLEAN, buffer : {0, 1}, size : 0..BufferBytes, done : 0..BufferBytes]

(* What is in the file and in the buffers, in the order it was written.    *)
Pending ==
  (IF writer.running
     THEN [k \in 1..writer.size - writer.done |-> wbuffer[writer.buffer][writer.done + k - 1]]
     ELSE <<>>)
  \o IF main \in {"fill", "full"} THEN [k \in 1..num * Entry |-> wbuffer[wuse][k - 1]] ELSE <<>>

(* An entry whose bytes differ is torn.                                    *)
EntriesOf(bytes, n) ==
  [k \in 1..n |-> IF \A o \in 1..Entry - 1 : bytes[k * Entry - o] = bytes[k * Entry]
                    THEN bytes[k * Entry] ELSE 0]

Content == EntriesOf(file \o Pending, Written)
=============================================================================
