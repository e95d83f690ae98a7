------------------------------- MODULE PlyFile -------------------------------
(***************************************************************************)
(* The life of a ply_<n>_positions file: brd_db_generate writes it for ply *)
(* n, updates every entry when it goes on to ply n + 1, and the other      *)
(* commands read it.                                                       *)
(***************************************************************************)
EXTENDS Integers, SequencesExt

CONSTANTS
  Entry, Block,
  WriteEntries,    \* entries in a buffer of the writer
  ReadEntries,     \* and of the reader
  MaxEntries

(* Both Start functions round the buffers up to whole blocks.              *)
ASSUME BufferAssumption ==
  /\ {Entry, Block, WriteEntries, ReadEntries} \subseteq Nat \ {0} /\ MaxEntries \in Nat
  /\ WriteEntries % Block = 0 /\ ReadEntries % Block = 0

VARIABLES
  file, main,
  wbuffer, wuse, num, total, writer,
  update, size, buffer, bytes, place, use, position, max, read, offset, thread, done,
  passes           \* how often it has been opened

W == INSTANCE BufferedFile WITH BufferEntries <- WriteEntries
R == INSTANCE PositionFile WITH BufferEntries <- ReadEntries

wvars == <<wbuffer, wuse, num, total, writer>>
rvars == <<update, size, buffer, bytes, place, use, position, max, read, offset, thread, done>>
vars == <<file, main, wvars, rvars, passes>>

Init == W!Init /\ R!Unopened /\ passes = 0

(* The first pass updates, the second reads.                               *)
Open == /\ passes < 2 /\ R!Start(passes = 0)
        /\ passes' = passes + 1
        /\ UNCHANGED wvars

Reading == /\ R!Caller \/ R!Thread
           /\ UNCHANGED <<wvars, passes>>

Writing == W!Next /\ UNCHANGED <<rvars, passes>>

Done == passes = 2 /\ main = "closed" /\ UNCHANGED vars

Next == Writing \/ Open \/ Reading \/ Done

Spec == Init /\ [][Next]_vars

(* The threads run, and the caller goes on until it has closed the file.   *)
FairSpec == /\ Spec
            /\ WF_vars(Open \/ (R!Caller /\ UNCHANGED <<wvars, passes>>))
            /\ WF_vars(R!Thread /\ UNCHANGED <<wvars, passes>>)
            /\ WF_vars(W!AsyncWrite /\ UNCHANGED <<rvars, passes>>)
            /\ WF_vars((W!Swap \/ W!Finish \/ W!Truncate) /\ UNCHANGED <<rvars, passes>>)

-----------------------------------------------------------------------------
InWriter == main \in {"fill", "full", "finish"}

(* The types of both structures, of which one is in use at a time.         *)
TypeOK == IF InWriter THEN W!TypeOK ELSE R!TypeOK

(* Both kinds of buffering are invisible: the entries come back whole and  *)
(* in order, the end is reported after the last one and not before, and    *)
(* the changes of the first pass are there in the second.                  *)
Plain == INSTANCE PlainFile WITH
           content <- IF InWriter THEN W!Content ELSE W!EntriesOf(R!Bytes, W!Written),
           next    <- IF main \in {"first", "ready", "got", "end"} THEN R!HandedOut ELSE 0,
           mode    <- IF InWriter THEN "write"
                      ELSE IF main \in {"first", "ready", "got"} THEN "open"
                      ELSE IF main = "end" THEN "ended" ELSE "closed"

ImplementsPlainFile == Plain!Spec

(* A kill at any point leaves entries of this file, each at its place, old *)
(* or updated, and zeros after the last; never bytes of a reused buffer or *)
(* of memory that was never written.                                   *)
BytesInPlace ==
  \A k \in 1..Len(file) : LET e == (k - 1) \div Entry + 1 IN
    file[k] \in IF e <= W!Written THEN {e, -e} ELSE {0}

(* Nobody waits for a thread that never ends: the file is written and      *)
(* closed, and both passes get to their end (main and the threads of 158   *)
(* and 616 go on while they can).                                          *)
Completes == <>(passes = 2 /\ main = "closed")
=============================================================================
