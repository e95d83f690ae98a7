------------------------------ MODULE TrimReader ------------------------------
(***************************************************************************)
(* Reading a block file during a merge: mergeBlockNextGet and              *)
(* mergeBlockFromFileRead, which cuts off the head of the file once enough *)
(* of it was read, to save disk space.  A reader is a record; the          *)
(* operators are the functions that change it.                             *)
(***************************************************************************)
EXTENDS Naturals, Sequences

CONSTANTS
  ReadEntries,    \* max_elements_in_block
  TrimEntries,    \* max_trim_bytes
  BlockEntries    \* file_system_block_size; all three in entries

(* mergeBlockReadInit rounds the buffer to whole blocks.                   *)
ASSUME ReaderAssumption ==
  /\ ReadEntries \in Nat \ {0} /\ TrimEntries \in Nat /\ BlockEntries \in Nat \ {0}
  /\ ReadEntries % BlockEntries = 0

(* trims: trim_needed, and the file system can collapse a file.            *)
Opened(file, trims) ==
  [file |-> file, at |-> 0, read |-> 0, trims |-> trims, buffer |-> <<>>, empty |-> FALSE]

TrimmedInPlace(r) ==
  IF r.read > TrimEntries /\ r.read % BlockEntries = 0
  THEN IF r.trims /\ r.read < Len(r.file)
       THEN [r EXCEPT !.file = SubSeq(@, r.read + 1, Len(@)), !.read = 0]
       ELSE [r EXCEPT !.read = 0]
  ELSE r

(* What was read since the last time is cut off; fallocate() refuses to    *)
(* collapse a file to nothing, which is ignored.                           *)
Trimmed(r) ==
  IF r.read > TrimEntries /\ r.read % BlockEntries = 0
  THEN IF r.trims /\ r.read < Len(r.file)
       THEN [r EXCEPT !.file = SubSeq(@, r.read + 1, Len(@)), !.read = 0, !.at = 0]
       ELSE [r EXCEPT !.read = 0]
  ELSE r

(* mergeBlockFromFileRead.  A file at its end is deleted.                  *)
Refilled(r) ==
  LET end == IF r.at + ReadEntries < Len(r.file) THEN r.at + ReadEntries ELSE Len(r.file)
      got == SubSeq(r.file, r.at + 1, end)
  IN  IF got = <<>> THEN [r EXCEPT !.empty = TRUE, !.file = <<>>]
      ELSE Trimmed([r EXCEPT !.buffer = got, !.at = end, !.read = @ + Len(got)])

(* mergeBlockNextGet: the reader when its next entry is looked at, and     *)
(* when that is removed.                                                   *)
Ready(r) == IF r.empty \/ r.buffer # <<>> THEN r ELSE Refilled(r)

Removed(r) == [r EXCEPT !.buffer = Tail(@)]
=============================================================================
