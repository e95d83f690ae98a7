------------------------------- MODULE DeepCount -------------------------------
(***************************************************************************)
(* "mcperft count <part>": brdDbCount, brdDbDeepSearch and the search      *)
(* threads brd_db_deep_search.  The positions of a part of the last ply    *)
(* are read a chunk at a time, searched by one thread per core, and the    *)
(* results appended to temp_result, which is renamed to result_<part> once *)
(* it is complete.  A count that is killed, or that meets a power failure, *)
(* leaves temp_result behind, and the next count continues from its size.  *)
(*                                                                         *)
(* The move count of the position at index i of the position file is       *)
(* represented by i itself.  One count runs at a time.                     *)
(***************************************************************************)
EXTENDS Integers, Sequences

CONSTANTS
  Parts,         \* workload_factor of each workload file
  First, Num,    \* start_workload_number and num_workloads of each part
  Positions,     \* entries of the position file of the last ply
  Cores,         \* the search threads
  ChunkEntries,  \* chunk_size in position entries
  UserErases,    \* does the user erase temp_result after an error about it?
  MaxFaults,     \* bound on interrupts, failed writes and torn reads
  MaxLosses      \* bound on power failures

ASSUME CountAssumption ==
  /\ Parts \subseteq Nat \ {0}
  /\ Positions \in Nat
  /\ First \in [Parts -> Nat] /\ Num \in [Parts -> Nat]
  /\ \A p \in Parts : First[p] + Num[p] <= Positions
  /\ Cores # {}
  /\ ChunkEntries \in Nat \ {0}
  /\ UserErases \in BOOLEAN
  /\ MaxFaults \in Nat /\ MaxLosses \in Nat

VARIABLES
  \* board-db/result-files
  temp,       \* temp_result: its state, the part in its header, its entries
  results,    \* result_<part>: is it there, and its entries
  \* the process
  main,       \* where brdDbCount is
  part,       \* the workload file it was started with
  pos,        \* offset of position_fd, in entries
  extracted,  \* workloads_extracted
  more,       \* more_entries_needed
  base, n,    \* work_load_buffer holds the num_entries positions from base on
  buffer,     \* search_result_buffer
  index,      \* workload_index
  at, mine,   \* where each search thread is, and its next_board
  \* the environment
  exit,       \* why the last process ended
  faults, losses

files == <<temp, results>>
progress == <<part, pos, extracted, more>>
chunk == <<base, n, buffer, index, at, mine>>
env == <<exit, faults, losses>>
vars == <<files, main, progress, chunk, env>>

Absent == [state |-> "absent", part |-> 0, data |-> <<>>]
Empty == [state |-> "empty", part |-> 0, data |-> <<>>]
Headed(p, d) == [state |-> "headed", part |-> p, data |-> d]

Slots == 0..ChunkEntries - 1
Junk == -1   \* what malloc left in search_result_buffer

Init ==
  /\ temp = Absent
  /\ results = [p \in Parts |-> [there |-> FALSE, data |-> <<>>]]
  /\ exit = "none" /\ faults = 0 /\ losses = 0
  /\ main = "idle" /\ part = 0
  /\ pos = 0 /\ extracted = 0 /\ more = TRUE
  /\ base = 0 /\ n = 0 /\ index = 0
  /\ buffer = [i \in Slots |-> Junk]
  /\ at = [w \in Cores |-> "none"] /\ mine = [w \in Cores |-> 0]

(* The process ends, and with it all its memory.                           *)
Die(why) ==
  /\ exit' = why
  /\ main' = "idle" /\ part' = 0
  /\ pos' = 0 /\ extracted' = 0 /\ more' = TRUE
  /\ base' = 0 /\ n' = 0 /\ index' = 0
  /\ buffer' = [i \in Slots |-> Junk]
  /\ at' = [w \in Cores |-> "none"] /\ mine' = [w \in Cores |-> 0]

Goto(from, to) == main = from /\ main' = to

-----------------------------------------------------------------------------
(* brdDbCount up to the search.                                            *)

Start(p) ==
  /\ Goto("idle", "open")
  /\ part' = p /\ exit' = "none"
  /\ UNCHANGED <<files, pos, extracted, more, chunk, faults, losses>>

(* A part whose results file is there is not counted again.                *)
CheckResult ==
  \/ /\ main = "open" /\ results[part].there
     /\ Die("exists")
     /\ UNCHANGED <<files, faults, losses>>
  \/ /\ Goto("open", "temp") /\ ~results[part].there
     /\ pos' = First[part]
     /\ UNCHANGED <<files, part, extracted, more, chunk, env>>

Search == IF Num[part] = 0 THEN "check" ELSE "read"

ResumeFromStart ==
  /\ Goto("temp", Search)
  /\ temp.state = "headed" /\ temp.part = part
  /\ UNCHANGED <<files, progress, chunk, env>>

ResumeCountingHeader ==
  /\ Goto("temp", Search)
  /\ temp.state = "headed" /\ temp.part = part
  /\ pos' = pos + Len(temp.data) + 6
  /\ UNCHANGED <<files, part, extracted, more, chunk, env>>

(* Skip the positions whose results temp_result already holds.             *)
Resume ==
  /\ Goto("temp", Search)
  /\ temp.state = "headed" /\ temp.part = part
  /\ pos' = pos + Len(temp.data)
  /\ UNCHANGED <<files, part, extracted, more, chunk, env>>

Create ==
  /\ Goto("temp", "header")
  /\ temp.state = "absent"
  /\ temp' = Empty
  /\ UNCHANGED <<results, progress, chunk, env>>

(* temp_result has no header, or that of another workload.                 *)
Refuse ==
  /\ main = "temp"
  /\ temp.state # "absent" /\ temp.part # part
  /\ Die(IF temp.state = "empty" THEN "noheader" ELSE "mismatch")
  /\ UNCHANGED <<files, faults, losses>>

WriteHeader ==
  /\ Goto("header", Search)
  /\ temp' = Headed(part, temp.data)
  /\ UNCHANGED <<results, progress, chunk, env>>

-----------------------------------------------------------------------------
(* brdDbDeepSearch and its threads.                                        *)

Least(a, b) == IF a <= b THEN a ELSE b

(* How many entries read(position_fd) may return: it may return fewer than *)
(* it is asked for.                                                        *)
Readable == 1..Least(ChunkEntries, Positions - pos)

(* Start the threads on the first k positions of the chunk just read.      *)
Launch(k) ==
  /\ main' = "join"
  /\ base' = pos /\ n' = k /\ index' = 0
  /\ at' = [w \in Cores |-> "take"]

EntriesUnclamped(k) == k

(* How many of the k positions just read belong to this part, going by the *)
(* positions read since the process started.                               *)
Entries(k) == IF extracted + k >= Num[part] THEN Num[part] - extracted ELSE k

(* Read the next chunk and search it, unless the file is at its end.       *)
Read ==
  \/ /\ Goto("read", "check") /\ pos = Positions
     /\ UNCHANGED <<files, progress, chunk, env>>
  \/ /\ main = "read"
     /\ \E k \in Readable :
          /\ pos' = pos + k
          /\ Launch(Entries(k))
          /\ IF extracted + k >= Num[part]
             THEN more' = FALSE /\ UNCHANGED extracted
             ELSE extracted' = extracted + k /\ UNCHANGED more
     /\ UNCHANGED <<files, part, buffer, mine, env>>

(* A read that is not a whole number of entries is taken for a corrupted   *)
(* file.                                                                   *)
ReadTorn ==
  /\ main = "read" /\ pos < Positions /\ faults < MaxFaults
  /\ Die("corrupted") /\ faults' = faults + 1
  /\ UNCHANGED <<files, losses>>

TakeStoppingEarly(w) ==
  /\ at[w] = "take"
  /\ mine' = [mine EXCEPT ![w] = index]
  /\ index' = index + 1
  /\ at' = [at EXCEPT ![w] = IF index + 1 >= n THEN "done" ELSE "search"]
  /\ UNCHANGED <<files, main, progress, base, n, buffer, env>>

(* A search thread claims the next position of the chunk, if one is left.  *)
Take(w) ==
  /\ at[w] = "take"
  /\ mine' = [mine EXCEPT ![w] = index]
  /\ index' = index + 1
  /\ at' = [at EXCEPT ![w] = IF index >= n THEN "done" ELSE "search"]
  /\ UNCHANGED <<files, main, progress, base, n, buffer, env>>

SearchPosition(w) ==
  /\ at[w] = "search"
  /\ buffer' = [buffer EXCEPT ![mine[w]] = base + mine[w]]
  /\ at' = [at EXCEPT ![w] = "take"]
  /\ UNCHANGED <<files, main, progress, base, n, index, mine, env>>

JoinOne ==
  /\ Goto("join", "write")
  /\ \E w \in Cores : at[w] = "done"
  /\ at' = [w \in Cores |-> "none"]
  /\ UNCHANGED <<files, progress, base, n, buffer, index, mine, env>>

Join ==
  /\ Goto("join", "write")
  /\ \A w \in Cores : at[w] = "done"
  /\ at' = [w \in Cores |-> "none"]
  /\ UNCHANGED <<files, progress, base, n, buffer, index, mine, env>>

(* The first k results of the chunk are appended to temp_result.           *)
Save(k) ==
  temp' = [temp EXCEPT !.data = @ \o [i \in 1..k |-> buffer[i - 1]]]

Write ==
  /\ Goto("write", IF more THEN "read" ELSE "check")
  /\ Save(n)
  /\ UNCHANGED <<results, progress, chunk, env>>

(* The disk is full.                                                       *)
WriteFails ==
  /\ main = "write" /\ faults < MaxFaults
  /\ \E k \in 0..n - 1 : Save(k)
  /\ Die("io") /\ faults' = faults + 1
  /\ UNCHANGED <<results, losses>>

-----------------------------------------------------------------------------
(* The end of brdDbCount.                                                  *)

NoCheckSize ==
  /\ Goto("check", "rename")
  /\ UNCHANGED <<files, progress, chunk, env>>

CheckSize ==
  \/ /\ Goto("check", "rename") /\ Len(temp.data) = Num[part]
     /\ UNCHANGED <<files, progress, chunk, env>>
  \/ /\ main = "check" /\ Len(temp.data) # Num[part]
     /\ Die("size")
     /\ UNCHANGED <<files, faults, losses>>

Rename ==
  /\ main = "rename"
  /\ results' = [results EXCEPT ![part] = [there |-> TRUE, data |-> temp.data]]
  /\ temp' = Absent
  /\ Die("ok")
  /\ UNCHANGED <<faults, losses>>

-----------------------------------------------------------------------------
(* What happens to a count.                                                *)

(* CTRL-C: a write it interrupts may have appended some of its entries.    *)
Interrupt ==
  /\ main # "idle" /\ faults < MaxFaults
  /\ \/ UNCHANGED temp
     \/ main = "write" /\ \E k \in 0..n - 1 : Save(k)
  /\ Die("killed") /\ faults' = faults + 1
  /\ UNCHANGED <<results, losses>>

Cut(d, k) == SubSeq(d, 1, k)

(* Nothing is flushed by the program: the files lose any amount of data    *)
(* that was not yet on the disk.                                           *)
PowerFails ==
  /\ losses < MaxLosses
  /\ \/ temp' = Absent
     \/ temp.state # "absent" /\ temp' = Empty
     \/ /\ temp.state = "headed"
        /\ \E k \in 0..Len(temp.data) : temp' = Headed(temp.part, Cut(temp.data, k))
  /\ \E left \in [Parts -> 0..Positions] :
       /\ \A p \in Parts : left[p] <= Len(results[p].data)
       /\ results' = [p \in Parts |-> [results[p] EXCEPT !.data = Cut(@, left[p])]]
  /\ Die("power") /\ losses' = losses + 1
  /\ UNCHANGED faults

(* The user erases temp_result after an error about it.  Only the message  *)
(* of a mismatched header asks for that.                                   *)
EraseTemp ==
  /\ UserErases /\ main = "idle" /\ exit \in {"noheader", "mismatch", "size"}
  /\ temp' = Absent /\ exit' = "none"
  /\ UNCHANGED <<results, main, progress, chunk, faults, losses>>

-----------------------------------------------------------------------------
Main == \/ CheckResult \/ Resume \/ Create \/ Refuse \/ WriteHeader
        \/ Read \/ Join \/ Write \/ CheckSize \/ Rename

Thread(w) == Take(w) \/ SearchPosition(w)

Next == \/ \E p \in Parts : Start(p)
        \/ Main
        \/ \E w \in Cores : Thread(w)
        \/ ReadTorn \/ WriteFails \/ Interrupt \/ PowerFails \/ EraseTemp

Spec == Init /\ [][Next]_vars

(* A running process runs; the user starts every part again and again      *)
(* ("set up scripts to automatically restart") and sooner or later reacts  *)
(* to an error.                                                            *)
FairSpec == /\ Spec
            /\ WF_vars(Main) /\ SF_vars(EraseTemp)
            /\ \A w \in Cores : WF_vars(Thread(w))
            /\ \A p \in Parts : SF_vars(Start(p))

-----------------------------------------------------------------------------
Steps == {"idle", "open", "temp", "header", "read", "join", "write", "check", "rename"}
Errors == {"exists", "noheader", "mismatch", "corrupted", "size", "io"}

TypeOK ==
  /\ temp \in [state : {"absent", "empty", "headed"}, part : Parts \cup {0}, data : Seq(Int)]
  /\ results \in [Parts -> [there : BOOLEAN, data : Seq(Int)]]
  /\ main \in Steps
  /\ part \in Parts \cup {0}
  /\ pos \in 0..Positions
  /\ extracted \in Nat
  /\ more \in BOOLEAN
  /\ base \in 0..Positions
  /\ n \in 0..ChunkEntries
  /\ buffer \in [Slots -> Int]
  /\ index \in Nat
  /\ at \in [Cores -> {"none", "take", "search", "done"}]
  /\ mine \in [Cores -> Nat]
  /\ exit \in Errors \cup {"none", "ok", "killed", "power"}
  /\ faults \in 0..MaxFaults
  /\ losses \in 0..MaxLosses

(* The results of the first k positions of part p, in order.               *)
Expected(p, k) == [i \in 1..k |-> First[p] + i - 1]

(* After any sequence of counts, kills, failed writes and power failures,  *)
(* temp_result holds the counts of the first positions of its part: none   *)
(* missing, repeated, out of order or left from another chunk.             *)
CheckpointIsPrefix ==
  /\ temp.state = "headed" => temp.data = Expected(temp.part, Len(temp.data))
  /\ temp.state # "headed" => temp.data = <<>>

(* The same of every results file, which only a power failure can shorten. *)
ResultsAreRight ==
  \A p \in Parts : LET d == results[p].data IN
    /\ d = Expected(p, Len(d))
    /\ results[p].there /\ losses = 0 => Len(d) = Num[p]

(* While the threads run, every claimed position of the chunk has its      *)
(* count in the buffer or is being searched by exactly one thread.         *)
Claimed == {i \in Slots : i < index /\ i < n}

OneSearcher ==
  main = "join" =>
    \A i \in Claimed :
      \/ buffer[i] = base + i /\ \A w \in Cores : ~(at[w] = "search" /\ mine[w] = i)
      \/ \E w \in Cores : \A v \in Cores : (at[v] = "search" /\ mine[v] = i) <=> v = w

(* A results file appears complete, in one step, and is then never         *)
(* replaced or extended by a later count.                                  *)
Publication(p) == /\ ~results[p].there
                  /\ results'[p] = [there |-> TRUE, data |-> Expected(p, Num[p])]

OnlyPublications == \A p \in Parts : results'[p] # results[p] =>
                                       Publication(p) \/ losses' # losses

PublishedOnce == [][OnlyPublications]_vars

(* A count continues from a checkpoint to its results without the help of  *)
(* the user (README.md:135).                                               *)
CheckpointResumes ==
  \A p \in Parts : temp.state = "headed" /\ temp.part = p ~> results[p].there

(* With the user erasing the temp_result that an error complains of, every *)
(* part is counted at last.                                                *)
AllPartsCounted == \A p \in Parts : <>results[p].there
=============================================================================
