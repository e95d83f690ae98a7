----------------------------- MODULE MergeStreams -----------------------------
(***************************************************************************)
(* Merging the block files of a ply: parallel_merge threads, which merge   *)
(* every so many-th file each and send what they merged in messages, and   *)
(* the receiving side of their queues, parallelMergeBlockNextGet.  A queue *)
(* is a bounded FIFO.                                                      *)
(***************************************************************************)
EXTENDS SortBlocks, TrimReader

CONSTANTS
  MaxStreams,     \* MAX_MERGE_THREADS
  MaxMsg,         \* MAX_ELEMENTS_IN_MESSAGE
  QueueSize       \* messages in a queue

ASSUME MergeAssumption == {MaxStreams, MaxMsg, QueueSize} \subseteq Nat \ {0}

VARIABLES
  merging,        \* entry_type of the merge
  streams,        \* the merge threads
  queue,          \* messages of entries; the last is empty
  held,           \* what is left of the last received message
  finished        \* finished_stream

mergeVars == <<merging, streams, queue, held, finished>>

MergeInit ==
  /\ merging = "positions"
  /\ streams = <<>> /\ queue = <<>> /\ held = <<>> /\ finished = <<>>

MergeKilled ==
  /\ merging' = "positions"
  /\ streams' = <<>> /\ queue' = <<>> /\ held' = <<>> /\ finished' = <<>>

Thread(readers) ==
  [at |-> "pick", then |-> "same", readers |-> readers, from |-> 1, last |-> <<>>, msg |-> <<>>]

NumStreams(n) ==
  IF n \div 2 >= MaxStreams THEN MaxStreams ELSE IF n \div 2 = 0 THEN 1 ELSE n \div 2

(* How many of n files stream s of m merges: the s-th and every m-th from  *)
(* there.                                                                  *)
NumFiles(n, s, m) == n \div m + IF s <= n % m THEN 1 ELSE 0

(* parallelMergeBlockReadInit.  The block files belong to the readers from *)
(* here on, which delete them at their end.                                *)
StartMerge(t) ==
  LET m == NumStreams(Len(files[t]))
  IN  \E works \in BOOLEAN :
        /\ merging' = t
        /\ streams' = [s \in 1..m |-> Thread(
             [i \in 1..NumFiles(Len(files[t]), s, m) |->
                Opened(files[t][s + (i - 1) * m], works)])]
        /\ queue' = [s \in 1..m |-> <<>>]
        /\ held' = [s \in 1..m |-> <<>>]
        /\ finished' = [s \in 1..m |-> FALSE]
        /\ files' = [files EXCEPT ![t] = <<>>]

-----------------------------------------------------------------------------
(* A merge thread.                                                         *)

(* positionCompare(last, e) = 0, or moveSequential(last, e).               *)
Follows(last, e) == IF merging = "positions" THEN e.key = last.key ELSE e.key = last.key + 1

(* Of the streams or readers in S, whose next entry is front[i], the first *)
(* with the smallest key.                                                  *)
Smallest(S, front) ==
  CHOOSE i \in S : \A j \in S : front[i].key < front[j].key \/ (front[i].key = front[j].key /\ i <= j)

(* The message with e added, sent when it is full.                         *)
Packed(t, e) ==
  LET msg == Append(t.msg, e)
  IN  IF Len(msg) = MaxMsg THEN [t EXCEPT !.msg = msg, !.at = "send", !.then = "same"]
      ELSE [t EXCEPT !.msg = msg, !.at = "same"]

(* When all files are at their end, the rest is sent, and an end message.  *)
EndedSilently(t) ==
  [t EXCEPT !.at = IF t.msg = <<>> THEN "done" ELSE "send", !.then = "done"]

Ended(t) ==
  [t EXCEPT !.at = "send", !.then = IF t.msg = <<>> THEN "done" ELSE "end"]

(* The smallest next entry of all files.                                   *)
Pick(s) ==
  LET t == streams[s]
      ready == [i \in DOMAIN t.readers |-> Ready(t.readers[i])]
      left == {i \in DOMAIN ready : ~ready[i].empty}
      min == Smallest(left, [i \in left |-> Head(ready[i].buffer)])
      e == Head(ready[min].buffer)
  IN  /\ t.at = "pick"
      /\ streams' = [streams EXCEPT ![s] =
           IF left = {} THEN Ended([t EXCEPT !.readers = ready])
           ELSE Packed([t EXCEPT !.readers = [ready EXCEPT ![min] = Removed(@)],
                          !.from = min, !.last = e], e)]
      /\ UNCHANGED <<merging, queue, held, finished>>

(* Entries of the same file that follow it at once.                        *)
Same(s) ==
  LET t == streams[s]
      r == Ready(t.readers[t.from])
      e == Head(r.buffer)
  IN  /\ t.at = "same"
      /\ streams' = [streams EXCEPT ![s] =
           IF ~r.empty /\ Follows(t.last, e)
           THEN Packed([t EXCEPT !.readers[t.from] = Removed(r)], e)
           ELSE [t EXCEPT !.readers[t.from] = r, !.at = "pick"]]
      /\ UNCHANGED <<merging, queue, held, finished>>

(* bsdlicQueueSend: waits while the queue is full.                         *)
Send(s) ==
  LET t == streams[s]
  IN  /\ t.at = "send" /\ Len(queue[s]) < QueueSize
      /\ queue' = [queue EXCEPT ![s] = Append(@, t.msg)]
      /\ streams' = [streams EXCEPT ![s] =
           [t EXCEPT !.msg = <<>>, !.at = IF t.then = "end" THEN "send" ELSE t.then,
                     !.then = "done"]]
      /\ UNCHANGED <<merging, held, finished>>

-----------------------------------------------------------------------------
(* The receiving side.                                                     *)

(* Is there something to look at in stream s, or is it finished?           *)
Known(s) == held[s] # <<>> \/ finished[s]

Left == {s \in DOMAIN held : held[s] # <<>>}
MinStream == Smallest(Left, [s \in Left |-> Head(held[s])])
RemoveFrom(s) == held' = [held EXCEPT ![s] = Tail(@)]

(* bsdlicQueueReceive for stream s.                                        *)
Receive(s) ==
  /\ ~Known(s) /\ queue[s] # <<>>
  /\ queue' = [queue EXCEPT ![s] = Tail(@)]
  /\ held' = [held EXCEPT ![s] = Head(queue[s])]
  /\ finished' = [finished EXCEPT ![s] = Head(queue[s]) = <<>>]
  /\ UNCHANGED <<merging, streams>>

(* parallelMergeBlockTerminate joins the threads.                          *)
Terminated == \A s \in DOMAIN streams : streams[s].at = "done"
=============================================================================
