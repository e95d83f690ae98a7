------------------------------ MODULE SortBlocks ------------------------------
(***************************************************************************)
(* Sorting the entries of a ply, block by block: the database thread       *)
(* collects entries in one of two blocks of memory; parallelSort has it    *)
(* sorted by several threads, a range each, and hands it to a thread that  *)
(* merges the ranges into a file while the other block is filled.          *)
(* An entry is a key and a value: a position and the number of the move    *)
(* that leads to it, or the number of a move and the index of a position.  *)
(* The duplicate detection loop of generateSortedBlockFile takes what the  *)
(* search for the smallest element would take next, and is left out.       *)
(***************************************************************************)
EXTENDS Integers, SequencesExt

CONSTANTS
  SortThreads,    \* NUM_SORT_THREADS
  Slots,          \* how many entries fit into a block of memory
  Keys, Values

ASSUME SortAssumption ==
  /\ SortThreads \in Nat \ {0} /\ Slots \in Nat
  /\ Keys \subseteq Nat /\ Values \subseteq Nat

VARIABLES
  main,           \* where the database thread is
  call,           \* its call of parallelSort
  block,          \* sort_block[0] and sort_block[1]
  active,         \* active_sort_block
  background,     \* background_sort_block
  unsorted,       \* the sort threads that run
  writer,         \* the thread that runs generateSortedBlockFile
  files           \* the block files, of positions and of moves

sortVars == <<call, block, active, background, unsorted, writer, files>>

Types == {"positions", "moves"}
Entries == [key : Keys, val : Values]
Threads == 1..SortThreads
NoCall == [type |-> "positions", n |-> 0, last |-> FALSE, back |-> "none"]
Idle == [state |-> "idle", type |-> "moves", n |-> 0, from |-> 0, used |-> [j \in Threads |-> 0]]

NoBlocks == [b \in {0, 1} |-> [k \in 1..Slots |-> CHOOSE e \in Entries : TRUE]]
NoFiles == [t \in Types |-> <<>>]

SortInit ==
  /\ call = NoCall /\ block = NoBlocks /\ active = 0 /\ background = 0
  /\ unsorted = {} /\ writer = Idle /\ files = NoFiles

(* The process ends.  The block files it leaves are never read.            *)
SortKilled ==
  /\ call' = NoCall /\ block' = NoBlocks /\ active' = 0 /\ background' = 0
  /\ unsorted' = {} /\ writer' = Idle /\ files' = NoFiles

(* sort_parms[j] of a sort of n entries: num_entries and start_index.      *)
Share(n, j) == n \div SortThreads + IF j <= n % SortThreads THEN 1 ELSE 0
StartOf(n, j) == (j - 1) * (n \div SortThreads) + IF j - 1 <= n % SortThreads THEN j - 1 ELSE n % SortThreads

(* parallelSort is called: positions are sorted before the call goes on,   *)
(* moves by the thread that writes them.                                   *)
CallSort(t, n, last, back) ==
  /\ main' = "sort"
  /\ call' = [type |-> t, n |-> n, last |-> last, back |-> back]
  /\ IF t = "positions" THEN background' = active /\ unsorted' = Threads
     ELSE UNCHANGED <<background, unsorted>>
  /\ UNCHANGED <<active, writer, files>>

(* What qsort makes of q: entries with the same key end up in any order.   *)
Sorts(q) ==
  {r \in {[k \in DOMAIN q |-> q[p[k]]] : p \in Bijection(DOMAIN q, DOMAIN q)} :
     \A k, l \in DOMAIN q : k < l => r[k].key <= r[l].key}

(* qsort of one range: of the block that main waits for, or the writer.    *)
SortRange(j) ==
  LET n == IF writer.state = "sort" THEN writer.n ELSE call.n
      from == StartOf(n, j)
  IN  /\ j \in unsorted
      /\ unsorted' = unsorted \ {j}
      /\ \E r \in Sorts([k \in 1..Share(n, j) |-> block[background][from + k]]) :
           block' = [block EXCEPT ![background] =
                       [k \in 1..Slots |-> IF k \in from + 1..from + Share(n, j)
                                           THEN r[k - from] ELSE @[k]]]
      /\ UNCHANGED <<main, call, active, background, writer, files>>

(* The writer's memory is taken for the next block before it was joined.   *)
JoinedAtOnce == main = "sort" /\ (call.type = "positions" => unsorted = {})

(* The sort threads, then the writer of the previous block are joined.     *)
Joined == main = "sort" /\ writer.state = "idle" /\ unsorted = {}

(* The blocks change places, and a thread starts to write the full one.    *)
Swap ==
  /\ Joined
  /\ background' = active /\ active' = 1 - active
  /\ main' = IF call.last /\ call.n # 0 THEN "written" ELSE call.back
  /\ IF call.n = 0
     THEN UNCHANGED <<unsorted, writer, files>>
     ELSE /\ writer' = [Idle EXCEPT !.type = call.type, !.n = call.n, !.from = active,
                          !.state = IF call.type = "moves" THEN "sort" ELSE "write"]
          /\ unsorted' = IF call.type = "moves" THEN Threads ELSE {}
          /\ files' = [files EXCEPT ![call.type] = Append(@, <<>>)]
  /\ UNCHANGED <<call, block>>

LastWritten ==
  /\ main = "written" /\ writer.state = "idle"
  /\ main' = call.back
  /\ UNCHANGED sortVars

(* generateSortedBlockFile: the moves are sorted ...                       *)
Sorted ==
  /\ writer.state = "sort" /\ unsorted = {}
  /\ writer' = [writer EXCEPT !.state = "write"]
  /\ UNCHANGED <<main, call, block, active, background, unsorted, files>>

(* ... and the smallest next entry of all ranges goes to the file, until   *)
(* there is none.                                                          *)
WriteEntry ==
  LET n == writer.n
      Item(j) == block[writer.from][StartOf(n, j) + writer.used[j] + 1]
      left == {j \in Threads : writer.used[j] < Share(n, j)}
      Before(i, j) == Item(i).key < Item(j).key \/ (Item(i).key = Item(j).key /\ i <= j)
      min == CHOOSE j \in left : \A i \in left : Before(j, i)
      used == [writer.used EXCEPT ![min] = @ + 1]
  IN  /\ writer.state = "write"
      /\ files' = [files EXCEPT ![writer.type][Len(files[writer.type])] = Append(@, Item(min))]
      /\ writer' = IF \A j \in Threads : used[j] = Share(n, j)
                   THEN Idle ELSE [writer EXCEPT !.used = used]
      /\ UNCHANGED <<main, call, block, active, background, unsorted>>

=============================================================================
