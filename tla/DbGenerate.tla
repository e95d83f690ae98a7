------------------------------ MODULE DbGenerate ------------------------------
(***************************************************************************)
(* "mcperft create-db": brdDbGenerate and, for every ply, brd_db_generate, *)
(* which expands the positions of the ply, sorts the positions reached and *)
(* removes duplicates, and sorts the moves, which then know the index of   *)
(* the position they lead to, back into the order of their positions.      *)
(*                                                                         *)
(* A position is a number, in the order of positionCompare, and Moves are  *)
(* the positions that bytebrdNextMoveGet and bytebrdUtilMoveMake reach     *)
(* from it.  Files are what was written to them (see PlyFile).             *)
(***************************************************************************)
EXTENDS MergeStreams

CONSTANTS
  Root, Moves,    \* the position to start from, and the game
  Depth,          \* ply_depth
  MaxMoves,       \* MAX_BRD_MOVES
  MoveSlots       \* max_sortblock_moves

ASSUME GenerateAssumption ==
  /\ 0 \in Values /\ MaxMoves \in Nat
  /\ DOMAIN Moves \subseteq Keys /\ Root \in DOMAIN Moves
  /\ \A x \in DOMAIN Moves : Moves[x] \in Seq(DOMAIN Moves) /\ Len(Moves[x]) <= MaxMoves
  /\ Depth \in Nat \ {0} /\ MoveSlots \in 1..Slots /\ MaxMoves <= Slots

VARIABLES
  \* board-db/position-db
  positions,      \* ply_0_positions, ply_1_positions, ...
  moves,          \* ply_0_moves, ...
  \* the database thread
  ply,            \* ply_number
  at,             \* how many positions of the ply are expanded
  boards,         \* num_boards_in_ply of the next ply
  fill,           \* sort_block_index
  cursor,         \* the stream that is looked at
  min             \* min_position, or min_move

dbVars == <<positions, moves, ply, at, boards, fill, cursor, min>>
vars == <<main, sortVars, mergeVars, dbVars>>

Init ==
  /\ main = "create"
  /\ SortInit /\ MergeInit
  /\ positions = <<>> /\ moves = <<>>
  /\ ply = 0 /\ at = 0 /\ boards = 0 /\ fill = 0 /\ cursor = 1
  /\ min = CHOOSE e \in Entries : TRUE

Goto(from, to) == main = from /\ main' = to
Entry(pos) == [pos |-> pos, first |-> 0, moves |-> 0]

(* The file of ply 0.                                                      *)
Create ==
  /\ Goto("create", "expand")
  /\ positions' = <<<<Entry(Root)>>>>
  /\ UNCHANGED <<sortVars, mergeVars, moves, ply, at, boards, fill, cursor, min>>

-----------------------------------------------------------------------------
(* Phase 1.                                                                *)

FullTooLate(k) == k > Slots
Full(k) == k + MaxMoves >= Slots

(* The entries es are stored in the active block after the first k.        *)
Stored(k, es) ==
  block' = [block EXCEPT ![active] =
              [i \in 1..Slots |-> IF i \in k + 1..k + Len(es) THEN es[i - k] ELSE @[i]]]

(* The next position is read, its moves are found, and the positions they  *)
(* lead to stored.                                                         *)
Expand ==
  LET entry == positions[ply + 1][at + 1]
      reached == Moves[entry.pos]
      k == Len(reached)
  IN  /\ main = "expand" /\ at < Len(positions[ply + 1])
      /\ positions' = [positions EXCEPT ![ply + 1][at + 1].first = boards,
                                        ![ply + 1][at + 1].moves = k]
      /\ at' = at + 1 /\ boards' = boards + k
      /\ Stored(fill, [i \in 1..k |-> [key |-> reached[i], val |-> boards + i - 1]])
      /\ IF k # 0 /\ Full(fill + k)
         THEN CallSort("positions", fill + k, FALSE, "expand") /\ fill' = 0
         ELSE /\ fill' = fill + k
              /\ UNCHANGED <<main, call, active, background, unsorted, writer, files>>
      /\ UNCHANGED <<mergeVars, moves, ply, cursor, min>>

LastPositions ==
  /\ main = "expand" /\ at = Len(positions[ply + 1])
  /\ CallSort("positions", fill, TRUE, "positions")
  /\ fill' = 0
  /\ UNCHANGED <<block, mergeVars, positions, moves, ply, at, boards, cursor, min>>

-----------------------------------------------------------------------------
(* Phase 2.                                                                *)

OpenPositions ==
  /\ Goto("positions", "unique")
  /\ positions' = Append(positions, <<>>)
  /\ StartMerge("positions")
  /\ UNCHANGED <<call, block, active, background, unsorted, writer,
                 moves, ply, at, boards, fill, cursor, min>>

(* What main looks at: all streams in turn, or one.                        *)
Looks(s) ==
  \/ main \in {"unique", "move"} /\ \A r \in 1..s - 1 : Known(r)
  \/ main \in {"same", "next"} /\ s = cursor

Look(s) == Looks(s) /\ Receive(s) /\ UNCHANGED <<main, sortVars, dbVars>>

AllKnown == \A s \in DOMAIN held : Known(s)

(* The move e.val leads to the position with index i.                      *)
StoreMove(e, i, back) ==
  /\ Stored(fill, <<[key |-> e.val, val |-> i]>>)
  /\ IF fill + 1 = MoveSlots
     THEN CallSort("moves", fill + 1, FALSE, back) /\ fill' = 0
     ELSE /\ main' = back /\ fill' = fill + 1
          /\ UNCHANGED <<call, active, background, unsorted, writer, files>>

(* The smallest position of all streams is new.                            *)
Unique ==
  /\ main = "unique" /\ AllKnown /\ Left # {}
  /\ min' = Head(held[MinStream])
  /\ RemoveFrom(MinStream)
  /\ positions' = [positions EXCEPT ![ply + 2] = Append(@, Entry(min'.key))]
  /\ StoreMove(min', Len(positions[ply + 2]), "same")
  /\ cursor' = 1
  /\ UNCHANGED <<merging, streams, queue, finished, moves, ply, at, boards>>

SkipAll(s) == Len(held) + 1

(* The stream to look for duplicates in after stream s.                    *)
SkipStream(s) == s + 1

(* The same position again, in any of the streams.                         *)
Duplicate ==
  /\ main = "same" /\ cursor <= Len(held) /\ Known(cursor)
  /\ IF held[cursor] # <<>> /\ Head(held[cursor]).key = min.key
     THEN /\ StoreMove(Head(held[cursor]), Len(positions[ply + 2]) - 1, "same")
          /\ RemoveFrom(cursor)
          /\ UNCHANGED cursor
     ELSE /\ cursor' = SkipStream(cursor)
          /\ UNCHANGED <<main, sortVars, fill, held>>
  /\ UNCHANGED <<merging, streams, queue, finished, positions, moves, ply, at, boards, min>>

NoDuplicate ==
  /\ Goto("same", "unique") /\ cursor > Len(held)
  /\ UNCHANGED <<sortVars, mergeVars, dbVars>>

LastMoves ==
  /\ main = "unique" /\ AllKnown /\ Left = {}
  /\ CallSort("moves", fill, TRUE, "join")
  /\ fill' = 0
  /\ UNCHANGED <<block, mergeVars, positions, moves, ply, at, boards, cursor, min>>

(* The merge threads end, and the positions file is complete.              *)
FinishPositions ==
  /\ Goto("join", "moves") /\ Terminated
  /\ UNCHANGED <<sortVars, mergeVars, dbVars>>

-----------------------------------------------------------------------------
(* Phase 3.                                                                *)

OpenMoves ==
  /\ Goto("moves", "move")
  /\ moves' = Append(moves, <<>>)
  /\ StartMerge("moves")
  /\ UNCHANGED <<call, block, active, background, unsorted, writer,
                 positions, ply, at, boards, fill, cursor, min>>

TakeMove(s) ==
  /\ min' = Head(held[s])
  /\ RemoveFrom(s)
  /\ moves' = [moves EXCEPT ![ply + 1] = Append(@, min'.val)]
  /\ cursor' = s
  /\ main' = "next"

(* The smallest move of all streams.                                       *)
FirstMove ==
  /\ main = "move" /\ AllKnown /\ Left # {}
  /\ TakeMove(MinStream)
  /\ UNCHANGED <<sortVars, merging, streams, queue, finished, positions, ply, at, boards, fill>>

(* The same stream goes on with the next move.                             *)
NextMove ==
  /\ main = "next" /\ held[cursor] # <<>> /\ Head(held[cursor]).key = min.key + 1
  /\ TakeMove(cursor)
  /\ UNCHANGED <<sortVars, merging, streams, queue, finished, positions, ply, at, boards, fill>>

(* It does not.                                                            *)
NoNextMove ==
  /\ Goto("next", "move") /\ Known(cursor)
  /\ held[cursor] # <<>> => Head(held[cursor]).key # min.key + 1
  /\ UNCHANGED <<sortVars, mergeVars, dbVars>>

(* The move file is complete, and so is the ply: brdDbGenerate goes on     *)
(* with the next if there are positions in it.                             *)
FinishPly ==
  /\ main = "move" /\ AllKnown /\ Left = {} /\ Terminated
  /\ main' = IF ply + 1 = Depth \/ boards = 0 THEN "done" ELSE "expand"
  /\ ply' = ply + 1 /\ at' = 0 /\ boards' = 0
  /\ UNCHANGED <<sortVars, mergeVars, positions, moves, fill, cursor, min>>

-----------------------------------------------------------------------------
(* The files that are written to, or updated, when the process ends: what  *)
(* was not on the disk yet is lost.                                        *)
Unfinished(p, k) ==
  [i \in 1..Len(positions[p]) |-> IF i <= k THEN positions[p][i] ELSE Entry(positions[p][i].pos)]

Cut(file, k) == SubSeq(file, 1, k)

Updating == main = "expand" \/ (main = "sort" /\ call.type = "positions" /\ ~call.last)
WritingPositions == Len(positions) = ply + 2 /\ Len(moves) = ply /\ main # "moves"
WritingMoves == Len(moves) = ply + 1

(* create-db is killed.  There is no way to go on with what it leaves: it  *)
(* refuses to start while board-db is there.                               *)
Kill ==
  /\ main \notin {"done", "dead"} /\ main' = "dead"
  /\ positions' \in
       IF Updating THEN {[positions EXCEPT ![ply + 1] = Unfinished(ply + 1, k)] : k \in 0..at}
       ELSE IF WritingPositions
       THEN {[positions EXCEPT ![ply + 2] = Cut(@, k)] : k \in 0..Len(positions[ply + 2])}
       ELSE {positions}
  /\ moves' \in IF WritingMoves
                THEN {[moves EXCEPT ![ply + 1] = Cut(@, k)] : k \in 0..Len(moves[ply + 1])}
                ELSE {moves}
  /\ SortKilled /\ MergeKilled
  /\ at' = 0 /\ boards' = 0 /\ fill' = 0 /\ cursor' = 1
  /\ min' = CHOOSE e \in Entries : TRUE
  /\ UNCHANGED ply

-----------------------------------------------------------------------------
Main == \/ Create \/ Expand \/ LastPositions
        \/ (Swap \/ LastWritten) /\ UNCHANGED <<mergeVars, dbVars>>
        \/ OpenPositions \/ Unique \/ Duplicate \/ NoDuplicate \/ LastMoves \/ FinishPositions
        \/ OpenMoves \/ FirstMove \/ NextMove \/ NoNextMove \/ FinishPly
        \/ \E s \in DOMAIN held : Look(s)

Sorter(j) == SortRange(j) /\ UNCHANGED <<mergeVars, dbVars>>
Writer == (Sorted \/ WriteEntry) /\ UNCHANGED <<mergeVars, dbVars>>
Stream(s) == /\ s \in DOMAIN streams /\ (Pick(s) \/ Same(s) \/ Send(s))
             /\ UNCHANGED <<main, sortVars, dbVars>>

Done == main \in {"done", "dead"} /\ UNCHANGED vars

Next == \/ Main
        \/ \E j \in Threads : Sorter(j)
        \/ Writer
        \/ \E s \in 1..MaxStreams : Stream(s)
        \/ Kill \/ Done

Spec == Init /\ [][Next]_vars

(* All threads run.                                                        *)
FairSpec == /\ Spec /\ WF_vars(Main) /\ WF_vars(Writer)
            /\ \A j \in Threads : WF_vars(Sorter(j))
            /\ \A s \in 1..MaxStreams : WF_vars(Stream(s))

-----------------------------------------------------------------------------
Places == {"create", "expand", "sort", "written", "positions", "unique", "same", "join",
           "moves", "move", "next", "done", "dead"}

TypeOK ==
  /\ main \in Places
  /\ call \in [type : Types, n : 0..Slots, last : BOOLEAN, back : Places \cup {"none"}]
  /\ \A b \in {0, 1} : Len(block[b]) = Slots
  /\ active \in {0, 1} /\ background \in {0, 1} /\ unsorted \subseteq Threads
  /\ writer \in [state : {"idle", "sort", "write"}, type : Types, n : 0..Slots, from : {0, 1},
                 used : [Threads -> 0..Slots]]
  /\ \A s \in DOMAIN streams : /\ streams[s].at \in {"pick", "same", "send", "done"}
                               /\ Len(streams[s].msg) <= MaxMsg
                               /\ Len(queue[s]) <= QueueSize
                               /\ finished[s] \in BOOLEAN
  /\ \A p \in DOMAIN positions :
       positions[p] \in Seq([pos : DOMAIN Moves, first : Values, moves : 0..MaxMoves])
  /\ moves \in Seq(Seq(Values))
  /\ ply \in 0..Depth /\ fill \in 0..Slots /\ cursor \in 1..MaxStreams + 1
  /\ at \in Nat /\ boards \in Values /\ min \in Entries

(* The positions of a ply, and where the moves of its i-th lead, according *)
(* to the files: -1 is nowhere.                                            *)
PositionsOf(p) == [i \in 1..Len(positions[p]) |-> positions[p][i].pos]
Target(p, m) ==
  IF m \in DOMAIN moves[p] /\ moves[p][m] + 1 \in DOMAIN positions[p + 1]
  THEN positions[p + 1][moves[p][m] + 1].pos ELSE -1
MovesOf(p, i) ==
  [k \in 1..positions[p][i].moves |-> Target(p, positions[p][i].first + k)]

TotalMoves(p) ==
  LET sum[i \in 0..Len(positions[p])] == IF i = 0 THEN 0 ELSE sum[i - 1] + positions[p][i].moves
  IN  sum[Len(positions[p])]

(* Ply by ply the database becomes the game tree without duplicates,       *)
(* whatever the blocks, files, streams and messages the positions were     *)
(* spread over.                                                            *)
Expansion == INSTANCE PlyExpansion WITH
  expanded <- [p \in 1..ply |-> [i \in 1..Len(positions[p]) |->
                 [pos |-> positions[p][i].pos, moves |-> MovesOf(p, i)]]],
  last <- IF positions = <<>> THEN <<Root>> ELSE PositionsOf(ply + 1)

ImplementsExpansion == Expansion!Spec

(* A create-db that is killed, at any time, leaves no ply that is complete *)
(* to look at but wrong: where the move file has all the moves of the      *)
(* position file, they lead to the right positions of the next ply, and    *)
(* these are sorted and each there once.                                   *)
HalfPlyShows ==
  \A p \in 1..Len(moves) :
    Len(moves[p]) = TotalMoves(p) =>
      /\ \A i \in 1..Len(positions[p]) : MovesOf(p, i) = Moves[positions[p][i].pos]
      /\ Expansion!Lists(PositionsOf(p + 1), Expansion!Reached(PositionsOf(p)))

(* No thread waits for ever for another: create-db ends, unless killed.    *)
Completes == <>(main \in {"done", "dead"})
=============================================================================
