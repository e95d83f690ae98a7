------------------------------- MODULE Aggregate -------------------------------
(***************************************************************************)
(* "mcperft aggregate": brd_db_aggregate puts the results files of all     *)
(* parts into one table, indexed by the positions of the last ply of the   *)
(* database, and sums it up along the move files, ply by ply, to the       *)
(* start position.  Plies and positions are counted from 0.                *)
(***************************************************************************)
EXTENDS Integers, SequencesExt

CONSTANTS
  DbDepth,        \* last ply of the database
  Size,           \* positions in each ply
  NumMoves,       \* num_moves of each position of each ply but the last
  MoveFile,       \* ply_<n>_moves: the index in the next ply, move by move
  MoveStart,      \* where the moves of each position start in it
  Depths,         \* the depths a search may have been set up for
  Databases,      \* the depths of the database it may have been set up with
  Leaves,         \* what the counts may have found below the last ply
  Cuts,           \* how a search may have been split: the positions of each part
  CounterLimit,   \* the largest deepSearchCounter_t
  ResultEntries,  \* size of the buffer for results files
  MoveEntries,    \* size of the buffer for move files
  FileLimits      \* files the process may open besides those it starts with

Plies == 0..DbDepth - 1
Positions(ply) == 0..Size[ply] - 1
LastPly == Positions(DbDepth)
Interval(part) == part.from..part.from + part.num - 1
Smaller(a, b) == IF a <= b THEN a ELSE b

(* The database is the one brd_db_generate writes.                         *)
ASSUME DatabaseAssumption ==
  /\ DbDepth \in Nat /\ DbDepth > 1
  /\ Size \in [0..DbDepth -> Nat \ {0}] /\ Size[0] = 1
  /\ \A ply \in Plies :
       /\ NumMoves[ply] \in [Positions(ply) -> 0..MoveEntries]
       /\ MoveFile[ply] \in Seq(Positions(ply + 1))
       /\ MoveStart[ply] \in [0..Size[ply] -> Nat]
       /\ MoveStart[ply][0] = 0
       /\ MoveStart[ply][Size[ply]] = Len(MoveFile[ply])
       /\ \A i \in Positions(ply) : /\ MoveStart[ply][i + 1] = MoveStart[ply][i] + NumMoves[ply][i]
                                    /\ MoveStart[ply][i + 1] <= Len(MoveFile[ply])

(* The parts are those of one set-up: OneSetup, NoOverlap and              *)
(* SetupIsComplete of CountSetup.                                          *)
ASSUME PartsAssumption ==
  /\ \A cut \in Cuts :
       /\ cut \in Seq([from : Nat, num : Nat]) /\ cut # <<>>
       /\ \A p \in DOMAIN cut : Interval(cut[p]) \subseteq LastPly
       /\ \A p, q \in DOMAIN cut : p # q => Interval(cut[p]) \cap Interval(cut[q]) = {}
  /\ Depths \subseteq Nat \ {0} /\ Databases \subseteq Nat
  /\ Leaves \subseteq [LastPly -> Nat]

ASSUME LimitAssumption ==
  /\ CounterLimit \in Nat
  /\ FileLimits \subseteq Nat /\ \A n \in FileLimits : n > 2
  /\ ResultEntries \in Nat \ {0} /\ MoveEntries \in Nat \ {0}

VARIABLES
  asked, made, cut, leaf, files, limit, \* what is on disk: it does not change
  left, open, file, got, found, \* the loop over the results directory
  depth, table,                 \* search_depth, deep_search_result
  ply, i,                       \* the loops of the summation
  offset, buf, index,           \* the move file: where it is read, the buffer
  count,                        \* position_count_space
  main, exit,                   \* where the thread is, and how it ended
  perft, ply1                   \* *perft_result, ply1_perft_result

disk == <<asked, made, cut, leaf, files, limit>>
scan == <<left, open, file, got, found, depth, table>>
pass == <<ply, i, offset, buf, index, count>>
result == <<perft, ply1>>
vars == <<disk, scan, pass, main, exit, result>>

Parts == DOMAIN cut
Numbered(p) == IF asked > DbDepth THEN cut[p].num ELSE 0     \* num_workloads

(* A results file: a count may not have been started (no file), or be      *)
(* interrupted before the header or anywhere in the entries.               *)
Files(p) ==
  {f \in [header : {"none", "short", "full"}, entries : 0..Numbered(p), torn : BOOLEAN] :
     /\ f.header # "full" => f.entries = 0 /\ ~f.torn
     /\ f.torn => f.entries < Numbered(p)}

Init ==
  /\ asked \in Depths /\ made \in Databases /\ cut \in Cuts
  /\ leaf \in Leaves /\ limit \in FileLimits
  /\ files \in [Parts -> UNION {Files(p) : p \in Parts}]
  /\ \A p \in Parts : files[p] \in Files(p)
  /\ asked <= DbDepth => \A p \in Parts \ {1} : files[p].header = "none"
  /\ left = {p \in Parts : files[p].header # "none"}
  /\ open = 0 /\ file = 1 /\ got = 0 /\ found = 0 /\ depth = 0
  /\ table = [x \in LastPly |-> 0]
  /\ count = [p \in Plies |-> [x \in Positions(p) |-> 0]]
  /\ ply = 0 /\ i = 0 /\ offset = 0 /\ buf = <<>> /\ index = 0
  /\ main = "scan" /\ exit = "none"
  /\ perft = 0 /\ ply1 = [x \in Positions(1) |-> 0]

Goto(from, to) == main = from /\ main' = to

Die(why) == main' = "done" /\ exit' = why /\ UNCHANGED <<scan, pass>>

-----------------------------------------------------------------------------
(* readdir gives the files in any order; none is closed.                   *)
Take(p) ==
  /\ open' = open + 1 /\ left' = left \ {p} /\ depth' = asked
  /\ \/ Goto("scan", "check") /\ asked <= DbDepth /\ UNCHANGED <<file, got>>
     \/ Goto("scan", "read") /\ asked > DbDepth /\ file' = p /\ got' = 0
  /\ UNCHANGED <<found, table, pass, exit>>

OpenFile(p) ==
  /\ main = "scan"
  /\ \/ open >= limit /\ Die("files")
     \/ open < limit /\ files[p].header = "short" /\ Die("header")
     \/ open < limit /\ files[p].header = "full" /\ made # DbDepth /\ Die("database")
     \/ open < limit /\ files[p].header = "full" /\ made = DbDepth /\ Take(p)
  /\ UNCHANGED <<disk, result>>

(* One read of the results file.  A torn last entry is noticed by its size *)
(* when the read reaches it.                                               *)
StoreLastRead(n) ==
  LET from == cut[file].from + got
  IN  /\ got' = got + n
      /\ table' = [x \in LastPly |-> IF x \in from..from + n - 1 THEN leaf[x] ELSE table[x]]
      /\ \/ main' = "scan" /\ got' = cut[file].num /\ found' = found + n
         \/ UNCHANGED <<main, found>> /\ got' # cut[file].num
      /\ UNCHANGED <<left, open, file, depth, pass, exit>>

StoreAtStart(n) ==
  LET from == cut[file].from
  IN  /\ got' = got + n
      /\ table' = [x \in LastPly |-> IF x \in from..from + n - 1 THEN leaf[x] ELSE table[x]]
      /\ \/ main' = "scan" /\ got' = cut[file].num /\ found' = found + cut[file].num
         \/ UNCHANGED <<main, found>> /\ got' # cut[file].num
      /\ UNCHANGED <<left, open, file, depth, pass, exit>>

Store(n) ==
  LET from == cut[file].from + got
  IN  /\ got' = got + n
      /\ table' = [x \in LastPly |-> IF x \in from..from + n - 1 THEN leaf[x] ELSE table[x]]
      /\ \/ main' = "scan" /\ got' = cut[file].num /\ found' = found + cut[file].num
         \/ UNCHANGED <<main, found>> /\ got' # cut[file].num
      /\ UNCHANGED <<left, open, file, depth, pass, exit>>

ReadResultsToEnd ==
  LET n    == Smaller(ResultEntries, files[file].entries - got)
      torn == files[file].torn /\ n < ResultEntries
      fits == \A k \in 0..n - 1 : leaf[cut[file].from + got + k] <= CounterLimit
  IN  /\ main = "read"
      /\ \/ torn /\ Die("odd")
         \/ ~torn /\ ~fits /\ Die("counter")
         \/ /\ ~torn /\ n = 0 /\ got # cut[file].num
            /\ main' = "scan" /\ found' = found + cut[file].num
            /\ UNCHANGED <<left, open, file, got, depth, table, pass, exit>>
         \/ ~torn /\ fits /\ (n > 0 \/ got = cut[file].num) /\ Store(n)
      /\ UNCHANGED <<disk, result>>

ReadResultsForever ==
  LET n    == Smaller(ResultEntries, files[file].entries - got)
      torn == files[file].torn /\ n < ResultEntries
      fits == \A k \in 0..n - 1 : leaf[cut[file].from + got + k] <= CounterLimit
  IN  /\ main = "read"
      /\ \/ torn /\ Die("odd")
         \/ ~torn /\ ~fits /\ Die("counter")
         \/ ~torn /\ fits /\ Store(n)
      /\ UNCHANGED <<disk, result>>

ReadResults ==
  LET n    == Smaller(ResultEntries, files[file].entries - got)
      torn == files[file].torn /\ n < ResultEntries
      fits == \A k \in 0..n - 1 : leaf[cut[file].from + got + k] <= CounterLimit
  IN  /\ main = "read"
      /\ \/ torn /\ Die("odd")
         \/ ~torn /\ ~fits /\ Die("counter")
         \/ ~torn /\ n = 0 /\ got # cut[file].num /\ Die("short")
         \/ ~torn /\ fits /\ (n > 0 \/ got = cut[file].num) /\ Store(n)
      /\ UNCHANGED <<disk, result>>

Scanned ==
  /\ Goto("scan", "check") /\ left = {}
  /\ UNCHANGED <<disk, scan, pass, exit, result>>

-----------------------------------------------------------------------------
(* A pass over ply p.  It opens two files and closes them at its end, so   *)
(* only the first can find no descriptor left.                             *)
StartPass(what, p) ==
  /\ main' = what /\ ply' = p /\ i' = 0
  /\ offset' = 0 /\ buf' = <<>> /\ index' = 0
  /\ UNCHANGED <<scan, count, exit>>

CheckTotal ==
  /\ main = "check"
  /\ \/ depth = 0 /\ Die("nofiles")
     \/ depth > DbDepth /\ found # Size[DbDepth] /\ Die("total")
     \/ /\ depth > DbDepth /\ found = Size[DbDepth]
        /\ \/ open + 2 > limit /\ Die("files")
           \/ open + 2 <= limit /\ StartPass("deep", DbDepth - 1)
     \/ depth \in 1..DbDepth /\ StartPass("last", depth - 1)
  /\ UNCHANGED <<disk, result>>

(* brdDbLastPlyMovesCount.                                                 *)
CountMoves ==
  /\ main = "last" /\ i < Size[ply]
  /\ count' = [count EXCEPT ![ply][i] = NumMoves[ply][i]]
  /\ i' = i + 1
  /\ UNCHANGED <<disk, scan, ply, offset, buf, index, main, exit, result>>

(* The buffer, filled up if it does not hold the next num moves: what is   *)
(* left in it goes to the front.                                           *)
Refilled(num) ==
  IF index + num <= Len(buf) THEN [buf |-> buf, index |-> index, offset |-> offset]
  ELSE LET rest == SubSeq(buf, index + 1, Len(buf))
           to   == Smaller(offset + MoveEntries - Len(rest), Len(MoveFile[ply]))
       IN  [buf |-> rest \o SubSeq(MoveFile[ply], offset + 1, to), index |-> 0, offset |-> to]

Sum(row, moves) == FoldLeft(LAMBDA sum, x : sum + row[x], 0, moves)

(* brdDbDeepSearchAggregate and brdDbPositionTreeAggregate, one position.  *)
SumPosition ==
  LET num  == NumMoves[ply][i]
      next == Refilled(num)
      row  == IF main = "deep" THEN table ELSE count[ply + 1]
  IN  /\ main \in {"deep", "tree"} /\ i < Size[ply]
      /\ next.index + num <= Len(next.buf)
      /\ count' = [count EXCEPT ![ply][i] =
                     Sum(row, SubSeq(next.buf, next.index + 1, next.index + num))]
      /\ buf' = next.buf /\ offset' = next.offset /\ index' = next.index + num
      /\ i' = i + 1
      /\ UNCHANGED <<disk, scan, ply, main, exit, result>>

NextPlyBelowZero ==
  /\ i = Size[ply]
  /\ \/ /\ main \in {"deep", "last"} /\ depth > 1
        /\ StartPass("tree", IF depth > DbDepth THEN DbDepth - 2 ELSE depth - 2)
     \/ main = "tree" /\ StartPass("tree", ply - 1)
  /\ UNCHANGED <<disk, result>>

NextPlyFromDatabase ==
  /\ i = Size[ply]
  /\ \/ main \in {"deep", "last"} /\ depth > 1 /\ StartPass("tree", DbDepth - 2)
     \/ main = "tree" /\ ply > 0 /\ StartPass("tree", ply - 1)
  /\ UNCHANGED <<disk, result>>

NextPly ==
  /\ i = Size[ply]
  /\ \/ /\ main \in {"deep", "last"} /\ depth > 1
        /\ StartPass("tree", IF depth > DbDepth THEN DbDepth - 2 ELSE depth - 2)
     \/ main = "tree" /\ ply > 0 /\ StartPass("tree", ply - 1)
  /\ UNCHANGED <<disk, result>>

Report ==
  /\ i = Size[ply]
  /\ \/ main \in {"deep", "last"} /\ depth <= 1
     \/ main = "tree" /\ ply = 0
  /\ perft' = count[0][0] /\ ply1' = count[1]
  /\ main' = "done" /\ exit' = "ok"
  /\ UNCHANGED <<disk, scan, pass>>

Done == main = "done" /\ UNCHANGED vars

Step == \/ \E p \in left : OpenFile(p)
        \/ ReadResults \/ Scanned \/ CheckTotal
        \/ CountMoves \/ SumPosition \/ NextPly \/ Report

Next == Step \/ Done

Spec == Init /\ [][Next]_vars
FairSpec == Spec /\ WF_vars(Step)

-----------------------------------------------------------------------------
TypeOK ==
  /\ asked \in Depths /\ made \in Databases /\ cut \in Cuts
  /\ leaf \in Leaves /\ limit \in FileLimits
  /\ \A p \in Parts : files[p] \in Files(p)
  /\ left \subseteq Parts /\ open \in 0..limit /\ file \in Parts
  /\ got \in Nat /\ found \in Nat /\ depth \in Nat
  /\ table \in [LastPly -> Nat]
  /\ count = [p \in Plies |-> count[p]]
  /\ \A p \in Plies : count[p] \in [Positions(p) -> Nat]
  /\ perft \in Nat /\ ply1 \in [Positions(1) -> Nat]
  /\ ply \in Plies /\ i \in 0..Size[ply]
  /\ offset \in Nat /\ index \in Nat /\ buf \in Seq(Nat)
  /\ main \in {"scan", "read", "check", "deep", "last", "tree", "done"}
  /\ exit \in {"none", "files", "header", "database", "odd", "counter", "short",
               "nofiles", "total", "ok"}

(* The moves of a position, wherever the buffer was filled up.             *)
MovesOf(p, x) == SubSeq(MoveFile[p], MoveStart[p][x] + 1, MoveStart[p][x + 1])

(* An accepted aggregation is right: every counter of a ply is the sum of  *)
(* those that its moves lead to, down to what the counts found for each    *)
(* and every position of the last ply, or to the number of moves where the *)
(* search ends inside the database.                                        *)
CountsAddUp ==
  exit = "ok" =>
    /\ perft = count[0][0]
    /\ \A p \in Plies : \A x \in Positions(p) :
         /\ p < asked - 1 =>
              count[p][x] = Sum(IF p = DbDepth - 1 THEN leaf ELSE count[p + 1], MovesOf(p, x))
         /\ p = asked - 1 => count[p][x] = NumMoves[p][x]

(* The number of leaves below each position, by the definition of perft.   *)
Perft[p \in 0..DbDepth] ==
  [x \in Positions(p) |->
     IF p = asked THEN 1
     ELSE IF p = DbDepth THEN leaf[x]
     ELSE Sum(Perft[p + 1], MovesOf(p, x))]

(* An accepted aggregation reports perft of the start position, and what   *)
(* it says of the first moves adds up to it (at depth 1 that is all 0).    *)
PerftIsRight ==
  exit = "ok" => perft = Perft[0][0] /\ (depth > 1 => Sum(ply1, MoveFile[0]) = perft)

(* It is never accepted without the complete results of every part with    *)
(* positions, computed with this database.                                 *)
NothingMissing ==
  exit = "ok" /\ asked > DbDepth =>
    /\ made = DbDepth
    /\ \A p \in Parts : cut[p].num > 0 =>
         files[p] = [header |-> "full", entries |-> cut[p].num, torn |-> FALSE]
    /\ table = leaf

(* With all results there, and as many files as are needed, nothing stands *)
(* in the way.                                                             *)
AllThere ==
  /\ made = DbDepth
  /\ UNION {Interval(cut[p]) : p \in Parts} = LastPly
  /\ \A p \in Parts :
       asked > DbDepth \/ p = 1 =>
         files[p] = [header |-> "full", entries |-> Numbered(p), torn |-> FALSE]
  /\ \A x \in LastPly : leaf[x] <= CounterLimit

NoFalseRefusal == AllThere /\ limit >= Cardinality(Parts) + 2 => exit \in {"none", "ok"}

(* The k-th line of the report is for the k-th move (mcperftAggregate      *)
(* prints move_list[k] next to ply1_perft_result[k]).                      *)
Ply1Attributed ==
  exit = "ok" /\ depth > 1 =>
    \A k \in 1..Len(MoveFile[0]) : ply1[k - 1] = count[1][MoveFile[0][k]]

(* The thread ends: mcperftAggregate waits for it.                         *)
Terminates == <>(main = "done")
=============================================================================
