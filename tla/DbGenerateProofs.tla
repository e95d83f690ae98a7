-------------------------- MODULE DbGenerateProofs ---------------------------
(***************************************************************************)
(* Theorems about create-db, for every game, depth, number of threads and  *)
(* size of blocks, streams, messages and queues, and every interleaving:   *)
(* an invariant, which says of every move and every position of the ply    *)
(* where it is; the types; that no half ply ever looks like a complete     *)
(* one; and that the database implements PlyExpansion.                     *)
(*                                                                         *)
(* The parts: the invariant; the sort and the merge as a whole; the three  *)
(* phases of a ply, action by action; Kill; the theorems.                  *)
(***************************************************************************)
EXTENDS DbGenerate, OperatorProofs

(* What is assumed of the constants.                                       *)
LEMMA Assumptions ==
  /\ SortThreads \in Nat \ {0} /\ {Slots, MaxMoves, MaxStreams, MaxMsg, QueueSize} \subseteq Nat
  /\ {MaxStreams, MaxMsg, QueueSize} \subseteq Nat \ {0}
  /\ Keys \subseteq Nat /\ Values \subseteq Nat /\ 0 \in Values
  /\ DOMAIN Moves \subseteq Keys /\ Root \in DOMAIN Moves
  /\ \A x \in DOMAIN Moves : Moves[x] \in Seq(DOMAIN Moves) /\ Len(Moves[x]) <= MaxMoves
  /\ Depth \in Nat \ {0} /\ MoveSlots \in 1..Slots /\ MaxMoves <= Slots
BY SortAssumption, MergeAssumption, GenerateAssumption

(* Where the database thread is, or where parallelSort returns to, and     *)
(* what is sorted there.                                                   *)
Stage == IF main \in {"sort", "written"} THEN call.back ELSE main
SortType == IF Stage \in {"create", "expand", "positions"} THEN "positions" ELSE "moves"

Filled == IF main = "sort" THEN call.n ELSE fill
SortBox == SortBoxes(block, active, Filled, writer, files[SortType])

MergeBox == MergeBoxes(streams, queue, held)

(* Move m of the first n positions of P leads to x.                        *)
Leads(P, n, m, x) ==
  \E i \in 1..n : /\ P[i].first <= m /\ m < P[i].first + P[i].moves
                  /\ x = Moves[P[i].pos][m - P[i].first + 1]

(* The ply in hand and the next; e is the entry of a move and the position *)
(* that it leads to; of a move and the index of that position.             *)
Here == positions[ply + 1]
Following == positions[ply + 2]
LeadsTo(e) == Leads(Here, at, e.val, e.key)
Indexed(e) == e.val + 1 \in 1..Len(Following) /\ Leads(Here, at, e.key, Following[e.val + 1].pos)
Turned(e) == [key |-> Following[e.val + 1].pos, val |-> e.key]
Known1(x) == \E i \in 1..Len(Following) : Following[i].pos = x

-----------------------------------------------------------------------------
BeforeMerge == {"create", "expand", "positions"}
Finding == {"unique", "same", "join"}
Writing == {"move", "next"}
Over == {"done", "dead"}

CallRec == [type : Types, n : 0..Slots, last : BOOLEAN, back : Places \cup {"none"}]

SortTypes ==
  /\ main \in Places
  /\ call \in CallRec
  /\ block \in [{0, 1} -> Memory]
  /\ active \in {0, 1} /\ background \in {0, 1} /\ unsorted \subseteq Threads
  /\ writer \in WriterRec
  /\ files \in [Types -> Seq(Seq(Items))]

MergeTypes ==
  /\ merging \in Types
  /\ streams \in Seq(ThreadRec) /\ Len(streams) <= MaxStreams
  /\ queue \in [1..Len(streams) -> Seq(Seq(Items))]
  /\ held \in [1..Len(streams) -> Seq(Items)]
  /\ finished \in [1..Len(streams) -> BOOLEAN]

PlyEntry == [pos : DOMAIN Moves, first : Nat, moves : 0..MaxMoves]

DbTypes ==
  /\ positions \in Seq(Seq(PlyEntry))
  /\ moves \in Seq(Seq(Nat))
  /\ ply \in 0..Depth /\ at \in Nat /\ boards \in Nat /\ fill \in 0..Slots
  /\ cursor \in 1..MaxStreams + 1 /\ min \in Items

Calls ==
  /\ call.type = "positions" => call.back = IF call.last THEN "positions" ELSE "expand"
  /\ call.type = "moves" => call.back = IF call.last THEN "join" ELSE "same"
  /\ ~call.last => call.n # 0
  /\ fill = 0

Control ==
  /\ main \in {"sort", "written"} => Calls
  /\ main = "written" => call.last
  /\ main \in {"create", "positions", "join", "moves"} \cup Writing \cup Over => fill = 0
  /\ main = "expand" => fill + MaxMoves <= Slots
  /\ main \in {"unique", "same"} => fill < MoveSlots

Plies ==
  /\ Stage = "create" => positions = <<>> /\ moves = <<>> /\ ply = 0 /\ at = 0 /\ boards = 0
  /\ Stage \in {"expand", "positions"} => Len(positions) = ply + 1 /\ Len(moves) = ply
  /\ Stage \in Finding \cup {"moves"} => Len(positions) = ply + 2 /\ Len(moves) = ply
  /\ Stage \in Writing => Len(positions) = ply + 2 /\ Len(moves) = ply + 1
  /\ Stage = "done" => Len(positions) = ply + 1 /\ Len(moves) = ply
  /\ Stage \notin Over \cup {"create"} => /\ ply < Depth /\ Len(Here) # 0 /\ at <= Len(Here)
                                          /\ Stage # "expand" => at = Len(Here)

WriterControl ==
  /\ main \in {"create", "positions", "join", "moves"} \cup Writing \cup Over =>
       writer.state = "idle"
  /\ WriterOK(writer)
  /\ writer.state # "idle" =>
       /\ writer.from = 1 - active /\ writer.n # 0 /\ writer.type = SortType
       /\ Len(files[writer.type]) # 0
  /\ writer.state = "sort" =>
       /\ writer.type = "moves" /\ background = writer.from
       /\ \A j \in Threads : writer.used[j] = 0
       /\ files[writer.type][Len(files[writer.type])] = <<>>
  /\ main = "sort" /\ call.type = "positions" => background = active
  /\ ~(main = "sort" /\ call.type = "positions") /\ writer.state # "sort" => unsorted = {}
  /\ Stage = "create" => files["positions"] = <<>>
  /\ Stage \in BeforeMerge => files["moves"] = <<>>
  /\ Stage \notin BeforeMerge => files["positions"] = <<>>
  /\ Stage \in Writing \cup Over => files["moves"] = <<>>

LastFile == files[writer.type][Len(files[writer.type])]

SortedRuns ==
  /\ \A t \in Types : \A i \in 1..Len(files[t]) : Ascending(files[t][i])
  /\ writer.state = "write" => \A j \in Threads :
       /\ Ascending(Unwritten(block, writer, j))
       /\ Below(LastFile, Unwritten(block, writer, j))
  /\ writer.state = "sort" => \A j \in Threads \ unsorted : Ascending(Unwritten(block, writer, j))
  /\ main = "sort" /\ call.type = "positions" =>
       \A j \in Threads \ unsorted : Ascending(RangeOf(block[active], call.n, j, 0))

(* Merging.                                                                *)
Merging == Stage \in Finding \cup Writing

StreamOK(s) == ThreadOK(streams[s], queue[s], held[s], finished[s], merging)

Limits ==
  \A s \in 1..Len(streams) :
    /\ Len(streams[s].msg) <= MaxMsg
    /\ streams[s].at \in {"pick", "same"} => Len(streams[s].msg) < MaxMsg
    /\ Len(queue[s]) <= QueueSize

Streams ==
  /\ Merging => Ordered(MergeBox) /\ \A s \in 1..Len(streams) : StreamOK(s)
  /\ ~Merging => \A s \in 1..Len(streams) : streams[s].at = "done"
  /\ Stage \in Finding => merging = "positions"
  /\ Stage \in Writing => merging = "moves"
  /\ Stage = "next" => cursor \in 1..Len(streams)

(* The moves of the ply are numbered.                                      *)
NumberedIn(P, n, b) ==
  /\ n = 0 => b = 0
  /\ n # 0 => P[1].first = 0 /\ b = P[n].first + P[n].moves
  /\ \A i \in 1..n : /\ P[i].moves = Len(Moves[P[i].pos])
                     /\ P[i].first + P[i].moves <= b
                     /\ i < n => P[i + 1].first = P[i].first + P[i].moves
                     /\ \A j \in 1..n : i < j => P[i].first + P[i].moves <= P[j].first
  /\ \A m \in 0..b - 1 : \E i \in 1..n : P[i].first <= m /\ m < P[i].first + P[i].moves

Numbered == NumberedIn(Here, at, boards)

(* Every move is somewhere, once.                                          *)
KeptUnsorted ==
  /\ Distinct(SortBox)
  /\ \A e \in Items : e \in Contents(SortBox) <=> LeadsTo(e)

KeptFinding ==
  /\ Distinct(SortBox)
  /\ Distinct(MergeBox)
  /\ \A e \in Items : e \in Contents(SortBox) <=> Indexed(e) /\ Turned(e) \notin Contents(MergeBox)
  /\ \A e \in Contents(MergeBox) : LeadsTo(e)
  /\ \A e \in Items : LeadsTo(e) => e \in Contents(MergeBox) \/ Known1(e.key)

KeptIndexed ==
  /\ Distinct(SortBox)
  /\ \A e \in Items : e \in Contents(SortBox) <=> Indexed(e)

KeptWriting ==
  /\ Distinct(MergeBox)
  /\ \A e \in Items : e \in Contents(MergeBox) <=> Indexed(e) /\ Len(moves[ply + 1]) <= e.key

Kept ==
  /\ Stage \in {"expand", "positions"} => KeptUnsorted
  /\ Stage \in Finding => KeptFinding
  /\ Stage = "moves" => KeptIndexed
  /\ Stage \in Writing => KeptWriting

Found ==
  Stage \in Finding \cup {"moves"} \cup Writing =>
    /\ \A i, j \in 1..Len(Following) : i < j => Following[i].pos < Following[j].pos
    /\ \A i \in 1..Len(Following) : \E m \in 0..boards - 1 : Leads(Here, at, m, Following[i].pos)

Progress ==
  /\ Stage = "unique" => \A e \in Contents(MergeBox), i \in 1..Len(Following) : Following[i].pos < e.key
  /\ Stage = "same" =>
       /\ Len(Following) # 0 /\ min.key = Following[Len(Following)].pos
       /\ \A s \in Nat, i \in Int : \A k \in 1..Len(MergeBox[<<s, i>>]) :
            /\ min.key <= MergeBox[<<s, i>>][k].key
            /\ s < cursor => min.key < MergeBox[<<s, i>>][k].key
  /\ Stage = "join" => Contents(MergeBox) = {}
  /\ Stage \in {"moves"} \cup Writing => \A e \in Items : LeadsTo(e) => Known1(e.key)
  /\ Stage \in Writing =>
       \A k \in 1..Len(moves[ply + 1]) : Indexed([key |-> k - 1, val |-> moves[ply + 1][k]])
  /\ Stage = "next" => min.key + 1 = Len(moves[ply + 1])

PlyRight(p) ==
  /\ \A i \in 1..Len(positions[p]) : MovesOf(p, i) = Moves[positions[p][i].pos]
  /\ Expansion!Lists(PositionsOf(p + 1), Expansion!Reached(PositionsOf(p)))

Past ==
  /\ Stage # "dead" => \A p \in 1..ply : PlyRight(p)
  /\ Stage = "dead" => HalfPlyShows

-----------------------------------------------------------------------------
(* The inductive invariant.                                                *)
SortInv == SortTypes /\ Control /\ WriterControl /\ SortedRuns
MergeInv == MergeTypes /\ Limits /\ Streams
DbInv == DbTypes /\ Plies /\ Numbered /\ Kept /\ Found /\ Progress /\ Past
IInv == SortInv /\ MergeInv /\ DbInv

(* What the threads do leaves the database as it is.                       *)
LEMMA SameDb ==
  ASSUME UNCHANGED dbVars
  PROVE  /\ positions' = positions /\ moves' = moves /\ ply' = ply /\ at' = at
         /\ boards' = boards /\ fill' = fill /\ cursor' = cursor /\ min' = min
         /\ Here' = Here /\ Following' = Following
         /\ \A e : LeadsTo(e)' <=> LeadsTo(e)
         /\ \A e : Indexed(e)' <=> Indexed(e)
         /\ \A e : Turned(e)' = Turned(e)
         /\ \A x : Known1(x)' <=> Known1(x)
<1>1. /\ positions' = positions /\ moves' = moves /\ ply' = ply /\ at' = at
      /\ boards' = boards /\ fill' = fill /\ cursor' = cursor /\ min' = min
  BY DEF dbVars
<1>2. Here' = Here /\ Following' = Following
  BY <1>1 DEF Here, Following
<1>3. ASSUME NEW e PROVE LeadsTo(e)' <=> LeadsTo(e)
  BY <1>1, <1>2 DEF LeadsTo
<1>4. ASSUME NEW e PROVE Indexed(e)' <=> Indexed(e)
  BY <1>1, <1>2 DEF Indexed
<1>5. ASSUME NEW e PROVE Turned(e)' = Turned(e)
  BY <1>1, <1>2 DEF Turned
<1>6. ASSUME NEW x PROVE Known1(x)' <=> Known1(x)
  BY <1>1, <1>2 DEF Known1
<1>. QED
  BY <1>1, <1>2, <1>3, <1>4, <1>5, <1>6

LEMMA SamePast ==
  ASSUME Past, positions' = positions, moves' = moves, ply' = ply, Stage' = Stage
  PROVE  Past'
<1>1. ASSUME NEW p PROVE PlyRight(p)' <=> PlyRight(p)
  BY DEF PlyRight, MovesOf, Target, PositionsOf, Expansion!Reached, Expansion!Lists
<1>2. ASSUME NEW p PROVE TotalMoves(p)' = TotalMoves(p)
  BY DEF TotalMoves
<1>3. HalfPlyShows' <=> HalfPlyShows
  <2>. DEFINE R(p) ==
         /\ \A i \in 1..Len(positions[p]) : MovesOf(p, i) = Moves[positions[p][i].pos]
         /\ Expansion!Lists(PositionsOf(p + 1), Expansion!Reached(PositionsOf(p)))
  <2>1. ASSUME NEW p PROVE R(p)' <=> R(p)
    BY DEF MovesOf, Target, PositionsOf, Expansion!Reached, Expansion!Lists
  <2>2. HalfPlyShows <=> \A p \in 1..Len(moves) : Len(moves[p]) = TotalMoves(p) => R(p)
    BY DEF HalfPlyShows
  <2>3. HalfPlyShows' <=> \A p \in 1..Len(moves') : Len(moves'[p]) = TotalMoves(p)' => R(p)'
    BY DEF HalfPlyShows
  <2>. HIDE DEF R
  <2>. QED
    BY <1>2, <2>1, <2>2, <2>3
<1>. QED
  BY <1>1, <1>3 DEF Past

LEMMA Frame ==
  ASSUME DbInv, UNCHANGED dbVars, Stage' = Stage,
         Contents(SortBox') = Contents(SortBox), Distinct(SortBox) => Distinct(SortBox'),
         BoxesFollow(MergeBox, MergeBox')
  PROVE  DbInv'
<1>1. /\ Contents(MergeBox') = Contents(MergeBox) /\ (Distinct(MergeBox) => Distinct(MergeBox'))
      /\ RowsFrom(MergeBox, MergeBox')
  BY DEF BoxesFollow
<1>2. DbTypes'
  BY SameDb DEF DbInv, DbTypes
<1>3. Plies'
  BY SameDb DEF DbInv, Plies
<1>4. Numbered'
  BY SameDb DEF DbInv, Numbered
<1>5. Found'
  BY SameDb DEF DbInv, Found
<1>6. Past'
  BY SameDb, SamePast DEF DbInv
<1>7. Kept'
  <2>1. KeptUnsorted => KeptUnsorted'
    BY SameDb DEF KeptUnsorted
  <2>2. KeptIndexed => KeptIndexed'
    BY SameDb DEF KeptIndexed
  <2>3. KeptFinding => KeptFinding'
    BY <1>1, SameDb DEF KeptFinding
  <2>4. KeptWriting => KeptWriting'
    BY <1>1, SameDb DEF KeptWriting
  <2>5. Kept
    BY DEF DbInv
  <2>. QED
    BY <2>1, <2>2, <2>3, <2>4, <2>5 DEF Kept
<1>8. Progress'
  <2>0. Progress
    BY DEF DbInv
  <2>1. ASSUME Stage = "same", NEW s \in Nat, NEW i \in Int, NEW k \in 1..Len(MergeBox'[<<s, i>>])
        PROVE  /\ min.key <= MergeBox'[<<s, i>>][k].key
               /\ s < cursor => min.key < MergeBox'[<<s, i>>][k].key
    <3>1. PICK j \in Int : \E l \in 1..Len(MergeBox[<<s, j>>]) :
            MergeBox'[<<s, i>>][k] = MergeBox[<<s, j>>][l]
      BY <1>1, <2>1 DEF RowsFrom
    <3>2. \A l \in 1..Len(MergeBox[<<s, j>>]) :
            /\ min.key <= MergeBox[<<s, j>>][l].key
            /\ s < cursor => min.key < MergeBox[<<s, j>>][l].key
      BY <2>0, <2>1 DEF Progress
    <3>. QED
      BY <3>1, <3>2
  <2>. DEFINE P == \A e \in Items : LeadsTo(e) => Known1(e.key)
              Q == \A k \in 1..Len(moves[ply + 1]) : Indexed([key |-> k - 1, val |-> moves[ply + 1][k]])
  <2>2. P => P'
    BY SameDb
  <2>3. Q => Q'
    BY SameDb
  <2>4. Stage = "unique" => \A e \in Contents(MergeBox'), i \in 1..Len(Following') : Following'[i].pos < e.key
    BY <1>1, <2>0, SameDb DEF Progress
  <2>5. Stage = "same" => Len(Following') # 0 /\ min'.key = Following'[Len(Following')].pos
    BY <2>0, SameDb DEF Progress
  <2>6. Stage = "join" => Contents(MergeBox') = {}
    BY <1>1, <2>0 DEF Progress
  <2>7. Stage = "next" => min'.key + 1 = Len(moves'[ply' + 1])
    BY <2>0, SameDb DEF Progress
  <2>8. Stage \in {"moves"} \cup Writing => P
    BY <2>0 DEF Progress
  <2>9. Stage \in Writing => Q
    BY <2>0 DEF Progress
  <2>10. Stage' \in {"moves"} \cup Writing => P'
    BY <2>2, <2>8
  <2>11. Stage' \in Writing => Q'
    BY <2>3, <2>9
  <2>. HIDE DEF P, Q
  <2>12. Stage' = "same" =>
           \A s \in Nat, i \in Int : \A k \in 1..Len(MergeBox'[<<s, i>>]) :
             /\ min'.key <= MergeBox'[<<s, i>>][k].key
             /\ s < cursor' => min'.key < MergeBox'[<<s, i>>][k].key
    BY <2>1, SameDb
  <2>. QED
    BY <2>4, <2>5, <2>6, <2>7, <2>10, <2>11, <2>12, SameDb DEF Progress, P, Q
<1>. QED
  BY <1>2, <1>3, <1>4, <1>5, <1>6, <1>7, <1>8 DEF DbInv

-----------------------------------------------------------------------------
(* The steps of the sort.                                                  *)
LEMMA SortFacts ==
  ASSUME SortTypes, DbTypes
  PROVE  /\ SortOK(block, active, Filled, writer, files[SortType]) \/ ~WriterOK(writer)
         /\ SortType \in Types /\ Filled \in 0..Slots
         /\ \A t \in Types : files[t] \in Seq(Seq(Items)) /\ Len(files[t]) \in Nat
         /\ call.type \in Types /\ call.n \in 0..Slots /\ call.last \in BOOLEAN
         /\ writer.type \in Types /\ writer.n \in 0..Slots /\ writer.from \in {0, 1}
         /\ writer.state \in {"idle", "sort", "write"}
         /\ writer.used \in [Threads -> 0..Slots]
         /\ block \in [{0, 1} -> Memory] /\ active \in {0, 1} /\ background \in {0, 1}
         /\ 1 - active \in {0, 1} /\ Slots \in Nat
<1>1. SortType \in Types
  BY DEF SortType, Types
<1>2. Filled \in 0..Slots
  BY DEF Filled, SortTypes, DbTypes, CallRec
<1>3. \A t \in Types : files[t] \in Seq(Seq(Items))
  BY DEF SortTypes
<1>4. \A t \in Types : Len(files[t]) \in Nat
  BY <1>3, LenProperties
<1>5. /\ call.type \in Types /\ call.n \in 0..Slots /\ call.last \in BOOLEAN
  BY DEF SortTypes, CallRec
<1>6. /\ writer.type \in Types /\ writer.n \in 0..Slots /\ writer.from \in {0, 1}
      /\ writer.state \in {"idle", "sort", "write"} /\ writer.used \in [Threads -> 0..Slots]
      /\ writer \in WriterRec
  BY DEF SortTypes, WriterRec
<1>7. /\ block \in [{0, 1} -> Memory] /\ active \in {0, 1} /\ background \in {0, 1}
      /\ 1 - active \in {0, 1}
  BY DEF SortTypes
<1>8. Slots \in Nat
  BY Assumptions
<1>. QED
  BY <1>1, <1>2, <1>3, <1>4, <1>5, <1>6, <1>7, <1>8 DEF SortOK

LEMMA SortFrame ==
  ASSUME IInv, UNCHANGED mergeVars, UNCHANGED dbVars, Stage' = Stage, SortInv',
         Contents(SortBox') = Contents(SortBox), Distinct(SortBox) => Distinct(SortBox')
  PROVE  IInv'
<1>1. /\ merging' = merging /\ streams' = streams /\ queue' = queue /\ held' = held
      /\ finished' = finished
  BY DEF mergeVars
<1>2. MergeBox' = MergeBox
  BY <1>1 DEF MergeBox
<1>3. BoxesFollow(MergeBox, MergeBox')
  BY <1>2 DEF BoxesFollow, RowsFrom
<1>4. DbInv'
  BY <1>3, Frame DEF IInv
<1>5. MergeTypes' /\ Limits'
  BY <1>1 DEF IInv, MergeInv, MergeTypes, Limits
<1>6. ASSUME NEW s PROVE StreamOK(s)' <=> StreamOK(s)
  BY <1>1 DEF StreamOK
<1>7. Streams'
  BY <1>1, <1>2, <1>6, SameDb DEF IInv, MergeInv, Streams, Merging
<1>. QED
  BY <1>4, <1>5, <1>7 DEF IInv, MergeInv

(* Where a call of parallelSort comes from.                                *)
LEMMA CallIs ==
  ASSUME SortInv, main \in {"sort", "written"}
  PROVE  /\ call.back \in {"expand", "positions", "same", "join"} /\ Stage = call.back
         /\ call.type = SortType /\ fill = 0
         /\ call.type = "positions" <=> Stage \in BeforeMerge
         /\ call.last <=> call.back \in {"positions", "join"}
         /\ ~call.last => call.n # 0
<1>1. Calls /\ call \in CallRec
  BY DEF SortInv, Control, SortTypes
<1>2. Stage = call.back
  BY DEF Stage
<1>3. call.type \in {"positions", "moves"} /\ call.last \in BOOLEAN
  BY <1>1 DEF CallRec, Types
<1>4. CASE call.type = "positions"
  BY <1>1, <1>2, <1>3, <1>4 DEF Calls, SortType, BeforeMerge
<1>5. CASE call.type = "moves"
  BY <1>1, <1>2, <1>3, <1>5 DEF Calls, SortType, BeforeMerge
<1>. QED
  BY <1>3, <1>4, <1>5

LEMMA LastWrittenOK ==
  ASSUME IInv, LastWritten, UNCHANGED mergeVars, UNCHANGED dbVars
  PROVE  IInv'
<1>1. /\ main = "written" /\ writer.state = "idle" /\ main' = call.back
      /\ call' = call /\ block' = block /\ active' = active /\ background' = background
      /\ unsorted' = unsorted /\ writer' = writer /\ files' = files
  BY DEF LastWritten, sortVars
<1>2. SortTypes /\ Control /\ WriterControl /\ SortedRuns /\ SortInv
  BY DEF IInv, SortInv
<1>3. /\ call.back \in {"positions", "join"} /\ Stage = call.back /\ fill = 0 /\ fill' = 0
  <2>1. call.last
    BY <1>1, <1>2 DEF Control
  <2>. QED
    BY <1>1, <1>2, <2>1, CallIs, SameDb
<1>4. Stage' = Stage
  BY <1>1, <1>3 DEF Stage
<1>5. SortType' = SortType /\ Filled' = Filled
  <2>1. SortType' = SortType
    BY <1>4 DEF SortType
  <2>2. Filled = fill
    BY <1>1 DEF Filled
  <2>3. main' # "sort"
    BY <1>1, <1>3
  <2>4. Filled' = fill'
    BY <2>3 DEF Filled
  <2>. QED
    BY <1>3, <2>1, <2>2, <2>4
<1>6. SortBox' = SortBox
  BY <1>1, <1>5 DEF SortBox
<1>7. SortTypes'
  BY <1>1, <1>2, <1>3 DEF SortTypes, Places
<1>8. Control'
  BY <1>1, <1>3 DEF Control, Over, Writing
<1>9. WriterControl'
  BY <1>1, <1>2, <1>3, <1>4, <1>5 DEF WriterControl, WriterOK
<1>10. SortedRuns'
  BY <1>1, <1>2, <1>3 DEF SortedRuns, LastFile
<1>. QED
  BY <1>4, <1>6, <1>7, <1>8, <1>9, <1>10, SortFrame DEF SortInv

LEMMA SortedOK ==
  ASSUME IInv, Sorted, UNCHANGED mergeVars, UNCHANGED dbVars
  PROVE  IInv'
<1>1. /\ writer.state = "sort" /\ unsorted = {} /\ writer' = [writer EXCEPT !.state = "write"]
      /\ main' = main /\ call' = call /\ block' = block /\ active' = active
      /\ background' = background /\ unsorted' = unsorted /\ files' = files
  BY DEF Sorted
<1>2. SortTypes /\ Control /\ WriterControl /\ SortedRuns /\ DbTypes
  BY DEF IInv, SortInv, DbInv
<1>3. /\ writer'.state = "write" /\ writer'.type = writer.type /\ writer'.n = writer.n
      /\ writer'.from = writer.from /\ writer'.used = writer.used
  BY <1>1, <1>2 DEF SortTypes, WriterRec
<1>4. Stage' = Stage
  BY <1>1 DEF Stage
<1>5. SortType' = SortType /\ Filled' = Filled
  BY <1>1, <1>4, SameDb DEF SortType, Filled
<1>6. \A j : Unwritten(block', writer', j) = Unwritten(block, writer, j)
  BY <1>1, <1>3 DEF Unwritten
<1>7. SortBox' = SortBox
  <2>1. SortBoxes(block', active', Filled', writer', files'[SortType']) =
          SortBoxes(block, active, Filled, writer, files[SortType])
    BY <1>1, <1>3, <1>5, <1>6 DEF SortBoxes
  <2>. QED
    BY <2>1 DEF SortBox
<1>8. SortTypes'
  BY <1>1, <1>2 DEF SortTypes, WriterRec
<1>9. Control'
  BY <1>1, <1>2, SameDb DEF Control, Calls
<1>10. WriterControl'
  <2>1. /\ WriterOK(writer) /\ writer.from = 1 - active /\ writer.n # 0 /\ writer.type = SortType
        /\ Len(files[writer.type]) # 0
        /\ main \notin {"create", "positions", "join", "moves"} \cup Writing \cup Over
        /\ main = "sort" /\ call.type = "positions" => background = active
        /\ Stage = "create" => files["positions"] = <<>>
        /\ Stage \in BeforeMerge => files["moves"] = <<>>
        /\ Stage \notin BeforeMerge => files["positions"] = <<>>
        /\ Stage \in Writing \cup Over => files["moves"] = <<>>
    BY <1>1, <1>2 DEF WriterControl
  <2>2. WriterOK(writer')
    BY <1>1, <1>3, <2>1 DEF WriterOK
  <2>. QED
    BY <1>1, <1>3, <1>4, <1>5, <2>1, <2>2 DEF WriterControl
<1>11. SortedRuns'
  <2>1. LastFile = <<>>
    BY <1>1, <1>2 DEF WriterControl, LastFile
  <2>2. LastFile' = LastFile
    BY <1>1, <1>3 DEF LastFile
  <2>3. \A q : Below(<<>>, q)
    BY DEF Below
  <2>4. \A j \in Threads : Ascending(Unwritten(block, writer, j))
    BY <1>1, <1>2 DEF SortedRuns
  <2>5. \A j \in Threads : /\ Ascending(Unwritten(block', writer', j))
                           /\ Below(LastFile', Unwritten(block', writer', j))
    BY <1>6, <2>1, <2>2, <2>3, <2>4
  <2>6. \A t \in Types : \A i \in 1..Len(files'[t]) : Ascending(files'[t][i])
    BY <1>1, <1>2 DEF SortedRuns
  <2>7. main' = "sort" /\ call'.type = "positions" =>
          \A j \in Threads \ unsorted' : Ascending(RangeOf(block'[active'], call'.n, j, 0))
    BY <1>1, <1>2 DEF SortedRuns
  <2>. QED
    BY <1>3, <2>5, <2>6, <2>7 DEF SortedRuns
<1>. QED
  BY <1>4, <1>7, <1>8, <1>9, <1>10, <1>11, SortFrame DEF SortInv

LEMMA SortRangeOK ==
  ASSUME IInv, NEW j \in Threads, SortRange(j), UNCHANGED mergeVars, UNCHANGED dbVars
  PROVE  IInv'
<1>. DEFINE n == IF writer.state = "sort" THEN writer.n ELSE call.n
            m2 == block'[background]
<1>1. /\ j \in unsorted /\ unsorted' = unsorted \ {j}
      /\ main' = main /\ call' = call /\ active' = active /\ background' = background
      /\ writer' = writer /\ files' = files
  BY DEF SortRange
<1>2. SortTypes /\ Control /\ WriterControl /\ SortedRuns /\ DbTypes /\ SortInv
  BY DEF IInv, SortInv, DbInv
<1>3. block' = [block EXCEPT ![background] = m2] /\ Sorting(block[background], n, j, m2)
  <2>1. PICK r \in Sorts([k \in 1..Share(n, j) |-> block[background][StartOf(n, j) + k]]) :
          block' = [block EXCEPT ![background] = SortsRange(block[background], StartOf(n, j), Share(n, j), r)]
    BY DEF SortRange, SortsRange
  <2>2. block'[background] = SortsRange(block[background], StartOf(n, j), Share(n, j), r)
    BY <1>2, <2>1 DEF SortTypes
  <2>. QED
    BY <2>1, <2>2 DEF Sorting
<1>. HIDE DEF m2
<1>4. Stage' = Stage
  BY <1>1 DEF Stage
<1>5. SortType' = SortType /\ Filled' = Filled
  BY <1>1, <1>4, SameDb DEF SortType, Filled
<1>6. SortOK(block, active, Filled, writer, files[SortType])
  BY <1>2, SortFacts DEF WriterControl
<1>7. Control'
  BY <1>1, <1>2, SameDb DEF Control, Calls
<1>8. \/ writer.state = "sort"
      \/ main = "sort" /\ call.type = "positions" /\ writer.state # "sort"
  BY <1>1, <1>2 DEF WriterControl
<1>9. WriterControl'
  <2>1. unsorted = {} => unsorted' = {}
    BY <1>1
  <2>. QED
    BY <1>1, <1>2, <1>4, <1>5, <2>1 DEF WriterControl
<1>10. /\ \A t \in Types : \A i \in 1..Len(files'[t]) : Ascending(files'[t][i])
       /\ LastFile' = LastFile
  BY <1>1, <1>2 DEF SortedRuns, LastFile
<1>11. CASE writer.state = "sort"
  <2>1. writer.from = 1 - active /\ background = writer.from /\ \A i \in Threads : writer.used[i] = 0
    BY <1>2, <1>11 DEF WriterControl
  <2>2. n = writer.n
    BY <1>11
  <2>3. Sorting(block[writer.from], writer.n, j, m2) /\ block' = [block EXCEPT ![writer.from] = m2]
    BY <1>3, <2>1, <2>2
  <2>. DEFINE B == SortBoxes(block, active, Filled, writer, files[SortType])
              C == SortBoxes(block', active, Filled, writer, files[SortType])
  <2>4. /\ SortOK(block', active, Filled, writer, files[SortType])
        /\ Contents(C) = Contents(B) /\ (Distinct(B) => Distinct(C))
        /\ \A i \in Threads \ {j} : Unwritten(block', writer, i) = Unwritten(block, writer, i)
        /\ Ascending(Unwritten(block', writer, j))
    <3>1. UnusedYet(writer, active)
      BY <1>11, <2>1 DEF UnusedYet
    <3>2. block' = Put(block, writer.from, m2)
      BY <2>3 DEF Put
    <3>3. AfterWriter(block, block', active, Filled, writer, files[SortType], j)
      BY <1>6, <2>3, <3>1, <3>2, WrittenRangeSorted
    <3>. QED
      BY <3>3 DEF AfterWriter
  <2>5. SortBox = B /\ SortBox' = C
    BY <1>1, <1>5 DEF SortBox
  <2>. HIDE DEF B, C
  <2>6. SortTypes'
    BY <1>1, <1>2, <2>4 DEF SortTypes, SortOK
  <2>7. ~(main = "sort" /\ call.type = "positions")
    <3>1. writer.type = "moves" /\ writer.type = SortType
      BY <1>2, <1>11 DEF WriterControl
    <3>. QED
      BY <1>2, <3>1, CallIs
  <2>8. \A i \in Threads \ unsorted : Ascending(Unwritten(block, writer, i))
    BY <1>2, <1>11 DEF SortedRuns
  <2>9. \A i \in Threads \ unsorted' : Ascending(Unwritten(block', writer', i))
    BY <1>1, <2>4, <2>8
  <2>10. SortedRuns'
    BY <1>1, <1>10, <1>11, <2>7, <2>9 DEF SortedRuns
  <2>. QED
    BY <1>4, <1>7, <1>9, <2>4, <2>5, <2>6, <2>10, SortFrame DEF SortInv
<1>12. CASE main = "sort" /\ call.type = "positions" /\ writer.state # "sort"
  <2>1. background = active /\ (writer.state # "idle" => writer.from = 1 - active)
    BY <1>2, <1>12 DEF WriterControl
  <2>2. n = call.n /\ Filled = call.n
    BY <1>12 DEF Filled
  <2>3. Sorting(block[active], Filled, j, m2) /\ block' = [block EXCEPT ![active] = m2]
    BY <1>3, <2>1, <2>2
  <2>. DEFINE B == SortBoxes(block, active, Filled, writer, files[SortType])
              C == SortBoxes(block', active, Filled, writer, files[SortType])
  <2>4. /\ SortOK(block', active, Filled, writer, files[SortType])
        /\ Contents(C) = Contents(B) /\ (Distinct(B) => Distinct(C))
        /\ \A i \in Threads \ {j} : RangeOf(block'[active], Filled, i, 0) = RangeOf(block[active], Filled, i, 0)
        /\ Ascending(RangeOf(block'[active], Filled, j, 0))
        /\ writer.state # "idle" => \A i \in Threads : Unwritten(block', writer, i) = Unwritten(block, writer, i)
    <3>1. WritesOther(writer, active)
      BY <2>1 DEF WritesOther
    <3>2. block' = Put(block, active, m2)
      BY <2>3 DEF Put
    <3>3. AfterActive(block, block', active, Filled, writer, files[SortType], j)
      BY <1>6, <2>3, <3>1, <3>2, ActiveRangeSorted
    <3>. QED
      BY <1>1, <3>3 DEF AfterActive
  <2>5. SortBox = B /\ SortBox' = C
    BY <1>1, <1>5 DEF SortBox
  <2>. HIDE DEF B, C
  <2>6. SortTypes'
    BY <1>1, <1>2, <2>4 DEF SortTypes, SortOK
  <2>8. \A i \in Threads \ unsorted : Ascending(RangeOf(block[active], call.n, i, 0))
    BY <1>2, <1>12 DEF SortedRuns
  <2>9. \A i \in Threads \ unsorted' : Ascending(RangeOf(block'[active'], call'.n, i, 0))
    BY <1>1, <2>2, <2>4, <2>8
  <2>10. writer'.state = "write" => \A i \in Threads :
            /\ Ascending(Unwritten(block', writer', i))
            /\ Below(LastFile', Unwritten(block', writer', i))
    <3>1. ASSUME writer.state = "write", NEW i \in Threads
          PROVE  /\ Ascending(Unwritten(block', writer, i))
                 /\ Below(LastFile, Unwritten(block', writer, i))
      <4>1. Unwritten(block', writer, i) = Unwritten(block, writer, i)
        BY <2>4, <3>1
      <4>. QED
        BY <1>2, <3>1, <4>1 DEF SortedRuns
    <3>. QED
      BY <1>1, <1>10, <3>1
  <2>11. SortedRuns'
    BY <1>1, <1>10, <1>12, <2>9, <2>10 DEF SortedRuns
  <2>. QED
    BY <1>4, <1>7, <1>9, <2>4, <2>5, <2>6, <2>11, SortFrame DEF SortInv
<1>. QED
  BY <1>8, <1>11, <1>12

(* What a call of parallelSort returns to.                                 *)
LEMMA SwapIs ==
  ASSUME IInv, Swap, UNCHANGED dbVars
  PROVE  /\ main = "sort" /\ writer.state = "idle" /\ unsorted = {}
         /\ call.back \in {"expand", "positions", "same", "join"} /\ Stage = call.back
         /\ Stage' = Stage /\ SortType' = SortType /\ call.type = SortType
         /\ Filled = call.n /\ Filled' = 0 /\ fill = 0 /\ fill' = 0
         /\ main' # "sort" /\ (main' = "written" => call.last)
         /\ main' \in {"positions", "join"} => call.n = 0
         /\ main' \in {"written", "expand", "positions", "same", "join"}
         /\ call' = call /\ block' = block /\ active' = 1 - active /\ background' = active
<1>1. /\ main = "sort" /\ writer.state = "idle" /\ unsorted = {}
      /\ call' = call /\ block' = block /\ active' = 1 - active /\ background' = active
      /\ main' = IF call.last /\ call.n # 0 THEN "written" ELSE call.back
  BY DEF Swap, Joined
<1>2. /\ call.back \in {"expand", "positions", "same", "join"} /\ Stage = call.back
      /\ call.type = SortType /\ fill = 0
      /\ call.last <=> call.back \in {"positions", "join"}
  BY <1>1, CallIs DEF IInv, SortInv
<1>3. fill' = 0
  BY <1>2, SameDb
<1>4. /\ main' # "sort" /\ (main' = "written" => call.last)
      /\ main' \in {"positions", "join"} => call.n = 0
      /\ main' \in {"written", "expand", "positions", "same", "join"}
      /\ main' = "written" \/ main' = call.back
  BY <1>1, <1>2
<1>5. Stage' = Stage
  <2>1. CASE main' = "written"
    BY <1>1, <1>2, <2>1 DEF Stage
  <2>2. CASE main' = call.back
    <3>1. main' \notin {"sort", "written"}
      BY <1>2, <2>2
    <3>2. Stage' = main'
      BY <3>1 DEF Stage
    <3>. QED
      BY <1>2, <2>2, <3>2
  <2>. QED
    BY <1>4, <2>1, <2>2
<1>6. SortType' = SortType
  BY <1>5 DEF SortType
<1>7. Filled = call.n
  BY <1>1 DEF Filled
<1>8. Filled' = fill'
  BY <1>4 DEF Filled
<1>. QED
  BY <1>1, <1>2, <1>3, <1>4, <1>5, <1>6, <1>7, <1>8

(* The blocks change places, whatever there was to sort.                   *)
LEMMA SwapStarts ==
  ASSUME IInv, Swap, UNCHANGED dbVars
  PROVE  /\ call.n = 0 => writer' = writer /\ unsorted' = unsorted /\ files' = files
         /\ call.n # 0 =>
              /\ Starting(writer', call.type, call.n, active)
              /\ unsorted' = IF call.type = "moves" THEN Threads ELSE {}
              /\ files' = With(files, call.type, Append(files[call.type], <<>>))
<1>1. call.n = 0 => UNCHANGED <<unsorted, writer, files>>
  BY DEF Swap
<1>2. call.n # 0 =>
        /\ writer' = [Idle EXCEPT !.type = call.type, !.n = call.n, !.from = active,
                        !.state = IF call.type = "moves" THEN "sort" ELSE "write"]
        /\ unsorted' = IF call.type = "moves" THEN Threads ELSE {}
        /\ files' = [files EXCEPT ![call.type] = Append(@, <<>>)]
  BY DEF Swap
<1>3. [files EXCEPT ![call.type] = Append(@, <<>>)] = With(files, call.type, Append(files[call.type], <<>>))
  BY DEF With
<1>. QED
  BY <1>1, <1>2, <1>3 DEF Starting

(* The blocks of memory after it.                                          *)
LEMMA SwapBoxes ==
  ASSUME IInv, Swap, UNCHANGED dbVars
  PROVE  /\ SortOK(block', active', Filled', writer', files'[SortType'])
         /\ Contents(SortBox') = Contents(SortBox) /\ (Distinct(SortBox) => Distinct(SortBox'))
         /\ call.n # 0 => \A j \in Threads : Unwritten(block, writer', j) = RangeOf(block[active], call.n, j, 0)
<1>. DEFINE F == files[SortType]
            F2 == files'[SortType]
<1>1. SortTypes /\ WriterControl /\ DbTypes
  BY DEF IInv, SortInv, DbInv
<1>2. /\ main = "sort" /\ writer.state = "idle" /\ SortType' = SortType /\ call.type = SortType
      /\ Filled = call.n /\ Filled' = 0 /\ block' = block /\ active' = 1 - active
  BY SwapIs
<1>3. SortOK(block, active, call.n, writer, F)
  BY <1>1, <1>2, SortFacts DEF WriterControl
<1>4. SortBox = SortBoxes(block, active, call.n, writer, F)
  BY <1>2 DEF SortBox
<1>5. SortBox' = SortBoxes(block, 1 - active, 0, writer', F2)
  BY <1>2 DEF SortBox
<1>6. SortType \in Types /\ call.n \in 0..Slots /\ active \in {0, 1}
  BY <1>1, SortFacts
<1>7. CASE call.n = 0
  <2>1. writer' = writer /\ F2 = F
    BY <1>2, <1>7, SwapStarts
  <2>. HIDE DEF F, F2
  <2>2. SortOK(block, active, 0, writer, F)
    BY <1>3, <1>7
  <2>3. /\ SortOK(block, 1 - active, 0, writer, F)
        /\ SortBoxes(block, 1 - active, 0, writer, F) = SortBoxes(block, active, 0, writer, F)
    BY <1>2, <2>2, EmptySwapped
  <2>4. SortBox' = SortBox
    BY <1>4, <1>5, <1>7, <2>1, <2>3
  <2>5. SortOK(block', active', Filled', writer', F2)
    BY <1>2, <2>1, <2>3
  <2>. QED
    BY <1>2, <1>7, <2>4, <2>5 DEF F2
<1>8. CASE call.n # 0
  <2>1. Starting(writer', SortType, call.n, active)
    BY <1>2, <1>8, SwapStarts
  <2>2. F2 = Append(F, <<>>)
    <3>1. files' = With(files, SortType, Append(files[SortType], <<>>))
      BY <1>2, <1>8, SwapStarts
    <3>2. files \in [Types -> Seq(Seq(Items))]
      BY <1>1 DEF SortTypes
    <3>. QED
      BY <1>6, <3>1, <3>2 DEF With
  <2>. HIDE DEF F, F2
  <2>3. /\ SortOK(block, 1 - active, 0, writer', Append(F, <<>>))
        /\ Contents(SortBoxes(block, 1 - active, 0, writer', Append(F, <<>>))) =
             Contents(SortBoxes(block, active, call.n, writer, F))
        /\ Distinct(SortBoxes(block, active, call.n, writer, F)) =>
             Distinct(SortBoxes(block, 1 - active, 0, writer', Append(F, <<>>)))
        /\ \A j \in Threads : Unwritten(block, writer', j) = RangeOf(block[active], call.n, j, 0)
    BY <1>2, <1>3, <1>6, <1>8, <2>1, BlocksSwapped
  <2>4. SortOK(block', active', Filled', writer', F2)
    BY <1>2, <2>2, <2>3
  <2>. QED
    BY <1>2, <1>4, <1>5, <2>2, <2>3, <2>4 DEF F2
<1>. QED
  BY <1>7, <1>8

LEMMA SwapOK ==
  ASSUME IInv, Swap, UNCHANGED mergeVars, UNCHANGED dbVars
  PROVE  IInv'
<1>1. SortTypes /\ Control /\ WriterControl /\ SortedRuns /\ DbTypes
  BY DEF IInv, SortInv, DbInv
<1>2. /\ main = "sort" /\ writer.state = "idle" /\ unsorted = {}
      /\ call.back \in {"expand", "positions", "same", "join"} /\ Stage = call.back
      /\ Stage' = Stage /\ SortType' = SortType /\ call.type = SortType
      /\ fill = 0 /\ fill' = 0
      /\ main' # "sort" /\ (main' = "written" => call.last)
      /\ main' \in {"positions", "join"} => call.n = 0
      /\ main' \in {"written", "expand", "positions", "same", "join"}
      /\ call' = call /\ block' = block /\ active' = 1 - active /\ background' = active
  BY SwapIs
<1>3. /\ SortOK(block', active', Filled', writer', files'[SortType'])
      /\ Contents(SortBox') = Contents(SortBox) /\ (Distinct(SortBox) => Distinct(SortBox'))
      /\ call.n # 0 => \A j \in Threads : Unwritten(block, writer', j) = RangeOf(block[active], call.n, j, 0)
  BY SwapBoxes
<1>4. /\ SortType \in Types /\ call.n \in 0..Slots /\ active \in {0, 1} /\ 1 - active \in {0, 1}
      /\ files[SortType] \in Seq(Seq(Items)) /\ Len(files[SortType]) \in Nat
  BY <1>1, SortFacts
<1>5. /\ call.n = 0 => writer' = writer /\ unsorted' = unsorted /\ files' = files
      /\ call.n # 0 =>
           /\ Starting(writer', SortType, call.n, active)
           /\ unsorted' = IF SortType = "moves" THEN Threads ELSE {}
           /\ files' = With(files, SortType, Append(files[SortType], <<>>))
  BY <1>2, SwapStarts
<1>6. call.n # 0 =>
        /\ writer' \in WriterRec /\ WriterOK(writer') /\ writer'.n = call.n /\ writer'.from = active
        /\ writer'.type = SortType
        /\ writer'.state = IF SortType = "moves" THEN "sort" ELSE "write"
        /\ \A j \in Threads : writer'.used[j] = 0
  BY <1>4, <1>5, StartingIs
<1>. DEFINE G == Append(files[SortType], <<>>)
<1>7. G \in Seq(Seq(Items)) /\ Len(G) = Len(files[SortType]) + 1
      /\ (\A i \in 1..Len(files[SortType]) : G[i] = files[SortType][i]) /\ G[Len(files[SortType]) + 1] = <<>>
  <2>1. <<>> \in Seq(Items)
    OBVIOUS
  <2>. QED
    BY <1>4, <2>1, AppendIs
<1>8. G[Len(G)] = <<>> /\ Len(G) # 0 /\ Len(G) \in Nat
  BY <1>4, <1>7
<1>. HIDE DEF G
<1>9. call.n # 0 => /\ files' \in [Types -> Seq(Seq(Items))] /\ files'[SortType] = G
                    /\ \A t \in Types : t # SortType => files'[t] = files[t]
  BY <1>1, <1>4, <1>5, <1>7 DEF With, SortTypes, G
<1>10. SortTypes'
  <2>1. writer' \in WriterRec /\ files' \in [Types -> Seq(Seq(Items))] /\ unsorted' \subseteq Threads
    BY <1>1, <1>5, <1>6, <1>9 DEF SortTypes
  <2>2. main' \in Places
    BY <1>2 DEF Places
  <2>. QED
    BY <1>1, <1>2, <1>4, <2>1, <2>2 DEF SortTypes
<1>11. Control'
  <2>1. Calls'
    BY <1>1, <1>2 DEF Control, Calls
  <2>2. 0 + MaxMoves <= Slots /\ 0 < MoveSlots
    BY Assumptions
  <2>. QED
    BY <1>2, <2>1, <2>2 DEF Control, Writing, Over
<1>12. WriterControl'
  <2>1. main' \in {"create", "positions", "join", "moves"} \cup Writing \cup Over => writer'.state = "idle"
    BY <1>2, <1>5 DEF Writing, Over
  <2>2. WriterOK(writer')
    BY <1>3 DEF SortOK
  <2>3. writer'.state # "idle" => call.n # 0
    BY <1>2, <1>5
  <2>4. writer'.state # "idle" =>
          /\ writer'.from = 1 - active' /\ writer'.n # 0 /\ writer'.type = SortType'
          /\ Len(files'[writer'.type]) # 0
    BY <1>2, <1>4, <1>6, <1>8, <1>9, <2>3
  <2>5. writer'.state = "sort" =>
          /\ writer'.type = "moves" /\ background' = writer'.from
          /\ \A j \in Threads : writer'.used[j] = 0
          /\ files'[writer'.type][Len(files'[writer'.type])] = <<>>
    BY <1>2, <1>6, <1>8, <1>9, <2>3
  <2>6. writer'.state # "sort" => unsorted' = {}
    BY <1>2, <1>5, <1>6
  <2>7. /\ Stage \in BeforeMerge => files'["moves"] = <<>> /\ SortType = "positions"
        /\ Stage \notin BeforeMerge => files'["positions"] = <<>> /\ SortType = "moves"
    <3>1. /\ Stage \in BeforeMerge => files["moves"] = <<>> /\ SortType = "positions"
          /\ Stage \notin BeforeMerge => files["positions"] = <<>> /\ SortType = "moves"
      BY <1>1 DEF WriterControl, SortType, BeforeMerge
    <3>. QED
      BY <1>5, <1>9, <3>1 DEF Types
  <2>8. Stage \notin Writing \cup Over \cup {"create"}
    BY <1>2 DEF Writing, Over
  <2>. QED
    BY <1>2, <2>1, <2>2, <2>4, <2>5, <2>6, <2>7, <2>8 DEF WriterControl
<1>13. SortedRuns'
  <2>1. \A t \in Types : \A i \in 1..Len(files[t]) : Ascending(files[t][i])
    BY <1>1 DEF SortedRuns
  <2>2. Ascending(<<>>) /\ \A q : Below(<<>>, q)
    BY DEF Ascending, Below
  <2>3. ASSUME NEW t \in Types, NEW i \in 1..Len(files'[t]) PROVE Ascending(files'[t][i])
    <3>1. CASE call.n = 0 \/ t # SortType
      BY <1>5, <1>9, <2>1, <3>1
    <3>2. CASE call.n # 0 /\ t = SortType
      <4>1. files'[t] = G /\ i \in 1..Len(G)
        BY <1>9, <3>2
      <4>2. CASE i = Len(G)
        BY <1>8, <2>2, <4>1, <4>2
      <4>3. CASE i # Len(G)
        <5>1. i \in 1..Len(files[SortType])
          BY <1>4, <1>7, <4>1, <4>3
        <5>. QED
          BY <1>4, <1>7, <2>1, <4>1, <5>1
      <4>. QED
        BY <4>2, <4>3
    <3>. QED
      BY <3>1, <3>2
  <2>4. ASSUME writer'.state = "write", NEW j \in Threads
        PROVE  /\ Ascending(Unwritten(block', writer', j))
               /\ Below(LastFile', Unwritten(block', writer', j))
    <3>1. call.n # 0
      BY <1>2, <1>5, <2>4
    <3>2. writer'.type = SortType /\ SortType = "positions"
      BY <1>4, <1>6, <2>4, <3>1 DEF Types
    <3>3. LastFile' = <<>>
      BY <1>8, <1>9, <3>1, <3>2 DEF LastFile
    <3>4. Unwritten(block', writer', j) = RangeOf(block[active], call.n, j, 0)
      BY <1>2, <1>3, <3>1
    <3>5. Ascending(RangeOf(block[active], call.n, j, 0))
      BY <1>1, <1>2, <3>2 DEF SortedRuns
    <3>. QED
      BY <2>2, <3>3, <3>4, <3>5
  <2>5. writer'.state = "sort" => Threads \ unsorted' = {}
    BY <1>2, <1>5, <1>6
  <2>. QED
    BY <1>2, <2>3, <2>4, <2>5 DEF SortedRuns
<1>. QED
  BY <1>2, <1>3, <1>10, <1>11, <1>12, <1>13, SortFrame DEF SortInv

(* The entry that is written is the smallest that is left.                 *)
LEMMA WritesIs ==
  ASSUME IInv, WriteEntry
  PROVE  \E j \in Threads :
           /\ Writes(block, writer, files[writer.type], j, writer', files'[writer.type])
           /\ Smallest1(block, writer, j)
           /\ \A t \in Types : t # writer.type => files'[t] = files[t]
           /\ files' \in [Types -> Seq(Seq(Items))]
<1>. DEFINE n == writer.n
            Item(j) == block[writer.from][StartOf(n, j) + writer.used[j] + 1]
            left == {j \in Threads : writer.used[j] < Share(n, j)}
            Before(i, j) == Item(i).key < Item(j).key \/ (Item(i).key = Item(j).key /\ i <= j)
            low == CHOOSE j \in left : \A i \in left : Before(j, i)
            used == [writer.used EXCEPT ![low] = @ + 1]
            F == files[writer.type]
<1>1. /\ writer.state = "write"
      /\ files' = [files EXCEPT ![writer.type][Len(files[writer.type])] = Append(@, Item(low))]
      /\ writer' = IF \A j \in Threads : used[j] = Share(n, j)
                   THEN Idle ELSE [writer EXCEPT !.used = used]
  BY DEF WriteEntry
<1>2. /\ SortTypes /\ WriterControl /\ writer.type \in Types /\ writer \in WriterRec
      /\ files \in [Types -> Seq(Seq(Items))] /\ block \in [{0, 1} -> Memory]
      /\ WriterOK(writer) /\ Len(F) # 0
  BY <1>1 DEF IInv, SortInv, SortTypes, WriterRec, WriterControl
<1>3. /\ left \subseteq Nat /\ left # {} /\ left \subseteq Threads
  <2>1. Threads \subseteq Nat
    BY DEF Threads
  <2>2. \E j \in Threads : writer.used[j] < Share(writer.n, j)
    BY <1>1, <1>2 DEF WriterOK
  <2>. QED
    BY <2>1, <2>2
<1>4. ASSUME NEW j \in left PROVE Item(j) \in Items /\ Item(j).key \in Nat
  <2>. DEFINE k == StartOf(n, j) + writer.used[j] + 1
  <2>1. j \in Threads /\ writer.used[j] \in Nat /\ writer.used[j] < Share(n, j) /\ n \in 0..Slots /\ n \in Nat /\ Slots \in Nat
    BY <1>2, Assumptions DEF WriterRec
  <2>2. StartOf(n, j) \in Nat /\ Share(n, j) \in Nat /\ StartOf(n, j) + Share(n, j) <= n
    BY <2>1, ShareIs, RangeEnds
  <2>3. k \in 1..Slots
    BY <2>1, <2>2
  <2>4. block[writer.from] \in Memory
    BY <1>2 DEF WriterRec
  <2>. HIDE DEF k
  <2>5. block[writer.from][k] \in Items
    BY <2>3, <2>4, MemoryIs
  <2>. QED
    BY <2>5 DEF k, Items
<1>5. \E j \in left : \A i \in left : Before(j, i)
  <2>. DEFINE front == [j \in left |-> Item(j)]
              T == left
  <2>1. \A i \in T : front[i].key \in Nat /\ front[i] = Item(i)
    BY <1>4
  <2>2. T \subseteq Nat /\ T # {}
    BY <1>3
  <2>. HIDE DEF T, front
  <2>3. \E j \in T : \A i \in T : front[j].key < front[i].key \/ (front[j].key = front[i].key /\ j <= i)
    BY <2>1, <2>2, FirstSmallest
  <2>. HIDE DEF Item
  <2>4. \E j \in T : \A i \in T : Before(j, i)
    BY <2>1, <2>3
  <2>. QED
    BY <2>4 DEF T
<1>6. low \in left /\ \A i \in left : Before(low, i)
  <2>. HIDE DEF left, Before
  <2>. QED
    BY <1>5
<1>7. low \in Threads /\ writer.used[low] < Share(n, low)
  BY <1>6
<1>. HIDE DEF low
<1>8. \A j : Item(j) = NextItem(block, writer, j)
  BY DEF NextItem
<1>9. Smallest1(block, writer, low)
  <2>1. ASSUME NEW i \in Threads, writer.used[i] < Share(writer.n, i)
        PROVE  NextItem(block, writer, low).key <= NextItem(block, writer, i).key
    <3>1. i \in left /\ low \in left
      BY <1>6, <2>1
    <3>2. Before(low, i) /\ Item(low).key \in Nat /\ Item(i).key \in Nat
      BY <1>4, <1>6, <3>1
    <3>3. Item(low).key <= Item(i).key
      <4>. HIDE DEF Item
      <4>. QED
        BY <3>2
    <3>. QED
      BY <1>8, <3>3
  <2>. QED
    BY <1>7, <2>1 DEF Smallest1
<1>10. F \in Seq(Seq(Items)) /\ Len(F) \in Nat
  BY <1>2
<1>. DEFINE e == Item(low)
            G == [F EXCEPT ![Len(F)] = Append(@, e)]
<1>11. e \in Items
  BY <1>4, <1>6
<1>12. G \in Seq(Seq(Items))
  <2>1. Len(F) \in 1..Len(F)
    BY <1>2, <1>10
  <2>2. F[Len(F)] \in Seq(Items)
    BY <1>10, <2>1, ElementOfSeq
  <2>3. Append(F[Len(F)], e) \in Seq(Items)
    BY <1>11, <2>2, AppendIs
  <2>. HIDE DEF e, F
  <2>. QED
    BY <1>10, <2>1, <2>3
<1>13. files' = [files EXCEPT ![writer.type] = G]
  BY <1>1
<1>. HIDE DEF G
<1>14. /\ files'[writer.type] = G /\ files' \in [Types -> Seq(Seq(Items))]
       /\ \A t \in Types : t # writer.type => files'[t] = files[t]
  BY <1>2, <1>12, <1>13
<1>15. Writes(block, writer, F, low, writer', G)
  BY <1>1, <1>2, <1>7, <1>8 DEF Writes, G
<1>. QED
  BY <1>7, <1>9, <1>14, <1>15

LEMMA WriteEntryOK ==
  ASSUME IInv, WriteEntry, UNCHANGED mergeVars, UNCHANGED dbVars
  PROVE  IInv'
<1>. DEFINE F == files[SortType]
            F2 == files'[SortType]
<1>1. /\ writer.state = "write" /\ main' = main /\ call' = call /\ block' = block /\ active' = active
      /\ background' = background /\ unsorted' = unsorted
  BY DEF WriteEntry
<1>2. SortTypes /\ Control /\ WriterControl /\ SortedRuns /\ DbTypes
  BY DEF IInv, SortInv, DbInv
<1>3. /\ writer.type = SortType /\ writer.from = 1 - active /\ WriterOK(writer)
      /\ main \notin {"create", "positions", "join", "moves"} \cup Writing \cup Over
      /\ ~(main = "sort" /\ call.type = "positions") => unsorted = {}
  BY <1>1, <1>2 DEF WriterControl
<1>4. /\ SortType \in Types /\ \A t \in Types : files[t] \in Seq(Seq(Items)) /\ Len(files[t]) \in Nat
  BY <1>2, SortFacts
<1>5. SortOK(block, active, Filled, writer, F)
  BY <1>2, <1>3, SortFacts
<1>6. PICK j \in Threads :
        /\ Writes(block, writer, F, j, writer', F2) /\ Smallest1(block, writer, j)
        /\ \A t \in Types : t # SortType => files'[t] = files[t]
        /\ files' \in [Types -> Seq(Seq(Items))]
  BY <1>3, WritesIs
<1>7. Stage' = Stage
  BY <1>1 DEF Stage
<1>8. SortType' = SortType /\ Filled' = Filled
  BY <1>1, <1>7, SameDb DEF SortType, Filled
<1>9. SortBox = SortBoxes(block, active, Filled, writer, F) /\ SortBox' = SortBoxes(block, active, Filled, writer', F2)
  BY <1>1, <1>8 DEF SortBox
<1>. HIDE DEF F, F2
<1>10. /\ SortOK(block, active, Filled, writer', F2) /\ Len(F2) = Len(F)
       /\ Contents(SortBoxes(block, active, Filled, writer', F2)) = Contents(SortBoxes(block, active, Filled, writer, F))
       /\ Distinct(SortBoxes(block, active, Filled, writer, F)) =>
            Distinct(SortBoxes(block, active, Filled, writer', F2))
  BY <1>5, <1>6, EntryWritten
<1>11. Contents(SortBox') = Contents(SortBox) /\ (Distinct(SortBox) => Distinct(SortBox'))
  BY <1>9, <1>10
<1>12. /\ writer' \in WriterRec /\ WriterOK(writer') /\ F2 \in Seq(Seq(Items)) /\ F \in Seq(Seq(Items))
       /\ block \in [{0, 1} -> Memory] /\ writer \in WriterRec
  BY <1>5, <1>10 DEF SortOK
<1>13. /\ writer'.state \in {"idle", "write"}
       /\ writer'.state = "write" => writer' = [writer EXCEPT !.used = writer'.used]
  BY <1>3, <1>6, <1>12, WriterAfter
<1>14. writer'.state = "write" =>
         writer'.type = writer.type /\ writer'.n = writer.n /\ writer'.from = writer.from
  BY <1>12, <1>13 DEF WriterRec
<1>15. SortTypes'
  BY <1>1, <1>2, <1>6, <1>12 DEF SortTypes
<1>16. Control'
  BY <1>1, <1>2, SameDb DEF Control, Calls
<1>17. /\ Len(F) # 0 /\ F2 = [F EXCEPT ![Len(F)] = Append(@, NextItem(block, writer, j))]
  BY <1>6 DEF Writes
<1>18. WriterControl'
  <2>1. writer'.state # "sort"
    BY <1>13
  <2>2. writer'.state # "idle" =>
          /\ writer'.from = 1 - active /\ writer'.n # 0 /\ writer'.type = SortType
          /\ Len(files'[writer'.type]) # 0
    <3>1. Len(files'[SortType]) # 0
      BY <1>10, <1>17 DEF F2
    <3>2. writer.n # 0
      BY <1>1, <1>2 DEF WriterControl
    <3>. QED
      BY <1>3, <1>13, <1>14, <3>1, <3>2
  <2>3. /\ main = "sort" /\ call.type = "positions" => background = active
        /\ ~(main = "sort" /\ call.type = "positions") /\ writer.state # "sort" => unsorted = {}
    BY <1>2 DEF WriterControl
  <2>4. Stage \notin Writing \cup Over \cup {"create"}
    <3>1. CASE main \in {"sort", "written"}
      <4>1. Stage \in {"expand", "positions", "same", "join"}
        BY <1>2, <3>1, CallIs DEF IInv, SortInv
      <4>. QED
        BY <4>1 DEF Writing, Over
    <3>2. CASE main \notin {"sort", "written"}
      BY <1>3, <3>2 DEF Stage
    <3>. QED
      BY <3>1, <3>2
  <2>5. /\ Stage \in BeforeMerge => files'["moves"] = <<>>
        /\ Stage \notin BeforeMerge => files'["positions"] = <<>>
    <3>1. /\ Stage \in BeforeMerge => files["moves"] = <<>> /\ SortType = "positions"
          /\ Stage \notin BeforeMerge => files["positions"] = <<>> /\ SortType = "moves"
      BY <1>2 DEF WriterControl, SortType, BeforeMerge
    <3>. QED
      BY <1>6, <3>1 DEF Types
  <2>. QED
    BY <1>1, <1>3, <1>7, <1>8, <1>12, <2>1, <2>2, <2>3, <2>4, <2>5 DEF WriterControl
<1>19. SortedRuns'
  <2>. DEFINE d == Len(F)
  <2>1. \A t \in Types : \A i \in 1..Len(files[t]) : Ascending(files[t][i])
    BY <1>2 DEF SortedRuns
  <2>2. \A i \in Threads : /\ Ascending(Unwritten(block, writer, i))
                           /\ Below(F[d], Unwritten(block, writer, i))
    BY <1>1, <1>2, <1>3 DEF SortedRuns, LastFile, F
  <2>3. \A i \in Threads : Pending(block, writer, i) = Unwritten(block, writer, i)
    BY <1>1 DEF Pending
  <2>4. d \in 1..d /\ Len(F) = d
    <3>1. d \in Nat
      BY <1>12
    <3>. QED
      BY <1>17, <3>1
  <2>5. Ascending(F[d])
    BY <1>4, <2>1, <2>4 DEF F
  <2>6. RunsOK(block, writer, F[d])
    BY <2>2, <2>3, <2>5 DEF RunsOK
  <2>7. RunsOK(block, writer', F2[Len(F2)])
    BY <1>5, <1>6, <2>6, RunsStayOK
  <2>8. ASSUME NEW i \in 1..Len(F2) PROVE Ascending(F2[i])
    <3>1. CASE i = d
      BY <1>10, <2>7, <3>1 DEF RunsOK
    <3>2. CASE i # d
      <4>1. i \in 1..Len(F) /\ F2[i] = F[i]
        <5>1. i \in 1..Len(F)
          BY <1>10
        <5>2. DOMAIN F = 1..Len(F)
          BY <1>12
        <5>. DEFINE x == Append(F[Len(F)], NextItem(block, writer, j))
        <5>3. F2 = [F EXCEPT ![Len(F)] = x]
          BY <1>17
        <5>. HIDE DEF x
        <5>. QED
          BY <3>2, <5>1, <5>2, <5>3
      <4>. QED
        BY <1>4, <2>1, <4>1 DEF F
    <3>. QED
      BY <3>1, <3>2
  <2>9. ASSUME NEW t \in Types, NEW i \in 1..Len(files'[t]) PROVE Ascending(files'[t][i])
    BY <1>6, <2>1, <2>8 DEF F2
  <2>10. ASSUME writer'.state = "write", NEW i \in Threads
         PROVE  /\ Ascending(Unwritten(block', writer', i))
                /\ Below(LastFile', Unwritten(block', writer', i))
    <3>1. LastFile' = F2[Len(F2)]
      BY <1>3, <1>14, <2>10 DEF LastFile, F2
    <3>2. Pending(block, writer', i) = Unwritten(block, writer', i)
      BY <2>10 DEF Pending
    <3>. QED
      BY <1>1, <2>7, <3>1, <3>2 DEF RunsOK
  <2>11. main' = "sort" /\ call'.type = "positions" =>
           \A i \in Threads \ unsorted' : Ascending(RangeOf(block'[active'], call'.n, i, 0))
    BY <1>1, <1>2 DEF SortedRuns
  <2>12. writer'.state # "sort"
    BY <1>13
  <2>. QED
    BY <2>9, <2>10, <2>11, <2>12 DEF SortedRuns
<1>. QED
  BY <1>7, <1>11, <1>15, <1>16, <1>18, <1>19, SortFrame DEF SortInv

-----------------------------------------------------------------------------
(* The steps of the merge.                                                 *)
LEMMA GoodIs ==
  ASSUME MergeInv, Merging
  PROVE  /\ MergeGood(streams, queue, held, finished, merging) /\ merging \in Types
         /\ Len(streams) \in Nat /\ DOMAIN streams = 1..Len(streams) /\ DOMAIN held = 1..Len(streams)
         /\ Ordered(MergeBox)
<1>1. /\ merging \in Types /\ streams \in Seq(ThreadRec) /\ Len(streams) <= MaxStreams
      /\ queue \in [1..Len(streams) -> Seq(Seq(Items))]
      /\ held \in [1..Len(streams) -> Seq(Items)]
      /\ finished \in [1..Len(streams) -> BOOLEAN]
  BY DEF MergeInv, MergeTypes
<1>2. Ordered(MergeBox) /\ \A s \in 1..Len(streams) : StreamOK(s)
  BY DEF MergeInv, Streams
<1>3. \A s \in 1..Len(streams) : ThreadOK(streams[s], queue[s], held[s], finished[s], merging)
  BY <1>2 DEF StreamOK
<1>4. \A s \in 1..Len(streams) : ReadersOK(streams[s])
  BY <1>3 DEF ThreadOK, ReadersOK
<1>5. MergeOK(streams, queue, held)
  BY <1>1, <1>4 DEF MergeOK
<1>6. \A s \in 1..Len(streams) : MsgFits(streams[s]) /\ Len(queue[s]) <= QueueSize
  BY DEF MergeInv, Limits, MsgFits
<1>7. MergeGood(streams, queue, held, finished, merging)
  BY <1>1, <1>2, <1>3, <1>5, <1>6 DEF MergeGood, MergeBox
<1>8. /\ Len(streams) \in Nat /\ DOMAIN streams = 1..Len(streams) /\ DOMAIN held = 1..Len(streams)
  BY <1>1
<1>. QED
  BY <1>1, <1>2, <1>7, <1>8

LEMMA GoodGives ==
  ASSUME MergeGood(streams', queue', held', finished', merging'), merging' \in Types
  PROVE  /\ MergeTypes' /\ Limits' /\ Ordered(MergeBox')
         /\ \A s \in 1..Len(streams') : StreamOK(s)'
<1>1. MergeOK(streams', queue', held')
  BY DEF MergeGood
<1>2. MergeTypes'
  BY <1>1 DEF MergeTypes, MergeGood, MergeOK
<1>3. Limits'
  BY DEF Limits, MergeGood, MsgFits
<1>4. Ordered(MergeBox')
  BY DEF MergeGood, MergeBox
<1>5. \A s \in 1..Len(streams') : StreamOK(s)'
  BY DEF MergeGood, StreamOK
<1>. QED
  BY <1>2, <1>3, <1>4, <1>5

LEMMA SortStays ==
  ASSUME SortInv, UNCHANGED <<main, sortVars>>, fill' = fill
  PROVE  /\ SortInv' /\ Stage' = Stage /\ SortBox' = SortBox
<1>1. /\ main' = main /\ call' = call /\ block' = block /\ active' = active /\ background' = background
      /\ unsorted' = unsorted /\ writer' = writer /\ files' = files
  BY DEF sortVars
<1>2. Stage' = Stage
  BY <1>1 DEF Stage
<1>3. SortType' = SortType /\ Filled' = Filled
  BY <1>1, <1>2 DEF SortType, Filled
<1>4. SortBox' = SortBox
  BY <1>1, <1>3 DEF SortBox
<1>5. SortTypes'
  BY <1>1 DEF SortInv, SortTypes
<1>6. Control'
  BY <1>1 DEF SortInv, Control, Calls
<1>7. WriterControl'
  BY <1>1, <1>2, <1>3 DEF SortInv, WriterControl
<1>8. LastFile' = LastFile
  BY <1>1 DEF LastFile
<1>9. SortedRuns'
  BY <1>1, <1>8 DEF SortInv, SortedRuns
<1>. QED
  BY <1>2, <1>4, <1>5, <1>6, <1>7, <1>9 DEF SortInv

LEMMA MergeFrame ==
  ASSUME IInv, UNCHANGED <<main, sortVars>>, UNCHANGED dbVars, Merging, merging' = merging,
         MergeGood(streams', queue', held', finished', merging), Len(streams') = Len(streams),
         BoxesFollow(MergeBox, MergeBox')
  PROVE  IInv'
<1>1. merging \in Types
  BY GoodIs DEF IInv
<1>2. SortInv' /\ Stage' = Stage /\ SortBox' = SortBox
  BY SameDb, SortStays DEF IInv
<1>3. DbInv'
  BY <1>2, Frame DEF IInv
<1>4. /\ MergeTypes' /\ Limits' /\ Ordered(MergeBox')
      /\ \A s \in 1..Len(streams') : StreamOK(s)'
  BY <1>1, GoodGives
<1>5. Streams'
  BY <1>2, <1>4, SameDb DEF IInv, MergeInv, Streams, Merging
<1>. QED
  BY <1>2, <1>3, <1>4, <1>5 DEF IInv, MergeInv

(* A move of a ply is of one position, so it leads to one.                 *)
LEMMA LeadsOnce ==
  ASSUME NEW P \in Seq(PlyEntry), NEW n \in Nat, n <= Len(P), NEW b, NumberedIn(P, n, b),
         NEW m \in Nat, NEW x, NEW y, Leads(P, n, m, x), Leads(P, n, m, y)
  PROVE  x = y
<1>1. PICK i \in 1..n : /\ P[i].first <= m /\ m < P[i].first + P[i].moves
                        /\ x = Moves[P[i].pos][m - P[i].first + 1]
  BY DEF Leads
<1>2. PICK j \in 1..n : /\ P[j].first <= m /\ m < P[j].first + P[j].moves
                        /\ y = Moves[P[j].pos][m - P[j].first + 1]
  BY DEF Leads
<1>3. /\ P[i].first \in Nat /\ P[i].moves \in Nat /\ P[j].first \in Nat /\ P[j].moves \in Nat
  <2>1. Len(P) \in Nat /\ i \in 1..Len(P) /\ j \in 1..Len(P)
    OBVIOUS
  <2>2. P[i] \in PlyEntry /\ P[j] \in PlyEntry
    BY <2>1, ElementOfSeq
  <2>3. \A e \in PlyEntry : e.first \in Nat /\ e.moves \in 0..MaxMoves
    BY DEF PlyEntry
  <2>4. 0..MaxMoves \subseteq Nat
    BY Assumptions
  <2>. QED
    BY <2>2, <2>3, <2>4
<1>4. i = j
  <2>1. ~(i < j)
    <3>1. i < j => P[i].first + P[i].moves <= P[j].first
      BY DEF NumberedIn
    <3>. QED
      BY <1>1, <1>2, <1>3, <3>1
  <2>2. ~(j < i)
    <3>1. j < i => P[j].first + P[j].moves <= P[i].first
      BY DEF NumberedIn
    <3>. QED
      BY <1>1, <1>2, <1>3, <3>1
  <2>. QED
    BY <2>1, <2>2
<1>. QED
  BY <1>1, <1>2, <1>4

(* No move is there twice in the merge of moves.                           *)
LEMMA IndexedOnce ==
  ASSUME DbTypes, Plies, Numbered, Found, Stage \in Finding \cup {"moves"} \cup Writing,
         NEW d \in Items, NEW e \in Items, Indexed(d), Indexed(e), d.key = e.key
  PROVE  d = e
<1>1. /\ Len(positions) = ply + 2 /\ at = Len(Here)
      /\ \A i, j \in 1..Len(Following) : i < j => Following[i].pos < Following[j].pos
  <2>1. Len(positions) = ply + 2
    BY DEF Plies
  <2>2. Stage \notin Over \cup {"create"} /\ Stage # "expand"
    BY DEF Finding, Writing, Over
  <2>3. at = Len(Here)
    BY <2>2 DEF Plies
  <2>4. \A i, j \in 1..Len(Following) : i < j => Following[i].pos < Following[j].pos
    BY DEF Found
  <2>. QED
    BY <2>1, <2>3, <2>4
<1>2. ply \in Nat /\ at \in Nat /\ positions \in Seq(Seq(PlyEntry))
  BY Assumptions DEF DbTypes
<1>3. Here \in Seq(PlyEntry) /\ Following \in Seq(PlyEntry)
  <2>1. ply + 1 \in 1..Len(positions) /\ ply + 2 \in 1..Len(positions)
    BY <1>1, <1>2
  <2>. QED
    BY <1>2, <2>1, ElementOfSeq DEF Here, Following
<1>4. d.key \in Nat /\ d.val \in Nat /\ e.key \in Nat /\ e.val \in Nat
      /\ d = [key |-> d.key, val |-> d.val] /\ e = [key |-> e.key, val |-> e.val]
  BY DEF Items
<1>5. /\ d.val + 1 \in 1..Len(Following) /\ Leads(Here, at, d.key, Following[d.val + 1].pos)
      /\ e.val + 1 \in 1..Len(Following) /\ Leads(Here, at, e.key, Following[e.val + 1].pos)
  BY DEF Indexed
<1>. DEFINE x == Following[d.val + 1].pos
            y == Following[e.val + 1].pos
<1>6. x \in Nat /\ y \in Nat
  <2>1. Following[d.val + 1] \in PlyEntry /\ Following[e.val + 1] \in PlyEntry
    BY <1>3, <1>5, ElementOfSeq
  <2>2. DOMAIN Moves \subseteq Nat
    BY Assumptions
  <2>. QED
    BY <2>1, <2>2 DEF PlyEntry
<1>7. x = y
  <2>1. NumberedIn(Here, at, boards)
    BY DEF Numbered
  <2>2. at <= Len(Here)
    BY <1>1, <1>2
  <2>. HIDE DEF x, y
  <2>3. Leads(Here, at, d.key, x) /\ Leads(Here, at, d.key, y)
    BY <1>5 DEF x, y
  <2>. QED
    BY <1>2, <1>3, <1>4, <2>1, <2>2, <2>3, LeadsOnce
<1>8. ~(d.val < e.val) /\ ~(e.val < d.val)
  <2>1. d.val < e.val => d.val + 1 < e.val + 1
    BY <1>4
  <2>2. e.val < d.val => e.val + 1 < d.val + 1
    BY <1>4
  <2>3. d.val < e.val => x < y
    BY <1>1, <1>5, <2>1
  <2>4. e.val < d.val => y < x
    BY <1>1, <1>5, <2>2
  <2>. QED
    BY <1>6, <1>7, <2>3, <2>4
<1>. QED
  BY <1>4, <1>8

LEMMA MovesOnce ==
  ASSUME MergeInv, DbInv, Stage \in Writing
  PROVE  KeysOnce(MergeBox)
<1>1. Merging
  BY DEF Merging
<1>2. Grid(MergeBox)
  <2>1. MergeOK(streams, queue, held)
    BY <1>1, GoodIs DEF MergeGood
  <2>. QED
    BY <2>1, MergeGrid DEF MergeBox
<1>3. /\ KeptWriting /\ DbTypes /\ Plies /\ Numbered /\ Found
  BY DEF DbInv, Kept
<1>4. ASSUME NEW c \in DOMAIN MergeBox, NEW d \in DOMAIN MergeBox,
             NEW k \in 1..Len(MergeBox[c]), NEW l \in 1..Len(MergeBox[d]),
             MergeBox[c][k].key = MergeBox[d][l].key
      PROVE  c = d /\ k = l
  <2>1. MergeBox[c] \in Seq(Items) /\ MergeBox[d] \in Seq(Items)
    BY <1>2 DEF Grid
  <2>2. MergeBox[c][k] \in Items /\ MergeBox[d][l] \in Items
    BY <2>1, ElementOfSeq
  <2>3. MergeBox[c][k] \in Contents(MergeBox) /\ MergeBox[d][l] \in Contents(MergeBox)
    BY InContents
  <2>4. Indexed(MergeBox[c][k]) /\ Indexed(MergeBox[d][l])
    BY <1>3, <2>2, <2>3 DEF KeptWriting
  <2>5. MergeBox[c][k] = MergeBox[d][l]
    BY <1>3, <1>4, <2>2, <2>4, IndexedOnce
  <2>6. Distinct(MergeBox)
    BY <1>3 DEF KeptWriting
  <2>. QED
    BY <2>5, <2>6, SamePlace
<1>. QED
  BY <1>4 DEF KeysOnce

LEMMA StreamStepOK ==
  ASSUME IInv, NEW s, Stream(s)
  PROVE  IInv'
<1>1. /\ s \in DOMAIN streams /\ UNCHANGED <<main, sortVars>> /\ UNCHANGED dbVars
      /\ Pick(s) \/ Same(s) \/ Send(s)
  BY DEF Stream
<1>2. streams \in Seq(ThreadRec)
  BY DEF IInv, MergeInv, MergeTypes
<1>3. s \in 1..Len(streams)
  BY <1>1, <1>2
<1>4. Merging
  <2>1. streams[s].at # "done"
    BY <1>1 DEF Pick, Same, Send
  <2>. QED
    BY <1>3, <2>1 DEF IInv, MergeInv, Streams
<1>5. MergeGood(streams, queue, held, finished, merging) /\ merging \in Types
  BY <1>4, GoodIs DEF IInv
<1>6. merging = "moves" => KeysOnce(MergeBox)
  <2>1. merging = "moves" => Stage \in Writing
    BY <1>4 DEF IInv, MergeInv, Streams, Merging
  <2>. QED
    BY <2>1, MovesOnce DEF IInv
<1>7. \A t : Len(With(streams, s, t)) = Len(streams)
  BY <1>2 DEF With
<1>8. CASE Pick(s)
  <2>1. /\ streams' = With(streams, s, PickedThread(streams[s])) /\ streams[s].at = "pick"
        /\ merging' = merging /\ queue' = queue /\ held' = held /\ finished' = finished
    BY <1>8 DEF Pick, PickedThread, With
  <2>2. merging = "moves" => KeysOnce(MergeBoxes(streams, queue, held))
    BY <1>6 DEF MergeBox
  <2>3. /\ MergeGood(streams', queue, held, finished, merging)
        /\ BoxesFollow(MergeBoxes(streams, queue, held), MergeBoxes(streams', queue, held))
    BY <1>3, <1>5, <2>1, <2>2, PickGood
  <2>4. BoxesFollow(MergeBox, MergeBox')
    BY <2>1, <2>3 DEF MergeBox
  <2>. QED
    BY <1>1, <1>4, <1>7, <2>1, <2>3, <2>4, MergeFrame
<1>9. CASE Same(s)
  <2>1. /\ streams' = With(streams, s, SameThread(streams[s], FollowsIn(merging, streams[s])))
        /\ streams[s].at = "same"
        /\ merging' = merging /\ queue' = queue /\ held' = held /\ finished' = finished
    BY <1>9 DEF Same, SameThread, FollowsIn, Follows, With
  <2>2. /\ MergeGood(streams', queue, held, finished, merging)
        /\ BoxesFollow(MergeBoxes(streams, queue, held), MergeBoxes(streams', queue, held))
    BY <1>3, <1>5, <2>1, SameGood
  <2>3. BoxesFollow(MergeBox, MergeBox')
    BY <2>1, <2>2 DEF MergeBox
  <2>. QED
    BY <1>1, <1>4, <1>7, <2>1, <2>2, <2>3, MergeFrame
<1>10. CASE Send(s)
  <2>1. /\ streams' = With(streams, s, SentThread(streams[s]))
        /\ queue' = With(queue, s, Append(queue[s], streams[s].msg))
        /\ streams[s].at = "send" /\ Len(queue[s]) < QueueSize
        /\ merging' = merging /\ held' = held /\ finished' = finished
    BY <1>10 DEF Send, SentThread, With
  <2>2. /\ MergeGood(streams', queue', held, finished, merging)
        /\ BoxesFollow(MergeBoxes(streams, queue, held), MergeBoxes(streams', queue', held))
    BY <1>3, <1>5, <2>1, SendGood
  <2>3. BoxesFollow(MergeBox, MergeBox')
    BY <2>1, <2>2 DEF MergeBox
  <2>. QED
    BY <1>1, <1>4, <1>7, <2>1, <2>2, <2>3, MergeFrame
<1>. QED
  BY <1>1, <1>8, <1>9, <1>10

LEMMA LookOK ==
  ASSUME IInv, NEW s \in DOMAIN held, Look(s)
  PROVE  IInv'
<1>1. /\ UNCHANGED <<main, sortVars>> /\ UNCHANGED dbVars /\ Receive(s) /\ Looks(s)
  BY DEF Look
<1>2. Merging
  <2>1. main \in {"unique", "move", "same", "next"}
    BY <1>1 DEF Looks
  <2>. QED
    BY <2>1 DEF Stage, Merging, Finding, Writing
<1>3. /\ MergeGood(streams, queue, held, finished, merging) /\ DOMAIN held = 1..Len(streams)
  BY <1>2, GoodIs DEF IInv
<1>4. s \in 1..Len(streams)
  BY <1>3
<1>5. /\ held[s] = <<>> /\ queue[s] # <<>>
      /\ queue' = With(queue, s, Tail(queue[s])) /\ held' = With(held, s, Head(queue[s]))
      /\ finished' = With(finished, s, Head(queue[s]) = <<>>)
      /\ merging' = merging /\ streams' = streams
  BY <1>1 DEF Receive, Known, With
<1>6. /\ MergeGood(streams, queue', held', finished', merging)
      /\ BoxesFollow(MergeBoxes(streams, queue, held), MergeBoxes(streams, queue', held'))
  BY <1>3, <1>4, <1>5, ReceiveGood
<1>7. BoxesFollow(MergeBox, MergeBox')
  BY <1>5, <1>6 DEF MergeBox
<1>. QED
  BY <1>1, <1>2, <1>5, <1>6, <1>7, MergeFrame

-----------------------------------------------------------------------------
(* The database thread stores entries, and calls parallelSort.             *)
Backs == {"expand", "positions", "same", "join"}
BackOf(t, back) == t \in Types /\ back \in Backs /\ (t = "positions" <=> back \in {"expand", "positions"})
Keeps(b, b2) == writer.state # "idle" => \A j \in Threads : Unwritten(b2, writer, j) = Unwritten(b, writer, j)

(* Where entries are stored, and what is known there.                      *)
LEMMA StoringIs ==
  ASSUME SortInv, main \in {"expand", "unique", "same"}
  PROVE  /\ Stage = main /\ SortType = IF main = "expand" THEN "positions" ELSE "moves"
         /\ Filled = fill /\ WritesOther(writer, active)
         /\ writer.state # "sort" => unsorted = {}
         /\ writer.state # "idle" => writer.type = SortType
         /\ main = "expand" => files["moves"] = <<>>
         /\ main # "expand" => files["positions"] = <<>>
         /\ main = "expand" => fill + MaxMoves <= Slots
         /\ main # "expand" => fill < MoveSlots
<1>1. WriterControl /\ Control
  BY DEF SortInv
<1>2. Stage = main /\ SortType = IF main = "expand" THEN "positions" ELSE "moves"
  BY DEF Stage, SortType
<1>3. Filled = fill
  BY DEF Filled
<1>4. WritesOther(writer, active)
  BY <1>1 DEF WriterControl, WritesOther
<1>5. /\ writer.state # "sort" => unsorted = {}
      /\ writer.state # "idle" => writer.type = SortType
  BY <1>1 DEF WriterControl
<1>6. /\ main = "expand" => files["moves"] = <<>>
      /\ main # "expand" => files["positions"] = <<>>
  BY <1>1, <1>2 DEF WriterControl, BeforeMerge
<1>7. /\ main = "expand" => fill + MaxMoves <= Slots
      /\ main # "expand" => fill < MoveSlots
  BY <1>1 DEF Control
<1>. QED
  BY <1>2, <1>3, <1>4, <1>5, <1>6, <1>7

LEMMA CallOK ==
  ASSUME SortInv, main \in {"expand", "unique", "same"},
         NEW n \in 0..Slots, NEW last \in BOOLEAN, NEW back, BackOf(SortType, back),
         last <=> back \in {"positions", "join"}, last \/ n # 0,
         CallSort(SortType, n, last, back), fill' = 0,
         block' \in [{0, 1} -> Memory], Keeps(block, block')
  PROVE  /\ SortInv' /\ Stage' = back /\ SortType' = SortType /\ Filled' = n
         /\ writer' = writer /\ files' = files /\ active' = active
<1>1. /\ main' = "sort" /\ call' = [type |-> SortType, n |-> n, last |-> last, back |-> back]
      /\ active' = active /\ writer' = writer /\ files' = files
  BY DEF CallSort
<1>2. /\ SortType = "positions" => background' = active /\ unsorted' = Threads
      /\ SortType = "moves" => background' = background /\ unsorted' = unsorted
  BY DEF CallSort
<1>3. call'.type = SortType /\ call'.n = n /\ call'.last = last /\ call'.back = back
  BY <1>1
<1>4. /\ SortType \in Types /\ back \in Backs /\ (SortType = "positions" <=> back \in {"expand", "positions"})
  BY DEF BackOf
<1>5. Stage' = back
  BY <1>1, <1>3 DEF Stage
<1>6. SortType' = SortType
  BY <1>4, <1>5 DEF SortType, Backs, Types
<1>7. Filled' = n
  BY <1>1, <1>3 DEF Filled
<1>8. SortTypes /\ Control /\ WriterControl /\ SortedRuns
  BY DEF SortInv
<1>9. /\ Stage = main /\ SortType = IF main = "expand" THEN "positions" ELSE "moves"
      /\ writer.state # "sort" => unsorted = {}
      /\ main = "expand" => files["moves"] = <<>>
      /\ main # "expand" => files["positions"] = <<>>
  BY StoringIs
<1>10. SortTypes'
  <2>1. call' \in CallRec
    <3>1. back \in Places
      BY <1>4 DEF Backs, Places
    <3>. QED
      BY <1>1, <1>4, <3>1 DEF CallRec
  <2>2. background' \in {0, 1} /\ unsorted' \subseteq Threads
    BY <1>2, <1>4, <1>8 DEF SortTypes, Types
  <2>3. main' \in Places
    BY <1>1 DEF Places
  <2>. QED
    BY <1>1, <1>8, <2>1, <2>2, <2>3 DEF SortTypes
<1>11. Control'
  <2>1. Calls'
    BY <1>3, <1>4 DEF Calls, Backs, Types
  <2>. QED
    BY <1>1, <2>1 DEF Control, Writing, Over
<1>12. WriterControl'
  <2>1. main' \notin {"create", "positions", "join", "moves"} \cup Writing \cup Over
    BY <1>1 DEF Writing, Over
  <2>2. /\ WriterOK(writer)
        /\ writer.state # "idle" => /\ writer.from = 1 - active /\ writer.n # 0 /\ writer.type = SortType
                                    /\ Len(files[writer.type]) # 0
        /\ writer.state = "sort" =>
             /\ writer.type = "moves" /\ background = writer.from
             /\ \A j \in Threads : writer.used[j] = 0
             /\ files[writer.type][Len(files[writer.type])] = <<>>
    BY <1>8 DEF WriterControl
  <2>3. writer.state = "sort" => background' = writer.from
    BY <1>2, <2>2
  <2>4. call'.type = "positions" => background' = active'
    BY <1>1, <1>2, <1>3
  <2>5. ~(main' = "sort" /\ call'.type = "positions") /\ writer.state # "sort" => unsorted' = {}
    BY <1>1, <1>2, <1>3, <1>4, <1>9 DEF Types
  <2>6. Stage' \notin Writing \cup Over \cup {"create"}
    BY <1>4, <1>5 DEF Backs, Writing, Over
  <2>7. /\ Stage' \in BeforeMerge => files["moves"] = <<>>
        /\ Stage' \notin BeforeMerge => files["positions"] = <<>>
    BY <1>4, <1>5, <1>9 DEF Backs, BeforeMerge
  <2>. QED
    BY <1>1, <1>6, <2>1, <2>2, <2>3, <2>4, <2>5, <2>6, <2>7 DEF WriterControl
<1>13. SortedRuns'
  <2>1. LastFile' = LastFile
    BY <1>1 DEF LastFile
  <2>2. \A t \in Types : \A i \in 1..Len(files[t]) : Ascending(files[t][i])
    BY <1>8 DEF SortedRuns
  <2>3. writer.state # "idle" => \A j \in Threads : Unwritten(block', writer, j) = Unwritten(block, writer, j)
    BY DEF Keeps
  <2>4. writer.state = "write" => \A j \in Threads :
          /\ Ascending(Unwritten(block', writer, j))
          /\ Below(LastFile, Unwritten(block', writer, j))
    BY <1>8, <2>3 DEF SortedRuns
  <2>5. writer.state = "sort" => SortType = "moves"
    BY <1>8 DEF WriterControl
  <2>6. writer.state = "sort" => \A j \in Threads \ unsorted' : Ascending(Unwritten(block', writer, j))
    BY <1>2, <1>8, <2>3, <2>5 DEF SortedRuns
  <2>7. call'.type = "positions" => Threads \ unsorted' = {}
    BY <1>2, <1>3
  <2>. QED
    BY <1>1, <2>1, <2>2, <2>4, <2>6, <2>7 DEF SortedRuns
<1>. QED
  BY <1>1, <1>5, <1>6, <1>7, <1>10, <1>11, <1>12, <1>13 DEF SortInv

(* Or goes on.                                                             *)
LEMMA GoesOn ==
  ASSUME SortInv, main \in {"expand", "unique", "same"},
         main' \in {"expand", "unique", "same"}, main = "expand" <=> main' = "expand",
         UNCHANGED <<call, active, background, unsorted, writer, files>>,
         fill' \in Nat, main' = "expand" => fill' + MaxMoves <= Slots,
         main' # "expand" => fill' < MoveSlots,
         block' \in [{0, 1} -> Memory], Keeps(block, block')
  PROVE  /\ SortInv' /\ Stage' = main' /\ SortType' = SortType /\ Filled' = fill'
<1>1. /\ call' = call /\ active' = active /\ background' = background /\ unsorted' = unsorted
      /\ writer' = writer /\ files' = files
  OBVIOUS
<1>2. Stage' = main' /\ Filled' = fill'
  BY DEF Stage, Filled
<1>3. /\ Stage = main /\ SortType = IF main = "expand" THEN "positions" ELSE "moves"
      /\ writer.state # "sort" => unsorted = {}
      /\ main = "expand" => files["moves"] = <<>>
      /\ main # "expand" => files["positions"] = <<>>
  BY StoringIs
<1>4. SortType' = SortType
  BY <1>2, <1>3 DEF SortType
<1>5. SortTypes /\ Control /\ WriterControl /\ SortedRuns
  BY DEF SortInv
<1>6. SortTypes'
  BY <1>1, <1>5 DEF SortTypes, Places
<1>7. Control'
  BY DEF Control, Writing, Over
<1>8. WriterControl'
  <2>1. main' \notin {"create", "positions", "join", "moves", "sort"} \cup Writing \cup Over
    BY DEF Writing, Over
  <2>2. /\ WriterOK(writer)
        /\ writer.state # "idle" => /\ writer.from = 1 - active /\ writer.n # 0 /\ writer.type = SortType
                                    /\ Len(files[writer.type]) # 0
        /\ writer.state = "sort" =>
             /\ writer.type = "moves" /\ background = writer.from
             /\ \A j \in Threads : writer.used[j] = 0
             /\ files[writer.type][Len(files[writer.type])] = <<>>
    BY <1>5 DEF WriterControl
  <2>3. Stage' \notin Writing \cup Over \cup {"create"}
    BY <1>2 DEF Writing, Over
  <2>4. /\ Stage' \in BeforeMerge => files["moves"] = <<>>
        /\ Stage' \notin BeforeMerge => files["positions"] = <<>>
    BY <1>2, <1>3 DEF BeforeMerge
  <2>. QED
    BY <1>1, <1>3, <1>4, <2>1, <2>2, <2>3, <2>4 DEF WriterControl
<1>9. SortedRuns'
  <2>1. LastFile' = LastFile
    BY <1>1 DEF LastFile
  <2>2. \A t \in Types : \A i \in 1..Len(files[t]) : Ascending(files[t][i])
    BY <1>5 DEF SortedRuns
  <2>3. writer.state # "idle" => \A j \in Threads : Unwritten(block', writer, j) = Unwritten(block, writer, j)
    BY DEF Keeps
  <2>4. writer.state = "write" => \A j \in Threads :
          /\ Ascending(Unwritten(block', writer, j))
          /\ Below(LastFile, Unwritten(block', writer, j))
    BY <1>5, <2>3 DEF SortedRuns
  <2>5. writer.state = "sort" => \A j \in Threads \ unsorted : Ascending(Unwritten(block', writer, j))
    BY <1>5, <2>3 DEF SortedRuns
  <2>. QED
    BY <1>1, <2>1, <2>2, <2>4, <2>5 DEF SortedRuns
<1>. QED
  BY <1>2, <1>4, <1>6, <1>7, <1>8, <1>9 DEF SortInv

Stores(es, full, back) ==
  /\ Stored(fill, es)
  /\ IF full
     THEN CallSort(SortType, fill + Len(es), FALSE, back) /\ fill' = 0
     ELSE /\ main' = back /\ fill' = fill + Len(es)
          /\ UNCHANGED <<call, active, background, unsorted, writer, files>>

LEMMA StoresOK ==
  ASSUME SortInv, DbTypes, main \in {"expand", "unique", "same"},
         NEW es \in Seq(Items), fill + Len(es) <= Slots, NEW full \in BOOLEAN,
         NEW back, back = IF main = "expand" THEN "expand" ELSE "same",
         Stores(es, full, back), full => fill + Len(es) # 0,
         ~full => IF main = "expand" THEN fill + Len(es) + MaxMoves <= Slots
                  ELSE fill + Len(es) < MoveSlots
  PROVE  SortInv' /\ Stage' = back /\ AddsNew(SortBox, SortBox', es)
<1>. DEFINE n == fill + Len(es)
            F == files[SortType]
<1>1. /\ Stage = main /\ SortType = IF main = "expand" THEN "positions" ELSE "moves"
      /\ Filled = fill /\ WritesOther(writer, active)
  BY StoringIs
<1>2. fill \in Nat /\ Len(es) \in Nat /\ Slots \in Nat
  BY Assumptions DEF DbTypes
<1>3. n \in 0..Slots /\ n \in Nat /\ n = fill + Len(es) /\ n <= Slots
  BY <1>2
<1>4. block' = Put(block, active, StoresIn(block[active], fill, es))
  BY DEF Stores, Stored, Put, StoresIn
<1>5. SortOK(block, active, fill, writer, F)
  BY <1>1, SortFacts DEF SortInv, WriterControl
<1>. HIDE DEF n, F
<1>6. AfterStore(block, block', active, fill, n, writer, F, es)
  BY <1>1, <1>3, <1>4, <1>5, EntriesStored
<1>7. /\ block' \in [{0, 1} -> Memory] /\ Keeps(block, block')
      /\ AddsNew(SortBoxes(block, active, fill, writer, F), SortBoxes(block', active, n, writer, F), es)
  BY <1>6 DEF AfterStore, SortOK, Keeps
<1>8. BackOf(SortType, back) /\ ~(back \in {"positions", "join"})
  BY <1>1 DEF BackOf, Types, Backs
<1>9. SortBox = SortBoxes(block, active, fill, writer, F)
  BY <1>1 DEF SortBox, F
<1>10. CASE full
  <2>1. CallSort(SortType, n, FALSE, back) /\ fill' = 0
    BY <1>10 DEF Stores, n
  <2>2. n # 0
    BY <1>10 DEF n
  <2>3. /\ SortInv' /\ Stage' = back /\ SortType' = SortType /\ Filled' = n
        /\ writer' = writer /\ files' = files /\ active' = active
    BY <1>3, <1>7, <1>8, <2>1, <2>2, CallOK
  <2>4. SortBox' = SortBoxes(block', active, n, writer, F)
    BY <2>3 DEF SortBox, F
  <2>. QED
    BY <1>7, <1>9, <2>3, <2>4
<1>11. CASE ~full
  <2>1. /\ main' = back /\ fill' = n
        /\ UNCHANGED <<call, active, background, unsorted, writer, files>>
    BY <1>11 DEF Stores, n
  <2>2. /\ main' \in {"expand", "unique", "same"} /\ (main = "expand" <=> main' = "expand")
        /\ fill' \in Nat /\ (main' = "expand" => fill' + MaxMoves <= Slots)
        /\ main' # "expand" => fill' < MoveSlots
    BY <1>3, <1>11, <2>1 DEF n
  <2>3. /\ SortInv' /\ Stage' = main' /\ SortType' = SortType /\ Filled' = fill'
    BY <1>7, <2>1, <2>2, GoesOn
  <2>4. SortBox' = SortBoxes(block', active, n, writer, F)
    BY <2>1, <2>3 DEF SortBox, F
  <2>. QED
    BY <1>7, <1>9, <2>1, <2>3, <2>4
<1>. QED
  BY <1>10, <1>11

-----------------------------------------------------------------------------
(* The steps of the database thread.                                       *)
LEMMA PlyFacts ==
  ASSUME DbTypes, Plies
  PROVE  /\ ply \in Nat /\ at \in Nat /\ boards \in Nat /\ fill \in Nat
         /\ Len(positions) \in Nat /\ Len(moves) \in Nat /\ MaxMoves \in Nat
         /\ Stage \in {"expand", "positions", "moves"} \cup Finding \cup Writing =>
              /\ Here \in Seq(PlyEntry) /\ Len(Here) \in Nat /\ ply + 1 \in 1..Len(positions)
              /\ at <= Len(Here) /\ ply < Depth /\ Len(Here) # 0
         /\ Stage \in {"moves"} \cup Finding \cup Writing =>
              /\ Following \in Seq(PlyEntry) /\ Len(Following) \in Nat /\ at = Len(Here)
              /\ Len(positions) = ply + 2 /\ ply + 2 \in 1..Len(positions)
         /\ Stage \in Writing =>
              /\ Len(moves) = ply + 1 /\ ply + 1 \in 1..Len(moves)
              /\ moves[ply + 1] \in Seq(Nat) /\ Len(moves[ply + 1]) \in Nat
<1>1. /\ ply \in Nat /\ at \in Nat /\ boards \in Nat /\ fill \in Nat
      /\ Len(positions) \in Nat /\ Len(moves) \in Nat /\ MaxMoves \in Nat
  BY Assumptions DEF DbTypes
<1>2. positions \in Seq(Seq(PlyEntry)) /\ moves \in Seq(Seq(Nat))
  BY DEF DbTypes
<1>3. ASSUME Stage \in {"expand", "positions", "moves"} \cup Finding \cup Writing
      PROVE  /\ Here \in Seq(PlyEntry) /\ Len(Here) \in Nat /\ ply + 1 \in 1..Len(positions)
             /\ at <= Len(Here) /\ ply < Depth /\ Len(Here) # 0
  <2>1. Len(positions) = ply + 1 \/ Len(positions) = ply + 2
    BY <1>3 DEF Plies
  <2>2. ply + 1 \in 1..Len(positions)
    BY <1>1, <2>1
  <2>3. Here \in Seq(PlyEntry) /\ Len(Here) \in Nat
    BY <1>2, <2>2, ElementOfSeq, LenProperties DEF Here
  <2>4. Stage \notin Over \cup {"create"}
    BY <1>3 DEF Over, Finding, Writing
  <2>. QED
    BY <2>2, <2>3, <2>4 DEF Plies
<1>4. ASSUME Stage \in {"moves"} \cup Finding \cup Writing
      PROVE  /\ Following \in Seq(PlyEntry) /\ Len(Following) \in Nat /\ at = Len(Here)
             /\ Len(positions) = ply + 2 /\ ply + 2 \in 1..Len(positions)
  <2>1. Len(positions) = ply + 2
    BY <1>4 DEF Plies
  <2>2. ply + 2 \in 1..Len(positions)
    BY <1>1, <2>1
  <2>3. Following \in Seq(PlyEntry) /\ Len(Following) \in Nat
    BY <1>2, <2>2, ElementOfSeq, LenProperties DEF Following
  <2>4. Stage \notin Over \cup {"create"} /\ Stage # "expand"
    BY <1>4 DEF Over, Finding, Writing
  <2>. QED
    BY <2>1, <2>2, <2>3, <2>4 DEF Plies
<1>5. ASSUME Stage \in Writing
      PROVE  /\ Len(moves) = ply + 1 /\ ply + 1 \in 1..Len(moves)
             /\ moves[ply + 1] \in Seq(Nat) /\ Len(moves[ply + 1]) \in Nat
  <2>1. Len(moves) = ply + 1
    BY <1>5 DEF Plies
  <2>2. ply + 1 \in 1..Len(moves)
    BY <1>1, <2>1
  <2>. QED
    BY <1>2, <2>1, <2>2, ElementOfSeq, LenProperties
<1>. QED
  BY <1>1, <1>3, <1>4, <1>5

LEMMA SamePly ==
  ASSUME positions' = positions, ply' = ply, at' = at
  PROVE  /\ Here' = Here /\ Following' = Following
         /\ \A e : LeadsTo(e)' <=> LeadsTo(e)
         /\ \A e : Indexed(e)' <=> Indexed(e)
         /\ \A e : Turned(e)' = Turned(e)
         /\ \A x : Known1(x)' <=> Known1(x)
<1>2. Here' = Here /\ Following' = Following
  BY DEF Here, Following
<1>3. ASSUME NEW e PROVE LeadsTo(e)' <=> LeadsTo(e)
  BY <1>2 DEF LeadsTo
<1>4. ASSUME NEW e PROVE Indexed(e)' <=> Indexed(e)
  BY <1>2 DEF Indexed
<1>5. ASSUME NEW e PROVE Turned(e)' = Turned(e)
  BY <1>2 DEF Turned
<1>6. ASSUME NEW x PROVE Known1(x)' <=> Known1(x)
  BY <1>2 DEF Known1
<1>. QED
  BY <1>2, <1>3, <1>4, <1>5, <1>6

LEMMA RightKept ==
  ASSUME NEW p, PlyRight(p), positions'[p] = positions[p], moves'[p] = moves[p],
         positions[p + 1] \in Seq(PlyEntry), positions'[p + 1] \in Seq(PlyEntry),
         Len(positions'[p + 1]) = Len(positions[p + 1]),
         \A i \in 1..Len(positions[p + 1]) : positions'[p + 1][i].pos = positions[p + 1][i].pos
  PROVE  PlyRight(p)'
<1>1. DOMAIN positions'[p + 1] = 1..Len(positions[p + 1]) /\ DOMAIN positions[p + 1] = 1..Len(positions[p + 1])
  OBVIOUS
<1>2. ASSUME NEW m PROVE Target(p, m)' = Target(p, m)
  BY <1>1 DEF Target
<1>3. ASSUME NEW i PROVE MovesOf(p, i)' = MovesOf(p, i)
  BY <1>2 DEF MovesOf
<1>4. PositionsOf(p + 1)' = PositionsOf(p + 1)
  BY DEF PositionsOf
<1>5. PositionsOf(p)' = PositionsOf(p)
  BY DEF PositionsOf
<1>. QED
  BY <1>3, <1>4, <1>5 DEF PlyRight, Expansion!Reached, Expansion!Lists

(* The plies before the one in hand stay as they are.                      *)
SamePlies ==
  /\ ply' = ply /\ ply + 1 \in 1..Len(positions) /\ ply + 1 \in 1..Len(positions')
  /\ \A p \in 1..ply : positions'[p] = positions[p] /\ moves'[p] = moves[p]
  /\ Len(positions'[ply + 1]) = Len(positions[ply + 1])
  /\ \A i \in 1..Len(positions[ply + 1]) : positions'[ply + 1][i].pos = positions[ply + 1][i].pos

LEMMA PastKept ==
  ASSUME DbTypes, DbTypes', Past, Stage # "dead", Stage' # "dead", SamePlies
  PROVE  Past'
<1>1. /\ ply \in Nat /\ positions \in Seq(Seq(PlyEntry)) /\ positions' \in Seq(Seq(PlyEntry))
      /\ Len(positions) \in Nat /\ Len(positions') \in Nat
  <2>1. positions \in Seq(Seq(PlyEntry)) /\ ply \in Nat
    BY Assumptions DEF DbTypes
  <2>2. positions' \in Seq(Seq(PlyEntry))
    BY DEF DbTypes, PlyEntry
  <2>3. Len(positions) \in Nat
    BY <2>1, LenProperties
  <2>4. Len(positions') \in Nat
    BY <2>2, LenProperties
  <2>. QED
    BY <2>1, <2>2, <2>3, <2>4
<1>2. ASSUME NEW p \in 1..ply PROVE PlyRight(p)'
  <2>1. PlyRight(p)
    BY DEF Past
  <2>2. p + 1 \in 1..Len(positions) /\ p + 1 \in 1..Len(positions')
    BY <1>1 DEF SamePlies
  <2>3. positions[p + 1] \in Seq(PlyEntry) /\ positions'[p + 1] \in Seq(PlyEntry)
    BY <1>1, <2>2, ElementOfSeq
  <2>4. positions'[p] = positions[p] /\ moves'[p] = moves[p]
    BY DEF SamePlies
  <2>5. /\ Len(positions'[p + 1]) = Len(positions[p + 1])
        /\ \A i \in 1..Len(positions[p + 1]) : positions'[p + 1][i].pos = positions[p + 1][i].pos
    <3>1. CASE p = ply
      BY <3>1 DEF SamePlies
    <3>2. CASE p # ply
      <4>1. p + 1 \in 1..ply
        BY <1>1, <3>2
      <4>. QED
        BY <4>1 DEF SamePlies
    <3>. QED
      BY <3>1, <3>2
  <2>. QED
    BY <2>1, <2>3, <2>4, <2>5, RightKept
<1>3. ply' = ply
  BY DEF SamePlies
<1>. QED
  BY <1>2, <1>3 DEF Past

LEMMA MergeIdle ==
  ASSUME MergeInv, UNCHANGED mergeVars, ~Merging, ~Merging'
  PROVE  MergeInv'
<1>1. /\ merging' = merging /\ streams' = streams /\ queue' = queue /\ held' = held
      /\ finished' = finished
  BY DEF mergeVars
<1>2. MergeTypes' /\ Limits'
  BY <1>1 DEF MergeInv, MergeTypes, Limits
<1>3. Streams'
  <2>1. \A s \in 1..Len(streams) : streams[s].at = "done"
    BY DEF MergeInv, Streams
  <2>2. Stage' \notin Finding /\ Stage' \notin Writing /\ Stage' # "next"
    BY DEF Merging, Writing
  <2>. QED
    BY <1>1, <2>1, <2>2 DEF Streams
<1>. QED
  BY <1>2, <1>3 DEF MergeInv

(* Nothing is stored yet.                                                  *)
LEMMA NothingStored ==
  ASSUME NEW b, NEW a, NEW w, SortOK(b, a, 0, w, <<>>), w.state = "idle"
  PROVE  /\ Contents(SortBoxes(b, a, 0, w, <<>>)) = {}
         /\ Distinct(SortBoxes(b, a, 0, w, <<>>))
<1>. DEFINE B == SortBoxes(b, a, 0, w, <<>>)
<1>1. AreBoxes(B, b, a, 0, w, <<>>)
  BY SortBoxesAre
<1>. HIDE DEF B
<1>2. ASSUME NEW c \in DOMAIN B PROVE B[c] = <<>>
  <2>1. c \in Int
    BY <1>1 DEF AreBoxes
  <2>2. CASE c = 0
    <3>1. B[0] \in Seq(Items) /\ Len(B[0]) = 0
      BY <1>1, BlockBox
    <3>. QED
      BY <2>2, <3>1, EmptyIs
  <2>3. CASE c \in Nat \ {0}
    <3>1. B[c] = IF c \in 1..Len(<<>>) THEN <<>>[c] ELSE <<>>
      BY <1>1, <2>3, FileBox
    <3>. QED
      BY <2>3, <3>1
  <2>4. ASSUME NEW i \in Nat \ {0}, c = -i PROVE B[c] = <<>>
    <3>1. B[-i] = IF i \in Threads THEN Pending(b, w, i) ELSE <<>>
      BY <1>1, PendingBox
    <3>. QED
      BY <2>4, <3>1 DEF Pending
  <2>. QED
    BY <2>1, <2>2, <2>3, <2>4, Signs
<1>3. \A c \in DOMAIN B : 1..Len(B[c]) = {}
  BY <1>2
<1>4. Contents(B) = {}
  BY <1>3 DEF Contents
<1>5. Distinct(B)
  BY <1>3 DEF Distinct
<1>. QED
  BY <1>4, <1>5 DEF B

(* The database thread goes on, and the sort does not.                     *)
Quiet(from, to) ==
  /\ main = from /\ main' = to /\ UNCHANGED sortVars /\ fill' = fill
  /\ from \in Places \ {"sort", "written"} /\ to \in Places \ {"sort", "written"}
QuietFits(to) ==
  /\ writer.state = "idle" \/ (to \in {"unique", "same"} /\ main \in {"unique", "same"})
  /\ to = "create" => files["positions"] = <<>>
  /\ to \in BeforeMerge => files["moves"] = <<>>
  /\ to \notin BeforeMerge => files["positions"] = <<>>
  /\ to \in Writing \cup Over => files["moves"] = <<>>

LEMMA QuietOK ==
  ASSUME SortInv, NEW from, NEW to, Quiet(from, to), QuietFits(to), Control'
  PROVE  /\ SortInv' /\ Stage = from /\ Stage' = to
         /\ SortBox = SortBoxes(block, active, fill, writer, files[SortType])
         /\ SortBox' = SortBoxes(block, active, fill, writer, files[SortType'])
<1>1. /\ main = from /\ main' = to /\ call' = call /\ block' = block /\ active' = active
      /\ background' = background /\ unsorted' = unsorted /\ writer' = writer /\ files' = files
      /\ fill' = fill /\ from \in Places \ {"sort", "written"} /\ to \in Places \ {"sort", "written"}
  BY DEF Quiet, sortVars
<1>2. Stage = from /\ Stage' = to /\ Filled = fill /\ Filled' = fill
  BY <1>1 DEF Stage, Filled
<1>3. /\ SortBox = SortBoxes(block, active, fill, writer, files[SortType])
      /\ SortBox' = SortBoxes(block, active, fill, writer, files[SortType'])
  BY <1>1, <1>2 DEF SortBox
<1>4. SortTypes'
  BY <1>1 DEF SortInv, SortTypes
<1>5. WriterControl /\ SortedRuns
  BY DEF SortInv
<1>6. WriterControl'
  <2>1. /\ to \in {"create", "positions", "join", "moves"} \cup Writing \cup Over =>
             writer.state = "idle"
        /\ WriterOK(writer)
    BY <1>5 DEF QuietFits, WriterControl, Writing, Over
  <2>2. writer.state # "idle" => writer.type = SortType'
    <3>1. writer.state # "idle" => writer.type = SortType
      BY <1>5 DEF WriterControl
    <3>2. writer.state # "idle" => SortType' = SortType
      BY <1>1, <1>2 DEF QuietFits, SortType
    <3>. QED
      BY <3>1, <3>2
  <2>3. /\ writer.state # "idle" => /\ writer.from = 1 - active /\ writer.n # 0
                                    /\ Len(files[writer.type]) # 0
        /\ writer.state = "sort" =>
             /\ writer.type = "moves" /\ background = writer.from
             /\ \A j \in Threads : writer.used[j] = 0
             /\ files[writer.type][Len(files[writer.type])] = <<>>
        /\ writer.state # "sort" => unsorted = {}
    BY <1>1, <1>5 DEF WriterControl
  <2>4. main' # "sort"
    BY <1>1
  <2>5. /\ Stage' = "create" => files["positions"] = <<>>
        /\ Stage' \in BeforeMerge => files["moves"] = <<>>
        /\ Stage' \notin BeforeMerge => files["positions"] = <<>>
        /\ Stage' \in Writing \cup Over => files["moves"] = <<>>
    BY <1>2 DEF QuietFits
  <2>. QED
    BY <1>1, <2>1, <2>2, <2>3, <2>4, <2>5 DEF WriterControl
<1>7. LastFile' = LastFile
  BY <1>1 DEF LastFile
<1>8. SortedRuns'
  BY <1>1, <1>5, <1>7 DEF SortedRuns
<1>. QED
  BY <1>2, <1>3, <1>4, <1>6, <1>8 DEF SortInv

LEMMA EntryIs ==
  ASSUME NEW x \in DOMAIN Moves
  PROVE  Entry(x) \in PlyEntry /\ Entry(x).pos = x
<1>1. MaxMoves \in Nat
  BY Assumptions
<1>. QED
  BY <1>1 DEF Entry, PlyEntry

LEMMA CreateOK ==
  ASSUME IInv, Create
  PROVE  IInv'
<1>1. /\ main = "create" /\ main' = "expand" /\ positions' = <<<<Entry(Root)>>>>
      /\ UNCHANGED sortVars /\ UNCHANGED mergeVars /\ moves' = moves /\ ply' = ply /\ at' = at
      /\ boards' = boards /\ fill' = fill /\ cursor' = cursor /\ min' = min
  BY DEF Create, Goto
<1>2. SortInv /\ WriterControl /\ Control /\ MergeInv /\ DbTypes /\ Plies
  BY DEF IInv, SortInv, DbInv
<1>3. Stage = "create" /\ fill = 0
  BY <1>1, <1>2 DEF Stage, Control
<1>4. moves = <<>> /\ ply = 0 /\ at = 0 /\ boards = 0
  BY <1>2, <1>3 DEF Plies
<1>5. MaxMoves \in Nat /\ Slots \in Nat /\ MaxMoves <= Slots /\ Depth \in Nat \ {0}
  BY Assumptions
<1>6. Control'
  BY <1>1, <1>3, <1>5 DEF Control, Writing, Over
<1>7. SortInv' /\ Stage' = "expand" /\ SortBox' = SortBoxes(block, active, 0, writer, <<>>) /\ writer.state = "idle"
  <2>1. writer.state = "idle" /\ files["positions"] = <<>> /\ files["moves"] = <<>>
    BY <1>1, <1>2, <1>3 DEF WriterControl, BeforeMerge
  <2>2. Quiet("create", "expand")
    BY <1>1 DEF Quiet, Places
  <2>3. QuietFits("expand")
    BY <2>1 DEF QuietFits, BeforeMerge, Writing, Over
  <2>4. /\ SortInv' /\ Stage' = "expand"
        /\ SortBox' = SortBoxes(block, active, fill, writer, files[SortType'])
    BY <1>2, <1>6, <2>2, <2>3, QuietOK
  <2>5. SortType' = "positions"
    BY <2>4 DEF SortType
  <2>. QED
    BY <1>3, <2>1, <2>4, <2>5
<1>8. MergeInv'
  <2>1. ~Merging /\ ~Merging'
    BY <1>3, <1>7 DEF Merging, Finding, Writing
  <2>. QED
    BY <1>1, <1>2, <2>1, MergeIdle
<1>9. Contents(SortBox') = {} /\ Distinct(SortBox')
  <2>1. SortOK(block, active, 0, writer, <<>>)
    <3>1. <<>> \in Seq(Seq(Items)) /\ 0 \in 0..Slots
      BY <1>5
    <3>. QED
      BY <1>2, <3>1 DEF SortOK, SortInv, SortTypes, WriterControl
  <2>. QED
    BY <1>7, <2>1, NothingStored
<1>10. Here' = <<Entry(Root)>> /\ Len(positions') = 1 /\ Len(moves') = 0 /\ Len(Here') = 1
  BY <1>1, <1>4 DEF Here
<1>11. DbTypes'
  <2>1. Entry(Root) \in PlyEntry
    BY Assumptions, EntryIs
  <2>2. <<Entry(Root)>> \in Seq(PlyEntry)
    BY <2>1
  <2>3. positions' \in Seq(Seq(PlyEntry))
    BY <1>1, <2>2
  <2>. QED
    BY <1>1, <1>2, <2>3 DEF DbTypes, PlyEntry
<1>12. Plies'
  BY <1>1, <1>4, <1>5, <1>7, <1>10 DEF Plies, Finding, Writing, Over
<1>13. Numbered'
  BY <1>1, <1>4 DEF Numbered, NumberedIn
<1>14. Kept'
  <2>1. \A e : ~LeadsTo(e)'
    BY <1>1, <1>4 DEF LeadsTo, Leads
  <2>2. KeptUnsorted'
    BY <1>9, <2>1 DEF KeptUnsorted
  <2>. QED
    BY <1>7, <2>2 DEF Kept, Finding, Writing
<1>15. Found' /\ Progress'
  BY <1>7 DEF Found, Progress, Finding, Writing
<1>16. Past'
  BY <1>1, <1>4, <1>7 DEF Past
<1>. QED
  BY <1>7, <1>8, <1>11, <1>12, <1>13, <1>14, <1>15, <1>16 DEF IInv, DbInv

LEMMA LastPositionsOK ==
  ASSUME IInv, LastPositions
  PROVE  IInv'
<1>1. /\ main = "expand" /\ at = Len(Here) /\ CallSort("positions", fill, TRUE, "positions") /\ fill' = 0
      /\ block' = block /\ UNCHANGED mergeVars /\ positions' = positions /\ moves' = moves /\ ply' = ply
      /\ at' = at /\ boards' = boards /\ cursor' = cursor /\ min' = min
  BY DEF LastPositions, Here
<1>2. SortInv /\ MergeInv /\ DbTypes /\ Plies /\ Numbered /\ Kept /\ Past
  BY DEF IInv, DbInv
<1>3. Stage = "expand" /\ SortType = "positions" /\ Filled = fill
  BY <1>1, <1>2, StoringIs
<1>4. fill \in 0..Slots /\ block \in [{0, 1} -> Memory] /\ Slots \in Nat
  BY <1>2, Assumptions DEF DbTypes, SortInv, SortTypes
<1>5. /\ SortInv' /\ Stage' = "positions" /\ SortType' = SortType /\ Filled' = fill
      /\ writer' = writer /\ files' = files /\ active' = active
  <2>1. BackOf(SortType, "positions")
    BY <1>3 DEF BackOf, Types, Backs
  <2>2. Keeps(block, block')
    BY <1>1 DEF Keeps
  <2>3. block' \in [{0, 1} -> Memory]
    BY <1>1, <1>4
  <2>. QED
    BY <1>1, <1>2, <1>3, <1>4, <2>1, <2>2, <2>3, CallOK
<1>6. SortBox' = SortBox
  BY <1>1, <1>3, <1>5 DEF SortBox
<1>7. MergeInv'
  <2>1. ~Merging /\ ~Merging'
    BY <1>3, <1>5 DEF Merging, Finding, Writing
  <2>. QED
    BY <1>1, <1>2, <2>1, MergeIdle
<1>8. DbTypes'
  BY <1>1, <1>2, <1>4 DEF DbTypes
<1>9. Here' = Here /\ \A e : LeadsTo(e)' <=> LeadsTo(e)
  BY <1>1, SamePly
<1>10. Plies'
  BY <1>1, <1>2, <1>3, <1>5, <1>9 DEF Plies, Finding, Writing, Over
<1>11. Numbered'
  BY <1>1, <1>2, <1>9 DEF Numbered
<1>12. Kept'
  <2>1. KeptUnsorted'
    BY <1>2, <1>3, <1>6, <1>9 DEF Kept, KeptUnsorted
  <2>. QED
    BY <1>5, <2>1 DEF Kept, Finding, Writing
<1>13. Found' /\ Progress'
  BY <1>5 DEF Found, Progress, Finding, Writing
<1>14. Past'
  <2>1. SamePlies
    BY <1>1, <1>2, <1>3, PlyFacts DEF SamePlies
  <2>. QED
    BY <1>2, <1>3, <1>5, <1>8, <2>1, PastKept
<1>. QED
  BY <1>5, <1>7, <1>8, <1>10, <1>11, <1>12, <1>13, <1>14 DEF IInv, DbInv

(* One more position is expanded: its moves are the next b, b + 1, ...     *)
ExpandsOne(P, Q, n, b, k) ==
  /\ P \in Seq(PlyEntry) /\ Q \in Seq(PlyEntry) /\ n \in Nat /\ n < Len(P) /\ Len(Q) = Len(P)
  /\ b \in Nat /\ k \in Nat
  /\ \A i \in 1..Len(P) : i # n + 1 => Q[i] = P[i]
  /\ Q[n + 1].pos = P[n + 1].pos /\ Q[n + 1].first = b /\ Q[n + 1].moves = k
  /\ k = Len(Moves[P[n + 1].pos])

LEMMA PositionIs ==
  ASSUME NEW P \in Seq(PlyEntry), NEW i \in 1..Len(P)
  PROVE  /\ P[i].pos \in DOMAIN Moves /\ P[i].pos \in Nat
         /\ P[i].first \in Nat /\ P[i].moves \in Nat /\ P[i].moves <= MaxMoves
         /\ Moves[P[i].pos] \in Seq(DOMAIN Moves) /\ Len(Moves[P[i].pos]) \in Nat
         /\ \A k \in 1..Len(Moves[P[i].pos]) : /\ Moves[P[i].pos][k] \in DOMAIN Moves
                                               /\ Moves[P[i].pos][k] \in Nat
         /\ Len(Moves[P[i].pos]) <= MaxMoves
<1>1. P[i] \in PlyEntry
  BY ElementOfSeq
<1>2. MaxMoves \in Nat /\ DOMAIN Moves \subseteq Nat
  BY Assumptions
<1>3. P[i].pos \in DOMAIN Moves /\ P[i].first \in Nat /\ P[i].moves \in 0..MaxMoves
  BY <1>1 DEF PlyEntry
<1>4. Moves[P[i].pos] \in Seq(DOMAIN Moves) /\ Len(Moves[P[i].pos]) <= MaxMoves
  BY <1>3, Assumptions
<1>5. Len(Moves[P[i].pos]) \in Nat
  BY <1>4, LenProperties
<1>6. \A k \in 1..Len(Moves[P[i].pos]) : Moves[P[i].pos][k] \in DOMAIN Moves
  BY <1>4, ElementOfSeq
<1>. QED
  BY <1>2, <1>3, <1>4, <1>5, <1>6

LEMMA NumberedFacts ==
  ASSUME NEW P \in Seq(PlyEntry), NEW n \in Nat, n <= Len(P), NEW b \in Nat, NumberedIn(P, n, b),
         NEW i \in 1..n
  PROVE  /\ P[i].moves = Len(Moves[P[i].pos]) /\ P[i].first + P[i].moves <= b
         /\ i < n => P[i + 1].first = P[i].first + P[i].moves
         /\ \A j \in 1..n : i < j => P[i].first + P[i].moves <= P[j].first
BY DEF NumberedIn

LEMMA StillBelow ==
  ASSUME NEW x \in Nat, NEW y \in Nat, NEW b \in Nat, NEW k \in Nat, x + y <= b
  PROVE  x + y <= b + k
OBVIOUS

LEMMA NumberedFrom ==
  ASSUME NEW Q, NEW N, NEW B, N # 0, Q[1].first = 0, B = Q[N].first + Q[N].moves,
         \A i \in 1..N : /\ Q[i].moves = Len(Moves[Q[i].pos])
                         /\ Q[i].first + Q[i].moves <= B
                         /\ i < N => Q[i + 1].first = Q[i].first + Q[i].moves
                         /\ \A j \in 1..N : i < j => Q[i].first + Q[i].moves <= Q[j].first,
         \A m \in 0..B - 1 : \E i \in 1..N : Q[i].first <= m /\ m < Q[i].first + Q[i].moves
  PROVE  NumberedIn(Q, N, B)
BY DEF NumberedIn

LEMMA NumberedNext ==
  ASSUME NEW P, NEW Q, NEW n, NEW b, NEW k, ExpandsOne(P, Q, n, b, k), NumberedIn(P, n, b),
         NEW N, N = n + 1, NEW B, B = b + k
  PROVE  NumberedIn(Q, N, B)
<1>1. /\ P \in Seq(PlyEntry) /\ Q \in Seq(PlyEntry) /\ n \in Nat /\ n < Len(P) /\ Len(Q) = Len(P)
      /\ b \in Nat /\ k \in Nat /\ Len(P) \in Nat
      /\ \A i \in 1..n : i \in 1..Len(P) /\ Q[i] = P[i]
      /\ Q[n + 1].pos = P[n + 1].pos /\ Q[n + 1].first = b /\ Q[n + 1].moves = k
      /\ k = Len(Moves[P[n + 1].pos])
  <2>1. /\ P \in Seq(PlyEntry) /\ Q \in Seq(PlyEntry) /\ n \in Nat /\ n < Len(P) /\ Len(Q) = Len(P)
        /\ b \in Nat /\ k \in Nat /\ \A i \in 1..Len(P) : i # n + 1 => Q[i] = P[i]
        /\ Q[n + 1].pos = P[n + 1].pos /\ Q[n + 1].first = b /\ Q[n + 1].moves = k
        /\ k = Len(Moves[P[n + 1].pos])
    BY DEF ExpandsOne
  <2>2. Len(P) \in Nat
    BY <2>1, LenProperties
  <2>3. ASSUME NEW i \in 1..n PROVE i \in 1..Len(P) /\ i # n + 1
    BY <2>1, <2>2
  <2>. QED
    BY <2>1, <2>2, <2>3
<1>2. \A i \in 1..n : P[i].first \in Nat /\ P[i].moves \in Nat
  BY <1>1, PositionIs
<1>3. Q[1].first = 0
  <2>1. CASE n = 0
    BY <1>1, <2>1 DEF NumberedIn
  <2>2. CASE n # 0
    BY <1>1, <2>2 DEF NumberedIn
  <2>. QED
    BY <2>1, <2>2
<1>4. ASSUME NEW i \in 1..n
      PROVE  /\ Q[i].moves = Len(Moves[Q[i].pos])
             /\ Q[i].first + Q[i].moves <= b + k
             /\ Q[i + 1].first = Q[i].first + Q[i].moves
             /\ \A j \in 1..n + 1 : i < j => Q[i].first + Q[i].moves <= Q[j].first
  <2>1. /\ P[i].moves = Len(Moves[P[i].pos]) /\ P[i].first + P[i].moves <= b
        /\ i < n => P[i + 1].first = P[i].first + P[i].moves
        /\ \A j \in 1..n : i < j => P[i].first + P[i].moves <= P[j].first
    BY <1>1, NumberedFacts
  <2>2. Q[i] = P[i] /\ P[i].first \in Nat /\ P[i].moves \in Nat
    BY <1>1, <1>2
  <2>3. Q[i].first + Q[i].moves <= b + k
    <3>1. b \in Nat /\ k \in Nat
      BY <1>1
    <3>. QED
      BY <2>1, <2>2, <3>1, StillBelow
  <2>4. Q[i + 1].first = Q[i].first + Q[i].moves
    <3>1. CASE i < n
      BY <1>1, <2>1, <2>2, <3>1
    <3>2. CASE i = n
      <4>1. b = P[n].first + P[n].moves
        BY <1>1, <3>2 DEF NumberedIn
      <4>. QED
        BY <1>1, <2>2, <3>2, <4>1
    <3>. QED
      BY <1>1, <3>1, <3>2
  <2>5. ASSUME NEW j \in 1..n + 1, i < j PROVE Q[i].first + Q[i].moves <= Q[j].first
    <3>1. CASE j = n + 1
      BY <1>1, <2>1, <2>2, <3>1
    <3>2. CASE j # n + 1
      <4>1. j \in 1..n
        BY <1>1, <3>2
      <4>. QED
        BY <1>1, <2>1, <2>2, <2>5, <4>1
    <3>. QED
      BY <3>1, <3>2
  <2>. QED
    BY <2>1, <2>2, <2>3, <2>4, <2>5
<1>5. ASSUME NEW i \in 1..n + 1
      PROVE  /\ Q[i].moves = Len(Moves[Q[i].pos])
             /\ Q[i].first + Q[i].moves <= b + k
             /\ i < n + 1 => Q[i + 1].first = Q[i].first + Q[i].moves
             /\ \A j \in 1..n + 1 : i < j => Q[i].first + Q[i].moves <= Q[j].first
  <2>1. CASE i = n + 1
    BY <1>1, <2>1
  <2>2. CASE i # n + 1
    <3>1. i \in 1..n
      BY <1>1, <2>2
    <3>. QED
      BY <1>4, <3>1
  <2>. QED
    BY <2>1, <2>2
<1>6. ASSUME NEW m \in 0..(b + k) - 1
      PROVE  \E i \in 1..n + 1 : Q[i].first <= m /\ m < Q[i].first + Q[i].moves
  <2>1. CASE m < b
    <3>1. m \in 0..b - 1
      BY <1>1, <2>1
    <3>2. PICK i \in 1..n : P[i].first <= m /\ m < P[i].first + P[i].moves
      BY <3>1 DEF NumberedIn
    <3>3. i \in 1..n + 1 /\ Q[i] = P[i]
      BY <1>1
    <3>. QED
      BY <3>2, <3>3
  <2>2. CASE ~(m < b)
    <3>1. b <= m /\ m < b + k /\ n + 1 \in 1..n + 1
      BY <1>1, <2>2
    <3>. QED
      BY <1>1, <3>1
  <2>. QED
    BY <2>1, <2>2
<1>7. n + 1 # 0 /\ b + k = Q[n + 1].first + Q[n + 1].moves
  BY <1>1
<1>8. N # 0 /\ Q[1].first = 0 /\ B = Q[N].first + Q[N].moves
  BY <1>3, <1>7
<1>10. \A i \in 1..N : /\ Q[i].moves = Len(Moves[Q[i].pos])
                       /\ Q[i].first + Q[i].moves <= B
                       /\ i < N => Q[i + 1].first = Q[i].first + Q[i].moves
                       /\ \A j \in 1..N : i < j => Q[i].first + Q[i].moves <= Q[j].first
  BY <1>5
<1>11. \A m \in 0..B - 1 : \E i \in 1..N : Q[i].first <= m /\ m < Q[i].first + Q[i].moves
  BY <1>6
<1>. QED
  BY <1>8, <1>10, <1>11, NumberedFrom

LEMMA LeadsBelow ==
  ASSUME NEW P \in Seq(PlyEntry), NEW n \in Nat, n <= Len(P), NEW b \in Nat, NumberedIn(P, n, b),
         NEW m \in Nat, NEW x, Leads(P, n, m, x)
  PROVE  m < b /\ x \in DOMAIN Moves /\ x \in Nat
<1>1. PICK i \in 1..n : /\ P[i].first <= m /\ m < P[i].first + P[i].moves
                        /\ x = Moves[P[i].pos][m - P[i].first + 1]
  BY DEF Leads
<1>2. i \in 1..Len(P)
  OBVIOUS
<1>3. P[i].moves = Len(Moves[P[i].pos]) /\ P[i].first + P[i].moves <= b
  BY NumberedFacts
<1>4. P[i].first \in Nat /\ P[i].moves \in Nat
  BY <1>2, PositionIs
<1>5. m - P[i].first + 1 \in 1..Len(Moves[P[i].pos])
  BY <1>1, <1>3, <1>4
<1>6. x \in DOMAIN Moves /\ x \in Nat
  BY <1>1, <1>2, <1>5, PositionIs
<1>. QED
  BY <1>1, <1>3, <1>4, <1>6

LEMMA LeadsNext ==
  ASSUME NEW P, NEW Q, NEW n, NEW b, NEW k, ExpandsOne(P, Q, n, b, k), NEW m \in Nat, NEW x
  PROVE  Leads(Q, n + 1, m, x) <=>
           \/ Leads(P, n, m, x)
           \/ b <= m /\ m < b + k /\ x = Moves[P[n + 1].pos][m - b + 1]
<1>1. /\ n \in Nat /\ \A i \in 1..n : i \in 1..n + 1 /\ Q[i] = P[i]
      /\ n + 1 \in 1..n + 1 /\ \A i \in 1..n + 1 : i \in 1..n \/ i = n + 1
      /\ Q[n + 1].pos = P[n + 1].pos /\ Q[n + 1].first = b /\ Q[n + 1].moves = k
  BY DEF ExpandsOne
<1>2. ASSUME Leads(Q, n + 1, m, x)
      PROVE  \/ Leads(P, n, m, x)
             \/ b <= m /\ m < b + k /\ x = Moves[P[n + 1].pos][m - b + 1]
  <2>1. PICK i \in 1..n + 1 : /\ Q[i].first <= m /\ m < Q[i].first + Q[i].moves
                              /\ x = Moves[Q[i].pos][m - Q[i].first + 1]
    BY <1>2 DEF Leads
  <2>2. CASE i \in 1..n
    BY <1>1, <2>1, <2>2 DEF Leads
  <2>3. CASE i = n + 1
    BY <1>1, <2>1, <2>3
  <2>. QED
    BY <1>1, <2>2, <2>3
<1>3. ASSUME Leads(P, n, m, x) PROVE Leads(Q, n + 1, m, x)
  BY <1>1, <1>3 DEF Leads
<1>4. ASSUME b <= m, m < b + k, x = Moves[P[n + 1].pos][m - b + 1] PROVE Leads(Q, n + 1, m, x)
  BY <1>1, <1>4 DEF Leads
<1>. QED
  BY <1>2, <1>3, <1>4

(* The entries that expanding a position adds.                             *)
ReachedFrom(q, b) == [i \in 1..Len(q) |-> [key |-> q[i], val |-> b + i - 1]]

LEMMA ReachedIs ==
  ASSUME NEW q \in Seq(DOMAIN Moves), NEW b \in Nat, NEW es, es = ReachedFrom(q, b)
  PROVE  /\ es \in Seq(Items) /\ Len(es) = Len(q) /\ Len(q) \in Nat
         /\ \A i, j \in 1..Len(es) : es[i] = es[j] => i = j
         /\ \A i \in 1..Len(es) : b <= es[i].val
         /\ \A e \in Items : e \in {es[i] : i \in 1..Len(es)} <=>
                             b <= e.val /\ e.val < b + Len(q) /\ e.key = q[e.val - b + 1]
<1>1. Len(q) \in Nat /\ \A i \in 1..Len(q) : q[i] \in Nat
  <2>1. DOMAIN Moves \subseteq Nat
    BY Assumptions
  <2>2. \A i \in 1..Len(q) : q[i] \in DOMAIN Moves
    BY ElementOfSeq
  <2>. QED
    BY <2>1, <2>2, LenProperties
<1>2. ASSUME NEW i \in 1..Len(q)
      PROVE  /\ es[i] = [key |-> q[i], val |-> b + i - 1] /\ es[i].val = b + i - 1 /\ es[i].key = q[i]
             /\ b + i - 1 \in Nat /\ es[i] \in Items
  BY <1>1 DEF ReachedFrom, Items
<1>3. es \in [1..Len(q) -> Items]
  BY <1>2 DEF ReachedFrom
<1>4. es \in Seq(Items) /\ Len(es) = Len(q)
  BY <1>1, <1>3, FunctionIsSeq
<1>5. ASSUME NEW i \in 1..Len(q), NEW j \in 1..Len(q), es[i] = es[j] PROVE i = j
  <2>1. b + i - 1 = b + j - 1
    BY <1>2, <1>5
  <2>. QED
    BY <2>1
<1>6. ASSUME NEW i \in 1..Len(q) PROVE b <= es[i].val
  <2>1. es[i].val = b + i - 1
    BY <1>2
  <2>2. b <= b + i - 1
    OBVIOUS
  <2>. QED
    BY <2>1, <2>2
<1>7. ASSUME NEW e \in Items, NEW i \in 1..Len(q), e = es[i]
      PROVE  b <= e.val /\ e.val < b + Len(q) /\ e.key = q[e.val - b + 1]
  <2>1. e.val = b + i - 1 /\ e.key = q[i]
    BY <1>2, <1>7
  <2>2. e.val - b + 1 = i /\ b <= e.val /\ e.val < b + Len(q)
    BY <1>1, <2>1
  <2>. QED
    BY <2>1, <2>2
<1>8. ASSUME NEW e \in Items, b <= e.val, e.val < b + Len(q), e.key = q[e.val - b + 1]
      PROVE  \E i \in 1..Len(q) : e = es[i]
  <2>1. e.val \in Nat /\ e = [key |-> e.key, val |-> e.val]
    BY DEF Items
  <2>2. PICK i \in 1..Len(q) : i = e.val - b + 1
    BY <1>1, <1>8, <2>1
  <2>3. e.val = b + i - 1
    BY <2>1, <2>2
  <2>4. es[i] = [key |-> q[i], val |-> b + i - 1]
    BY <1>2
  <2>5. e.key = q[i]
    BY <1>8, <2>2
  <2>. QED
    BY <2>1, <2>3, <2>4, <2>5
<1>9. \A e \in Items : e \in {es[i] : i \in 1..Len(es)} <=>
                       b <= e.val /\ e.val < b + Len(q) /\ e.key = q[e.val - b + 1]
  BY <1>4, <1>7, <1>8
<1>. QED
  BY <1>1, <1>4, <1>5, <1>6, <1>9

Counted(P, n, b, k) == [P EXCEPT ![n].first = b, ![n].moves = k]

LEMMA CountedIs ==
  ASSUME NEW P \in Seq(PlyEntry), NEW n \in Nat, n < Len(P), NEW b \in Nat, NEW k,
         k = Len(Moves[P[n + 1].pos]), NEW Q, Q = Counted(P, n + 1, b, k)
  PROVE  ExpandsOne(P, Q, n, b, k) /\ \A i \in 1..Len(P) : Q[i].pos = P[i].pos
<1>1. n + 1 \in 1..Len(P) /\ Len(P) \in Nat /\ DOMAIN P = 1..Len(P)
  OBVIOUS
<1>. DEFINE d == n + 1
<1>2. d \in 1..Len(P) /\ d \in DOMAIN P
  BY <1>1
<1>3. k \in Nat /\ k <= MaxMoves /\ P[d] \in PlyEntry /\ MaxMoves \in Nat
  BY <1>2, PositionIs, ElementOfSeq, Assumptions
<1>4. Q = Counted(P, d, b, k) /\ k = Len(Moves[P[d].pos])
  OBVIOUS
<1>. HIDE DEF d
<1>5. /\ Q[d].pos = P[d].pos /\ Q[d].first = b /\ Q[d].moves = k /\ Q[d] \in PlyEntry
      /\ \A i \in 1..Len(P) : i # d => Q[i] = P[i]
      /\ DOMAIN Q = 1..Len(P)
  <2>1. P[d] = [pos |-> P[d].pos, first |-> P[d].first, moves |-> P[d].moves] /\ P[d].pos \in DOMAIN Moves
    BY <1>3 DEF PlyEntry
  <2>2. Q[d] = [[P[d] EXCEPT !.first = b] EXCEPT !.moves = k]
    BY <1>1, <1>2, <1>4 DEF Counted
  <2>3. Q[d] = [pos |-> P[d].pos, first |-> b, moves |-> k]
    BY <1>3, <2>1, <2>2 DEF PlyEntry
  <2>4. Q[d] \in PlyEntry
    BY <1>3, <2>1, <2>3 DEF PlyEntry
  <2>5. DOMAIN Q = 1..Len(P) /\ \A i \in 1..Len(P) : i # d => Q[i] = P[i]
    BY <1>1, <1>4 DEF Counted
  <2>. QED
    BY <2>3, <2>4, <2>5
<1>6. Q \in Seq(PlyEntry) /\ Len(Q) = Len(P)
  <2>1. \A i \in 1..Len(P) : Q[i] \in PlyEntry
    BY <1>5, ElementOfSeq
  <2>2. Q = [i \in 1..Len(P) |-> Q[i]]
    BY <1>1, <1>4, <1>5 DEF Counted
  <2>3. Q \in [1..Len(P) -> PlyEntry]
    BY <2>1, <2>2
  <2>. QED
    BY <1>1, <2>3, FunctionIsSeq
<1>7. \A i \in 1..Len(P) : Q[i].pos = P[i].pos
  BY <1>5
<1>8. n + 1 = d
  BY DEF d
<1>. QED
  BY <1>3, <1>4, <1>5, <1>6, <1>7, <1>8 DEF ExpandsOne

LEMMA ExpandIs ==
  ASSUME SortInv, DbTypes, Plies, Expand,
         NEW q, q = Moves[Here[at + 1].pos], NEW es, es = ReachedFrom(q, boards)
  PROVE  /\ Stage = "expand" /\ Stores(es, Len(q) # 0 /\ Full(fill + Len(q)), "expand")
         /\ ExpandsOne(Here, Here', at, boards, Len(q))
         /\ \A i \in 1..Len(Here) : Here'[i].pos = Here[i].pos
         /\ \A p \in DOMAIN positions : p # ply + 1 => positions'[p] = positions[p]
         /\ Len(positions') = Len(positions) /\ positions' \in Seq(Seq(PlyEntry))
         /\ at' = at + 1 /\ boards' = boards + Len(q) /\ moves' = moves /\ ply' = ply
         /\ cursor' = cursor /\ min' = min /\ UNCHANGED mergeVars
         /\ at < Len(Here)
<1>. DEFINE k == Len(q)
<1>1. /\ main = "expand" /\ at < Len(Here)
      /\ positions' = [positions EXCEPT ![ply + 1][at + 1].first = boards, ![ply + 1][at + 1].moves = k]
      /\ at' = at + 1 /\ boards' = boards + k
      /\ Stored(fill, [i \in 1..k |-> [key |-> q[i], val |-> boards + i - 1]])
      /\ IF k # 0 /\ Full(fill + k)
         THEN CallSort("positions", fill + k, FALSE, "expand") /\ fill' = 0
         ELSE fill' = fill + k /\ UNCHANGED <<main, call, active, background, unsorted, writer, files>>
      /\ UNCHANGED mergeVars /\ moves' = moves /\ ply' = ply /\ cursor' = cursor /\ min' = min
  BY DEF Expand, Here
<1>2. Stage = "expand" /\ SortType = "positions"
  BY <1>1, StoringIs
<1>3. /\ Here \in Seq(PlyEntry) /\ Len(Here) \in Nat /\ ply + 1 \in 1..Len(positions)
      /\ at \in Nat /\ boards \in Nat /\ Len(positions) \in Nat
  BY <1>2, PlyFacts
<1>4. es = [i \in 1..k |-> [key |-> q[i], val |-> boards + i - 1]] /\ Len(es) = k
  <2>1. at + 1 \in 1..Len(Here)
    BY <1>1, <1>3
  <2>2. q \in Seq(DOMAIN Moves)
    BY <1>3, <2>1, PositionIs
  <2>. QED
    BY <1>3, <2>2, ReachedIs DEF ReachedFrom
<1>. HIDE DEF k
<1>5. Stores(es, k # 0 /\ Full(fill + k), "expand")
  BY <1>1, <1>2, <1>4 DEF Stores
<1>6. positions' = With(positions, ply + 1, Counted(Here, at + 1, boards, k))
  <2>. DEFINE d == ply + 1
              j == at + 1
  <2>1. positions' = [positions EXCEPT ![d][j].first = boards, ![d][j].moves = k]
    BY <1>1
  <2>2. d \in 1..Len(positions) /\ DOMAIN positions = 1..Len(positions)
    BY <1>3 DEF DbTypes
  <2>3. Here = positions[d]
    BY DEF Here
  <2>. HIDE DEF d, j
  <2>4. positions' = With(positions, d, Counted(Here, j, boards, k))
    BY <2>1, <2>2, <2>3 DEF With, Counted
  <2>. QED
    BY <2>4 DEF d, j
<1>7. /\ ExpandsOne(Here, Counted(Here, at + 1, boards, k), at, boards, k)
      /\ \A i \in 1..Len(Here) : Counted(Here, at + 1, boards, k)[i].pos = Here[i].pos
  BY <1>1, <1>3, CountedIs DEF k
<1>. DEFINE Q == Counted(Here, at + 1, boards, k)
<1>8. Q \in Seq(PlyEntry)
  BY <1>7 DEF ExpandsOne
<1>9. positions' = With(positions, ply + 1, Q)
  BY <1>6
<1>. HIDE DEF Q
<1>10. /\ positions' \in Seq(Seq(PlyEntry)) /\ Len(positions') = Len(positions)
       /\ \A p \in DOMAIN positions : p # ply + 1 => positions'[p] = positions[p]
       /\ positions'[ply + 1] = Q
  <2>1. positions \in Seq(Seq(PlyEntry)) /\ ply + 1 \in 1..Len(positions)
    BY <1>3 DEF DbTypes
  <2>. DEFINE d == ply + 1
  <2>2. d \in 1..Len(positions) /\ positions' = With(positions, d, Q)
    BY <1>9, <2>1
  <2>. HIDE DEF d
  <2>3. /\ positions' \in Seq(Seq(PlyEntry)) /\ Len(positions') = Len(positions)
        /\ \A p \in DOMAIN positions : p # d => positions'[p] = positions[p]
        /\ positions'[d] = Q
    BY <1>8, <2>1, <2>2 DEF With
  <2>. QED
    BY <2>3 DEF d
<1>11. Here' = Q
  BY <1>1, <1>10 DEF Here
<1>12. ExpandsOne(Here, Here', at, boards, k) /\ \A i \in 1..Len(Here) : Here'[i].pos = Here[i].pos
  BY <1>7, <1>11 DEF Q
<1>. QED
  BY <1>1, <1>2, <1>5, <1>10, <1>12 DEF k

LEMMA ExpandOK ==
  ASSUME IInv, Expand
  PROVE  IInv'
<1>. DEFINE q == Moves[Here[at + 1].pos]
            k == Len(q)
            es == ReachedFrom(q, boards)
<1>1. SortInv /\ MergeInv /\ DbTypes /\ Plies /\ Numbered /\ Kept /\ Past
  BY DEF IInv, DbInv
<1>2. /\ Stage = "expand" /\ Stores(es, k # 0 /\ Full(fill + k), "expand")
      /\ ExpandsOne(Here, Here', at, boards, k)
      /\ \A i \in 1..Len(Here) : Here'[i].pos = Here[i].pos
      /\ \A p \in DOMAIN positions : p # ply + 1 => positions'[p] = positions[p]
      /\ Len(positions') = Len(positions) /\ positions' \in Seq(Seq(PlyEntry))
      /\ at' = at + 1 /\ boards' = boards + k /\ moves' = moves /\ ply' = ply
      /\ cursor' = cursor /\ min' = min /\ UNCHANGED mergeVars
      /\ at < Len(Here)
  BY <1>1, ExpandIs
<1>3. /\ Here \in Seq(PlyEntry) /\ Len(Here) \in Nat /\ ply + 1 \in 1..Len(positions)
      /\ at \in Nat /\ boards \in Nat /\ fill \in Nat /\ ply \in Nat /\ Len(positions) \in Nat /\ MaxMoves \in Nat
      /\ ply < Depth /\ Len(Here) # 0
  BY <1>1, <1>2, PlyFacts
<1>4. q \in Seq(DOMAIN Moves) /\ k \in Nat /\ k <= MaxMoves
  <2>1. at + 1 \in 1..Len(Here)
    BY <1>2, <1>3
  <2>. QED
    BY <1>3, <2>1, PositionIs
<1>. HIDE DEF q
<1>5. /\ es \in Seq(Items) /\ Len(es) = k
      /\ \A i, j \in 1..Len(es) : es[i] = es[j] => i = j
      /\ \A i \in 1..Len(es) : boards <= es[i].val
      /\ \A e \in Items : e \in {es[i] : i \in 1..Len(es)} <=>
                          boards <= e.val /\ e.val < boards + k /\ e.key = q[e.val - boards + 1]
  BY <1>3, <1>4, ReachedIs
<1>. DEFINE full == k # 0 /\ Full(fill + k)
<1>6. main = "expand" /\ fill + MaxMoves <= Slots /\ Slots \in Nat
  <2>1. main = "expand"
    BY DEF Expand
  <2>. QED
    BY <1>1, <2>1, StoringIs, Assumptions
<1>. HIDE DEF k, es
<1>7. /\ fill + k <= Slots
      /\ full => fill + k # 0
      /\ ~full => fill + k + MaxMoves <= Slots
      /\ full \in BOOLEAN
  BY <1>3, <1>4, <1>6 DEF Full
<1>. HIDE DEF full
<1>8. SortInv' /\ Stage' = "expand" /\ AddsNew(SortBox, SortBox', es)
  <2>1. Stores(es, full, "expand")
    BY <1>2 DEF full
  <2>2. fill + Len(es) <= Slots /\ (full => fill + Len(es) # 0)
    BY <1>5, <1>7
  <2>3. ~full => IF main = "expand" THEN fill + Len(es) + MaxMoves <= Slots
                 ELSE fill + Len(es) < MoveSlots
    BY <1>5, <1>6, <1>7
  <2>4. "expand" = IF main = "expand" THEN "expand" ELSE "same"
    BY <1>6
  <2>. QED
    BY <1>1, <1>5, <1>6, <1>7, <2>1, <2>2, <2>3, <2>4, StoresOK
<1>9. MergeInv'
  <2>1. ~Merging /\ ~Merging'
    BY <1>2, <1>8 DEF Merging, Finding, Writing
  <2>. QED
    BY <1>1, <1>2, <2>1, MergeIdle
<1>10. DbTypes'
  <2>1. fill' \in 0..Slots
    <3>1. fill' = 0 \/ fill' = fill + Len(es)
      BY <1>2 DEF Stores
    <3>. QED
      BY <1>3, <1>4, <1>5, <1>6, <1>7, <3>1
  <2>2. at' \in Nat /\ boards' \in Nat
    BY <1>2, <1>3, <1>4
  <2>. QED
    BY <1>1, <1>2, <2>1, <2>2 DEF DbTypes, PlyEntry
<1>11. Len(Here') = Len(Here)
  BY <1>2 DEF ExpandsOne
<1>12. Plies'
  <2>1. Len(positions) = ply + 1 /\ Len(moves) = ply
    BY <1>1, <1>2 DEF Plies
  <2>2. at' <= Len(Here')
    BY <1>2, <1>3, <1>11
  <2>. QED
    BY <1>2, <1>3, <1>8, <1>11, <2>1, <2>2 DEF Plies, Finding, Writing, Over
<1>13. Numbered'
  BY <1>1, <1>2, NumberedNext DEF Numbered
<1>14. ASSUME NEW e \in Items PROVE LeadsTo(e)' <=> LeadsTo(e) \/ e \in {es[i] : i \in 1..Len(es)}
  <2>1. e.val \in Nat
    BY DEF Items
  <2>2. Leads(Here', at + 1, e.val, e.key) <=>
           \/ Leads(Here, at, e.val, e.key)
           \/ boards <= e.val /\ e.val < boards + k /\ e.key = q[e.val - boards + 1]
    BY <1>2, <2>1, LeadsNext DEF q
  <2>3. LeadsTo(e)' <=> Leads(Here', at + 1, e.val, e.key)
    BY <1>2 DEF LeadsTo
  <2>4. LeadsTo(e) <=> Leads(Here, at, e.val, e.key)
    BY DEF LeadsTo
  <2>5. e \in {es[i] : i \in 1..Len(es)} <=>
                          boards <= e.val /\ e.val < boards + k /\ e.key = q[e.val - boards + 1]
    BY <1>5
  <2>. QED
    BY <2>2, <2>3, <2>4, <2>5
<1>15. KeptUnsorted
  BY <1>1, <1>2 DEF Kept
<1>16. KeptUnsorted'
  <2>1. ASSUME NEW i \in 1..Len(es) PROVE es[i] \notin Contents(SortBox)
    <3>1. es[i] \in Items /\ boards <= es[i].val
      BY <1>5, ElementOfSeq
    <3>2. es[i].val \in Nat
      BY <3>1 DEF Items
    <3>3. LeadsTo(es[i]) => es[i].val < boards
      <4>1. NumberedIn(Here, at, boards) /\ at <= Len(Here)
        BY <1>1, <1>2, <1>3 DEF Numbered
      <4>. QED
        BY <1>3, <3>2, <4>1, LeadsBelow DEF LeadsTo
    <3>4. ~LeadsTo(es[i])
      BY <1>3, <3>1, <3>2, <3>3
    <3>. QED
      BY <1>15, <3>1, <3>4 DEF KeptUnsorted
  <2>2. Distinct(SortBox')
    BY <1>5, <1>8, <1>15, <2>1 DEF AddsNew, KeptUnsorted
  <2>3. ASSUME NEW e \in Items PROVE e \in Contents(SortBox') <=> LeadsTo(e)'
    BY <1>8, <1>14, <1>15 DEF AddsNew, KeptUnsorted
  <2>. QED
    BY <2>2, <2>3 DEF KeptUnsorted
<1>17. Kept'
  BY <1>8, <1>16 DEF Kept, Finding, Writing
<1>18. Found' /\ Progress'
  BY <1>8 DEF Found, Progress, Finding, Writing
<1>19. Past'
  <2>1. SamePlies
    <3>1. \A p \in 1..ply : p \in 1..Len(positions) /\ p # ply + 1
      BY <1>3
    <3>2. DOMAIN positions = 1..Len(positions)
      BY <1>1 DEF DbTypes
    <3>3. Len(positions'[ply + 1]) = Len(positions[ply + 1])
      BY <1>2, <1>11 DEF Here
    <3>4. \A i \in 1..Len(positions[ply + 1]) : positions'[ply + 1][i].pos = positions[ply + 1][i].pos
      BY <1>2 DEF Here
    <3>. QED
      BY <1>2, <1>3, <3>1, <3>2, <3>3, <3>4 DEF SamePlies
  <2>. QED
    BY <1>1, <1>2, <1>8, <1>10, <2>1, PastKept
<1>. QED
  BY <1>8, <1>9, <1>10, <1>12, <1>13, <1>17, <1>18, <1>19 DEF IInv, DbInv

NoneFinished(m) == [s \in 1..m |-> FALSE]
AsOpened(S, m, f, type, B) ==
  /\ MergeGood(S, NoMessages(m), NoMessages(m), f, type)
  /\ Contents(MergeBoxes(S, NoMessages(m), NoMessages(m))) = Contents(B)
  /\ Distinct(B) => Distinct(MergeBoxes(S, NoMessages(m), NoMessages(m)))

LEMMA OpenedGood ==
  ASSUME NEW F \in Seq(Seq(Items)), \A i \in 1..Len(F) : Ascending(F[i]), NEW works \in BOOLEAN,
         NEW b, NEW a, NEW w, SortOK(b, a, 0, w, F), w.state = "idle",
         NEW m, m = NumStreams(Len(F)), NEW S, S = OpenedStreams(F, m, works),
         NEW f, f = NoneFinished(m), NEW type
  PROVE  AsOpened(S, m, f, type, SortBoxes(b, a, 0, w, F))
<1>1. m \in Nat \ {0} /\ m <= MaxStreams
  <2>1. Len(F) \in Nat
    BY LenProperties
  <2>. QED
    BY <2>1, StreamsOf
<1>2. /\ MergeOK(S, NoMessages(m), NoMessages(m))
      /\ Contents(MergeBoxes(S, NoMessages(m), NoMessages(m))) = Contents(SortBoxes(b, a, 0, w, F))
      /\ Distinct(SortBoxes(b, a, 0, w, F)) =>
           Distinct(MergeBoxes(S, NoMessages(m), NoMessages(m)))
      /\ Ordered(MergeBoxes(S, NoMessages(m), NoMessages(m)))
  BY <1>1, BoxesOpened
<1>3. /\ Len(S) = m
      /\ \A s \in 1..m : ReadersOK(S[s]) /\ S[s].at = "pick" /\ S[s].msg = <<>>
  BY <1>1, OpenedOK
<1>4. MaxMsg \in Nat \ {0} /\ QueueSize \in Nat \ {0}
  BY Assumptions
<1>5. ASSUME NEW s \in 1..m
      PROVE  /\ ThreadOK(S[s], NoMessages(m)[s], NoMessages(m)[s], f[s], type)
             /\ MsgFits(S[s]) /\ Len(NoMessages(m)[s]) <= QueueSize
  <2>1. NoMessages(m)[s] = <<>> /\ f[s] = FALSE
    BY DEF NoMessages, NoneFinished
  <2>. DEFINE x == S[s]
  <2>2. ReadersOK(x) /\ x.at = "pick" /\ x.msg = <<>>
    BY <1>3
  <2>. HIDE DEF x
  <2>3. ThreadOK(x, <<>>, <<>>, FALSE, type)
    BY <2>2 DEF ThreadOK, ReadersOK, Sending, Ending
  <2>4. MsgFits(x)
    BY <1>4, <2>2 DEF MsgFits
  <2>5. Len(<<>>) <= QueueSize
    BY <1>4
  <2>. QED
    BY <2>1, <2>3, <2>4, <2>5 DEF x
<1>6. f \in [1..Len(S) -> BOOLEAN]
  BY <1>3 DEF NoneFinished
<1>7. Len(S) <= MaxStreams
  BY <1>1, <1>3
<1>8. \A s \in 1..Len(S) :
        /\ ThreadOK(S[s], NoMessages(m)[s], NoMessages(m)[s], f[s], type)
        /\ MsgFits(S[s]) /\ Len(NoMessages(m)[s]) <= QueueSize
  BY <1>3, <1>5
<1>9. MergeGood(S, NoMessages(m), NoMessages(m), f, type)
  BY <1>2, <1>6, <1>7, <1>8 DEF MergeGood
<1>. QED
  BY <1>2, <1>9 DEF AsOpened

(* A merge starts with all entries, and the block files are gone.          *)
Opens(to) ==
  /\ main \in {"positions", "moves"} /\ main' = to
  /\ to = IF main = "positions" THEN "unique" ELSE "move"
  /\ StartMerge(main)
  /\ call' = call /\ block' = block /\ active' = active /\ background' = background
  /\ unsorted' = unsorted /\ writer' = writer /\ fill' = fill

LEMMA OpensIs ==
  ASSUME SortInv, NEW to, Opens(to)
  PROVE  /\ Stage = main /\ SortType = main /\ Stage' = to /\ SortType' = "moves"
         /\ fill = 0 /\ writer.state = "idle" /\ unsorted = {}
         /\ files'["positions"] = <<>> /\ files'["moves"] = <<>>
         /\ files' \in [Types -> Seq(Seq(Items))]
         /\ main \in Types
<1>1. main \in {"positions", "moves"} /\ main' = to /\ to = IF main = "positions" THEN "unique" ELSE "move"
  BY DEF Opens
<1>2. Stage = main /\ SortType = main /\ Stage' = to /\ SortType' = "moves" /\ main \in Types
  BY <1>1 DEF Stage, SortType, Types
<1>3. WriterControl /\ Control /\ files \in [Types -> Seq(Seq(Items))]
  BY DEF SortInv, SortTypes
<1>4. fill = 0 /\ writer.state = "idle" /\ unsorted = {}
  BY <1>1, <1>3 DEF Control, WriterControl
<1>5. files' = [files EXCEPT ![main] = <<>>]
  BY DEF Opens, StartMerge
<1>6. /\ main = "positions" => files["moves"] = <<>>
      /\ main = "moves" => files["positions"] = <<>>
  BY <1>2, <1>3 DEF WriterControl, BeforeMerge
<1>7. files'["positions"] = <<>> /\ files'["moves"] = <<>> /\ files' \in [Types -> Seq(Seq(Items))]
  <2>1. <<>> \in Seq(Seq(Items))
    OBVIOUS
  <2>. QED
    BY <1>1, <1>3, <1>5, <1>6, <2>1 DEF Types
<1>. QED
  BY <1>2, <1>4, <1>7

LEMMA OpensSort ==
  ASSUME SortInv, NEW to, Opens(to)
  PROVE  SortInv' /\ Contents(SortBox') = {} /\ Distinct(SortBox')
<1>1. /\ main \in {"positions", "moves"} /\ main' = to /\ to \in {"unique", "move"}
      /\ call' = call /\ block' = block /\ active' = active /\ background' = background
      /\ unsorted' = unsorted /\ writer' = writer /\ fill' = fill
  BY DEF Opens
<1>2. /\ Stage' = to /\ SortType' = "moves"
      /\ fill = 0 /\ writer.state = "idle" /\ unsorted = {}
      /\ files'["positions"] = <<>> /\ files'["moves"] = <<>>
      /\ files' \in [Types -> Seq(Seq(Items))]
  BY OpensIs
<1>3. SortTypes /\ Control /\ WriterControl /\ SortedRuns
  BY DEF SortInv
<1>4. Filled' = 0
  BY <1>1, <1>2 DEF Filled
<1>5. SortBox' = SortBoxes(block, active, 0, writer, <<>>)
  BY <1>1, <1>2, <1>4 DEF SortBox
<1>6. Contents(SortBox') = {} /\ Distinct(SortBox')
  <2>1. <<>> \in Seq(Seq(Items)) /\ 0 \in 0..Slots
    BY Assumptions
  <2>2. SortOK(block, active, 0, writer, <<>>)
    BY <1>3, <2>1 DEF SortOK, SortTypes, WriterControl
  <2>. QED
    BY <1>2, <1>5, <2>2, NothingStored
<1>7. SortTypes'
  BY <1>1, <1>2, <1>3 DEF SortTypes, Places
<1>8. Control'
  <2>1. 0 < MoveSlots
    BY Assumptions
  <2>. QED
    BY <1>1, <1>2, <2>1 DEF Control, Writing, Over
<1>9. WriterControl'
  <2>1. to \notin BeforeMerge /\ to # "create"
    BY <1>1 DEF BeforeMerge
  <2>2. main' # "sort" /\ writer'.state = "idle" /\ unsorted' = {} /\ WriterOK(writer')
    BY <1>1, <1>2 DEF WriterOK
  <2>. QED
    BY <1>2, <2>1, <2>2 DEF WriterControl
<1>10. SortedRuns'
  <2>1. \A t \in Types : files'[t] = <<>>
    BY <1>2 DEF Types
  <2>2. \A t \in Types : \A i \in 1..Len(files'[t]) : Ascending(files'[t][i])
    BY <2>1
  <2>. QED
    BY <1>1, <1>2, <2>2 DEF SortedRuns
<1>. QED
  BY <1>6, <1>7, <1>8, <1>9, <1>10 DEF SortInv

LEMMA OpensMerge ==
  ASSUME SortInv, NEW to, Opens(to)
  PROVE  /\ MergeGood(streams', queue', held', finished', merging') /\ merging' = main
         /\ Contents(MergeBox') = Contents(SortBox)
         /\ Distinct(SortBox) => Distinct(MergeBox')
<1>1. /\ Stage = main /\ SortType = main /\ fill = 0 /\ writer.state = "idle" /\ main \in Types
      /\ main # "sort"
  BY OpensIs DEF Types
<1>2. SortTypes /\ WriterControl /\ SortedRuns
  BY DEF SortInv
<1>. DEFINE F == files[main]
            m == NumStreams(Len(F))
<1>3. PICK works \in BOOLEAN :
        /\ merging' = main
        /\ streams' = OpenedStreams(F, m, works)
        /\ queue' = NoMessages(m) /\ held' = NoMessages(m)
        /\ finished' = NoneFinished(m)
  BY DEF Opens, StartMerge, OpenedStreams, NoMessages, NoneFinished
<1>4. F \in Seq(Seq(Items)) /\ \A i \in 1..Len(F) : Ascending(F[i])
  BY <1>1, <1>2 DEF SortTypes, SortedRuns
<1>5. SortBox = SortBoxes(block, active, 0, writer, F)
  BY <1>1 DEF SortBox, Filled
<1>6. SortOK(block, active, 0, writer, F)
  <2>1. 0 \in 0..Slots
    BY Assumptions
  <2>. QED
    BY <1>2, <1>4, <2>1 DEF SortOK, SortTypes, WriterControl
<1>9. m = NumStreams(Len(F))
  OBVIOUS
<1>. HIDE DEF F, m
<1>7. AsOpened(streams', m, finished', main, SortBoxes(block, active, 0, writer, F))
  BY <1>1, <1>3, <1>4, <1>6, <1>9, OpenedGood
<1>8. MergeBox' = MergeBoxes(streams', NoMessages(m), NoMessages(m))
  BY <1>3 DEF MergeBox
<1>. QED
  BY <1>3, <1>5, <1>7, <1>8 DEF AsOpened

LEMMA GridItems ==
  ASSUME NEW B, Grid(B)
  PROVE  Contents(B) \subseteq Items
<1>1. ASSUME NEW e \in Contents(B) PROVE e \in Items
  <2>1. PICK c \in DOMAIN B : \E k \in 1..Len(B[c]) : B[c][k] = e
    BY InContents
  <2>2. B[c] \in Seq(Items)
    BY DEF Grid
  <2>. QED
    BY <2>1, <2>2, ElementOfSeq
<1>. QED
  BY <1>1

LEMMA MergeItems ==
  ASSUME MergeGood(streams, queue, held, finished, merging)
  PROVE  Grid(MergeBox) /\ Contents(MergeBox) \subseteq Items
<1>1. MergeOK(streams, queue, held)
  BY DEF MergeGood
<1>2. Grid(MergeBox)
  BY <1>1, MergeGrid DEF MergeBox
<1>. QED
  BY <1>2, GridItems

LEMMA NextMergeItems ==
  ASSUME MergeGood(streams', queue', held', finished', merging')
  PROVE  Grid(MergeBox') /\ Contents(MergeBox') \subseteq Items
<1>1. MergeOK(streams', queue', held')
  BY DEF MergeGood
<1>2. Grid(MergeBox')
  BY <1>1, MergeGrid DEF MergeBox
<1>. QED
  BY <1>2, GridItems

(* A merge goes on as it should.                                           *)
LEMMA MergeGoesOn ==
  ASSUME MergeGood(streams', queue', held', finished', merging'), Merging',
         merging' = IF Stage' \in Finding THEN "positions" ELSE "moves",
         Stage' = "next" => cursor' \in 1..Len(streams')
  PROVE  MergeInv'
<1>1. merging' \in Types
  BY DEF Types
<1>2. /\ MergeTypes' /\ Limits' /\ Ordered(MergeBox')
      /\ \A s \in 1..Len(streams') : StreamOK(s)'
  BY <1>1, GoodGives
<1>3. Streams'
  <2>1. Stage' \in Writing => Stage' \notin Finding
    BY DEF Finding, Writing
  <2>. QED
    BY <1>2, <2>1 DEF Streams
<1>. QED
  BY <1>2, <1>3 DEF MergeInv

LEMMA OpenPositionsOK ==
  ASSUME IInv, OpenPositions
  PROVE  IInv'
<1>1. /\ Opens("unique") /\ positions' = Append(positions, <<>>) /\ moves' = moves /\ ply' = ply /\ at' = at
      /\ boards' = boards /\ fill' = fill /\ cursor' = cursor /\ min' = min /\ main = "positions"
  BY DEF OpenPositions, Opens, Goto
<1>2. SortInv /\ DbTypes /\ Plies /\ Numbered /\ Kept /\ Past
  BY DEF IInv, DbInv
<1>3. SortInv' /\ Contents(SortBox') = {} /\ Distinct(SortBox') /\ Stage = "positions" /\ Stage' = "unique"
  BY <1>1, <1>2, OpensSort, OpensIs
<1>4. /\ MergeGood(streams', queue', held', finished', merging') /\ merging' = "positions"
      /\ Contents(MergeBox') = Contents(SortBox)
      /\ Distinct(SortBox) => Distinct(MergeBox')
  BY <1>1, <1>2, OpensMerge
<1>5. MergeInv'
  BY <1>3, <1>4, MergeGoesOn DEF Merging, Finding, Writing
<1>6. /\ ply \in Nat /\ ply + 1 \in 1..Len(positions) /\ Len(Here) \in Nat /\ Len(positions) \in Nat
      /\ positions \in Seq(Seq(PlyEntry)) /\ Len(positions) = ply + 1 /\ Len(moves) = ply
      /\ ply < Depth /\ Len(Here) # 0 /\ at = Len(Here)
  BY <1>2, <1>3, PlyFacts DEF DbTypes, Plies, Over
<1>7. /\ positions' \in Seq(Seq(PlyEntry)) /\ Len(positions') = ply + 2
      /\ \A p \in 1..ply + 1 : positions'[p] = positions[p]
      /\ Following' = <<>>
  <2>1. <<>> \in Seq(PlyEntry)
    OBVIOUS
  <2>2. /\ positions' \in Seq(Seq(PlyEntry)) /\ Len(positions') = Len(positions) + 1
        /\ \A p \in 1..Len(positions) : positions'[p] = positions[p]
        /\ positions'[Len(positions) + 1] = <<>>
    BY <1>1, <1>6, <2>1, AppendIs
  <2>3. Len(positions) + 1 = ply + 2
    BY <1>6
  <2>. QED
    BY <1>1, <1>6, <2>2, <2>3 DEF Following
<1>8. Here' = Here
  BY <1>1, <1>6, <1>7 DEF Here
<1>9. \A e : LeadsTo(e)' <=> LeadsTo(e)
  BY <1>1, <1>8 DEF LeadsTo
<1>10. DbTypes'
  BY <1>1, <1>2, <1>7 DEF DbTypes, PlyEntry
<1>11. Plies'
  BY <1>1, <1>3, <1>6, <1>7, <1>8 DEF Plies, Finding, Writing, Over
<1>12. Numbered'
  BY <1>1, <1>2, <1>8 DEF Numbered
<1>13. Kept'
  <2>1. KeptUnsorted
    BY <1>2, <1>3 DEF Kept
  <2>2. Contents(MergeBox') \subseteq Items
    BY <1>4, NextMergeItems
  <2>3. \A e : ~Indexed(e)'
    BY <1>7 DEF Indexed
  <2>4. \A e \in Items : e \in Contents(SortBox) <=> LeadsTo(e)
    BY <2>1 DEF KeptUnsorted
  <2>5. \A e \in Contents(MergeBox') : LeadsTo(e)'
    BY <1>4, <1>9, <2>2, <2>4
  <2>6. \A e \in Items : LeadsTo(e)' => e \in Contents(MergeBox') \/ Known1(e.key)'
    BY <1>4, <1>9, <2>4
  <2>7. Distinct(MergeBox')
    BY <1>4, <2>1 DEF KeptUnsorted
  <2>8. \A e \in Items : e \in Contents(SortBox') <=> (Indexed(e)' /\ Turned(e)' \notin Contents(MergeBox'))
    BY <1>3, <2>3
  <2>9. KeptFinding'
    BY <1>3, <2>5, <2>6, <2>7, <2>8 DEF KeptFinding
  <2>. QED
    BY <1>3, <2>9 DEF Kept, Writing
<1>14. Found'
  BY <1>7 DEF Found
<1>15. Progress'
  BY <1>3, <1>7 DEF Progress, Writing
<1>16. Past'
  <2>1. SamePlies
    BY <1>1, <1>6, <1>7 DEF SamePlies
  <2>. QED
    BY <1>2, <1>3, <1>10, <2>1, PastKept
<1>. QED
  BY <1>3, <1>5, <1>10, <1>11, <1>12, <1>13, <1>14, <1>15, <1>16 DEF IInv, DbInv

LEMMA OpenMovesOK ==
  ASSUME IInv, OpenMoves
  PROVE  IInv'
<1>1. /\ Opens("move") /\ moves' = Append(moves, <<>>) /\ positions' = positions /\ ply' = ply /\ at' = at
      /\ boards' = boards /\ fill' = fill /\ cursor' = cursor /\ min' = min /\ main = "moves"
  BY DEF OpenMoves, Opens, Goto
<1>2. SortInv /\ DbTypes /\ Plies /\ Numbered /\ Kept /\ Past /\ Found /\ Progress
  BY DEF IInv, DbInv
<1>3. SortInv' /\ Stage = "moves" /\ Stage' = "move"
  BY <1>1, <1>2, OpensSort, OpensIs
<1>4. /\ MergeGood(streams', queue', held', finished', merging') /\ merging' = "moves"
      /\ Contents(MergeBox') = Contents(SortBox)
      /\ Distinct(SortBox) => Distinct(MergeBox')
  BY <1>1, <1>2, OpensMerge
<1>5. MergeInv'
  BY <1>3, <1>4, MergeGoesOn DEF Merging, Finding, Writing
<1>6. /\ ply \in Nat /\ ply + 1 \in 1..Len(positions)
      /\ moves \in Seq(Seq(Nat)) /\ Len(positions) = ply + 2 /\ Len(moves) = ply
  BY <1>2, <1>3, PlyFacts DEF DbTypes, Plies
<1>7. /\ moves' \in Seq(Seq(Nat)) /\ Len(moves') = ply + 1
      /\ \A p \in 1..ply : moves'[p] = moves[p]
      /\ moves'[ply + 1] = <<>>
  <2>1. <<>> \in Seq(Nat)
    OBVIOUS
  <2>. QED
    BY <1>1, <1>6, <2>1, AppendIs
<1>8. /\ Here' = Here /\ Following' = Following
      /\ \A e : LeadsTo(e)' <=> LeadsTo(e)
      /\ \A e : Indexed(e)' <=> Indexed(e)
      /\ \A x : Known1(x)' <=> Known1(x)
  BY <1>1, SamePly
<1>9. DbTypes'
  BY <1>1, <1>2, <1>7 DEF DbTypes
<1>10. Plies'
  BY <1>1, <1>2, <1>3, <1>6, <1>7, <1>8 DEF Plies, Finding, Writing, Over
<1>11. Numbered'
  BY <1>1, <1>2, <1>8 DEF Numbered
<1>12. Kept'
  <2>1. KeptIndexed
    BY <1>2, <1>3 DEF Kept, Finding, Writing
  <2>2. \A e \in Items : e \in Contents(SortBox) <=> Indexed(e)
    BY <2>1 DEF KeptIndexed
  <2>3. \A e \in Items : 0 <= e.key
    BY DEF Items
  <2>4. Len(moves'[ply' + 1]) = 0
    BY <1>1, <1>7
  <2>5. \A e \in Items : e \in Contents(MergeBox') <=> (Indexed(e)' /\ Len(moves'[ply' + 1]) <= e.key)
    BY <1>4, <1>8, <2>2, <2>3, <2>4
  <2>6. Distinct(MergeBox')
    BY <1>4, <2>1 DEF KeptIndexed
  <2>7. KeptWriting'
    BY <2>5, <2>6 DEF KeptWriting
  <2>. QED
    BY <1>3, <2>7 DEF Kept, Finding
<1>13. Found'
  <2>1. /\ \A i, j \in 1..Len(Following) : i < j => Following[i].pos < Following[j].pos
        /\ \A i \in 1..Len(Following) : \E m \in 0..boards - 1 : Leads(Here, at, m, Following[i].pos)
    BY <1>2, <1>3 DEF Found
  <2>. QED
    BY <1>1, <1>8, <2>1 DEF Found
<1>14. Progress'
  <2>1. \A e \in Items : LeadsTo(e) => Known1(e.key)
    BY <1>2, <1>3 DEF Progress
  <2>2. \A e \in Items : LeadsTo(e)' => Known1(e.key)'
    BY <1>8, <2>1
  <2>3. 1..Len(moves'[ply' + 1]) = {}
    BY <1>1, <1>7
  <2>. QED
    BY <1>3, <2>2, <2>3 DEF Progress
<1>15. Past'
  <2>1. SamePlies
    BY <1>1, <1>6, <1>7 DEF SamePlies
  <2>. QED
    BY <1>2, <1>3, <1>9, <2>1, PastKept
<1>. QED
  BY <1>3, <1>5, <1>9, <1>10, <1>11, <1>12, <1>13, <1>14, <1>15 DEF IInv, DbInv

(* What main knows when it knows all streams.                              *)
LEMMA FinishedRow ==
  ASSUME NEW S, NEW q, NEW h, NEW f, NEW type, MergeGood(S, q, h, f, type), NEW s \in 1..Len(S), f[s],
         NEW i \in Int
  PROVE  MergeBoxes(S, q, h)[<<s, i>>] = <<>>
<1>. DEFINE B == MergeBoxes(S, q, h)
            t == S[s]
            v == q[s]
<1>1. AreMerge(B, S, q, h) /\ s \in Nat
  BY MergeBoxesAre DEF MergeGood
<1>2. ThreadOK(t, v, h[s], f[s], type)
  BY DEF MergeGood
<1>3. v = <<>> /\ h[s] = <<>> /\ t.at = "done"
  BY <1>2 DEF ThreadOK
<1>4. t.msg = <<>> /\ \A k \in 1..Len(t.readers) : Rest(t.readers[k]) = <<>>
  BY <1>2, <1>3 DEF ThreadOK, Ending
<1>5. /\ B[<<s, 0>>] = h[s]
      /\ \A k \in Nat \ {0} : B[<<s, -k>>] = Waiting(t, v, k) /\ B[<<s, k>>] = Coming(t, k)
  BY <1>1 DEF AreMerge
<1>. HIDE DEF B, t, v
<1>6. ASSUME NEW k \in Nat \ {0} PROVE Waiting(t, v, k) = <<>> /\ Coming(t, k) = <<>>
  BY <1>3, <1>4 DEF Waiting, Coming
<1>7. B[<<s, i>>] = <<>>
  <2>1. CASE i = 0
    BY <1>3, <1>5, <2>1
  <2>2. CASE i \in Nat \ {0}
    BY <1>5, <1>6, <2>2
  <2>3. ASSUME NEW k \in Nat \ {0}, i = -k PROVE B[<<s, i>>] = <<>>
    BY <1>5, <1>6, <2>3
  <2>. QED
    BY <2>1, <2>2, <2>3, Signs
<1>. QED
  BY <1>7 DEF B

LEMMA HeadLowest ==
  ASSUME NEW S, NEW q, NEW h, NEW f, NEW type, MergeGood(S, q, h, f, type), NEW s \in 1..Len(S),
         h[s] # <<>>, NEW i \in Int, NEW k \in 1..Len(MergeBoxes(S, q, h)[<<s, i>>])
  PROVE  Head(h[s]).key <= MergeBoxes(S, q, h)[<<s, i>>][k].key
BY RemoveGood

LEMMA SmallestIs ==
  ASSUME NEW S, S \subseteq Nat, S # {}, NEW front, \A i \in S : front[i].key \in Nat
  PROVE  Smallest(S, front) \in S /\ \A i \in S : front[Smallest(S, front)].key <= front[i].key
<1>1. \E j \in S : \A i \in S :
        front[j].key < front[i].key \/ (front[j].key = front[i].key /\ j <= i)
  BY FirstSmallest
<1>2. /\ Smallest(S, front) \in S
      /\ \A i \in S : \/ front[Smallest(S, front)].key < front[i].key
                      \/ front[Smallest(S, front)].key = front[i].key /\ Smallest(S, front) <= i
  BY <1>1 DEF Smallest
<1>. QED
  BY <1>2

LEMMA MinLowest ==
  ASSUME MergeInv, Merging, AllKnown, Left # {}
  PROVE  /\ MinStream \in 1..Len(streams) /\ held[MinStream] # <<>>
         /\ Head(held[MinStream]) \in Items
         /\ \A e \in Contents(MergeBox) : Head(held[MinStream]).key <= e.key
<1>1. /\ MergeGood(streams, queue, held, finished, merging) /\ DOMAIN held = 1..Len(streams)
      /\ Len(streams) \in Nat
  BY GoodIs
<1>. DEFINE front == [s \in Left |-> Head(held[s])]
<1>2. ASSUME NEW s \in Left
      PROVE  s \in 1..Len(streams) /\ held[s] # <<>> /\ Head(held[s]) \in Items /\ front[s] = Head(held[s])
  <2>1. s \in 1..Len(streams) /\ held[s] # <<>>
    BY <1>1 DEF Left
  <2>2. held[s] \in Seq(Items)
    BY <1>1, <2>1, GoodThread
  <2>. QED
    BY <2>1, <2>2, TailIs
<1>3. MinStream = Smallest(Left, front)
  BY DEF MinStream
<1>. HIDE DEF front
<1>4. Left \subseteq Nat /\ \A s \in Left : front[s].key \in Nat
  BY <1>1, <1>2 DEF Items
<1>5. MinStream \in Left /\ \A s \in Left : front[MinStream].key <= front[s].key
  BY <1>3, <1>4, SmallestIs
<1>6. \A s \in Left : Head(held[MinStream]).key <= Head(held[s]).key
  BY <1>2, <1>5
<1>7. ASSUME NEW e \in Contents(MergeBox) PROVE Head(held[MinStream]).key <= e.key
  <2>1. Grid(MergeBox) /\ e \in Items
    BY <1>1, MergeItems
  <2>2. PICK s \in Nat, i \in Int : \E k \in 1..Len(MergeBox[<<s, i>>]) : MergeBox[<<s, i>>][k] = e
    <3>1. PICK c \in DOMAIN MergeBox : \E k \in 1..Len(MergeBox[c]) : MergeBox[c][k] = e
      BY InContents
    <3>2. \E s \in Nat, i \in Int : c = <<s, i>>
      BY <2>1, GridIs
    <3>. QED
      BY <3>1, <3>2
  <2>3. PICK k \in 1..Len(MergeBox[<<s, i>>]) : MergeBox[<<s, i>>][k] = e
    BY <2>2
  <2>4. MergeBox[<<s, i>>] # <<>>
    BY <2>3
  <2>5. s \in 1..Len(streams)
    <3>1. AreMerge(MergeBox, streams, queue, held)
      BY <1>1, MergeBoxesAre DEF MergeGood, MergeBox
    <3>. QED
      BY <2>4, <3>1 DEF AreMerge
  <2>6. ~finished[s]
    BY <1>1, <2>4, <2>5, FinishedRow DEF MergeBox
  <2>7. s \in Left
    BY <1>1, <2>5, <2>6 DEF AllKnown, Known, Left
  <2>8. Head(held[s]).key <= e.key
    BY <1>1, <1>2, <2>3, <2>5, <2>7, HeadLowest DEF MergeBox
  <2>9. Head(held[MinStream]).key \in Nat /\ Head(held[s]).key \in Nat /\ e.key \in Nat
    BY <1>2, <1>5, <2>1, <2>7 DEF Items
  <2>10. Head(held[MinStream]).key <= Head(held[s]).key
    BY <1>6, <2>7
  <2>. QED
    BY <2>8, <2>9, <2>10
<1>. QED
  BY <1>2, <1>5, <1>7

LEMMA AllTaken ==
  ASSUME MergeInv, Merging, AllKnown, Left = {}
  PROVE  Contents(MergeBox) = {}
<1>1. /\ MergeGood(streams, queue, held, finished, merging) /\ DOMAIN held = 1..Len(streams)
  BY GoodIs
<1>2. ASSUME NEW s \in Nat, NEW i \in Int PROVE MergeBox[<<s, i>>] = <<>>
  <2>1. CASE s \in 1..Len(streams)
    <3>1. finished[s]
      BY <1>1, <2>1 DEF AllKnown, Known, Left
    <3>. QED
      BY <1>1, <2>1, <3>1, FinishedRow DEF MergeBox
  <2>2. CASE s \notin 1..Len(streams)
    <3>1. AreMerge(MergeBox, streams, queue, held)
      BY <1>1, MergeBoxesAre DEF MergeGood, MergeBox
    <3>. QED
      BY <2>2, <3>1 DEF AreMerge
  <2>. QED
    BY <2>1, <2>2
<1>3. Grid(MergeBox)
  BY <1>1, MergeItems
<1>4. \A c \in DOMAIN MergeBox : MergeBox[c] = <<>>
  BY <1>2, <1>3, GridIs
<1>. QED
  BY <1>4 DEF Contents

Loses(B, C, e) ==
  /\ e \in Items /\ e \in Contents(B) /\ Contents(B) = Contents(C) \cup {e}
  /\ Distinct(B) => Distinct(C) /\ e \notin Contents(C)
  /\ RowsFrom(B, C) /\ Contents(B) \subseteq Items

LEMMA MainRemoves ==
  ASSUME MergeInv, Merging, NEW s \in 1..Len(streams), held[s] # <<>>, RemoveFrom(s),
         UNCHANGED <<merging, streams, queue, finished>>, NEW e, e = Head(held[s])
  PROVE  /\ MergeGood(streams', queue', held', finished', merging') /\ merging' = merging
         /\ Loses(MergeBox, MergeBox', e)
<1>1. MergeGood(streams, queue, held, finished, merging)
  BY GoodIs
<1>2. /\ held' = With(held, s, Tail(held[s])) /\ merging' = merging /\ streams' = streams
      /\ queue' = queue /\ finished' = finished
  BY DEF RemoveFrom, With
<1>3. /\ MergeGood(streams, queue, held', finished, merging)
      /\ Contents(MergeBoxes(streams, queue, held)) = Contents(MergeBoxes(streams, queue, held')) \cup {Head(held[s])}
      /\ Distinct(MergeBoxes(streams, queue, held)) =>
           /\ Distinct(MergeBoxes(streams, queue, held'))
           /\ Head(held[s]) \notin Contents(MergeBoxes(streams, queue, held'))
      /\ RowsFrom(MergeBoxes(streams, queue, held), MergeBoxes(streams, queue, held'))
  BY <1>1, <1>2, RemoveGood
<1>4. MergeBox = MergeBoxes(streams, queue, held) /\ MergeBox' = MergeBoxes(streams, queue, held')
  BY <1>2 DEF MergeBox
<1>5. Contents(MergeBox) \subseteq Items
  BY <1>1, MergeItems
<1>6. e \in Contents(MergeBox)
  BY <1>3, <1>4
<1>7. e \in Items
  BY <1>5, <1>6
<1>8. /\ Contents(MergeBox) = Contents(MergeBox') \cup {e}
      /\ Distinct(MergeBox) => Distinct(MergeBox') /\ e \notin Contents(MergeBox')
      /\ RowsFrom(MergeBox, MergeBox')
  BY <1>3, <1>4
<1>9. MergeGood(streams', queue', held', finished', merging')
  BY <1>2, <1>3
<1>10. merging' = merging
  BY <1>2
<1>11. Loses(MergeBox, MergeBox', e)
  BY <1>5, <1>6, <1>7, <1>8 DEF Loses
<1>. QED
  BY <1>9, <1>10, <1>11

LEMMA StoringMove ==
  ASSUME SortInv, DbTypes, main \in {"unique", "same"}, NEW e \in Items, NEW i \in Nat,
         StoreMove(e, i, "same"), NEW d, d = [key |-> e.val, val |-> i]
  PROVE  /\ SortInv' /\ Stage' = "same" /\ fill' \in 0..Slots /\ d \in Items
         /\ Contents(SortBox') = Contents(SortBox) \cup {d}
         /\ Distinct(SortBox) /\ d \notin Contents(SortBox) => Distinct(SortBox')
<1>. DEFINE es == <<d>>
            full == fill + 1 = MoveSlots
<1>1. d \in Items /\ e.val \in Nat
  BY DEF Items
<1>2. es \in Seq(Items) /\ Len(es) = 1 /\ es[1] = d
  BY <1>1
<1>3. SortType = "moves" /\ fill < MoveSlots
  BY StoringIs
<1>4. fill \in Nat /\ MoveSlots \in Nat /\ MoveSlots <= Slots /\ Slots \in Nat
  BY Assumptions DEF DbTypes
<1>5. /\ Stored(fill, es)
      /\ IF full THEN CallSort("moves", fill + 1, FALSE, "same") /\ fill' = 0
         ELSE /\ main' = "same" /\ fill' = fill + 1
              /\ UNCHANGED <<call, active, background, unsorted, writer, files>>
  BY DEF StoreMove
<1>6. full \in BOOLEAN /\ (~full => fill + 1 < MoveSlots) /\ fill + 1 <= Slots /\ fill + 1 # 0
  BY <1>3, <1>4
<1>. HIDE DEF es, full
<1>7. Stores(es, full, "same")
  BY <1>2, <1>3, <1>5 DEF Stores
<1>8. SortInv' /\ Stage' = "same" /\ AddsNew(SortBox, SortBox', es)
  <2>1. /\ fill + Len(es) <= Slots /\ (full => fill + Len(es) # 0)
        /\ ~full => fill + Len(es) < MoveSlots
    BY <1>2, <1>6
  <2>2. main # "expand"
    OBVIOUS
  <2>. QED
    BY <1>2, <1>6, <1>7, <2>1, <2>2, StoresOK
<1>9. fill' \in 0..Slots
  <2>1. fill' = 0 \/ fill' = fill + 1
    BY <1>5
  <2>. QED
    BY <1>4, <1>6, <2>1
<1>10. {es[k] : k \in 1..Len(es)} = {d}
  BY <1>2
<1>11. Contents(SortBox') = Contents(SortBox) \cup {d}
  BY <1>8, <1>10 DEF AddsNew
<1>12. ASSUME Distinct(SortBox), d \notin Contents(SortBox) PROVE Distinct(SortBox')
  <2>1. \A k \in 1..Len(es) : es[k] \notin Contents(SortBox)
    BY <1>2, <1>12
  <2>2. \A k, l \in 1..Len(es) : es[k] = es[l] => k = l
    BY <1>2
  <2>. QED
    BY <1>8, <1>12, <2>1, <2>2 DEF AddsNew
<1>. QED
  BY <1>1, <1>8, <1>9, <1>11, <1>12

(* A position with a larger key than all so far, which a move leads to.    *)
LEMMA UniqueKept ==
  ASSUME DbTypes, Plies, Numbered, KeptFinding, Stage = "unique", Found,
         \A x \in Contents(MergeBox), i \in 1..Len(Following) : Following[i].pos < x.key,
         NEW e, Loses(MergeBox, MergeBox', e), Here' = Here, at' = at,
         Following' = Append(Following, Entry(e.key)),
         NEW d, d = [key |-> e.val, val |-> Len(Following)],
         Contents(SortBox') = Contents(SortBox) \cup {d},
         Distinct(SortBox) /\ d \notin Contents(SortBox) => Distinct(SortBox')
  PROVE  KeptFinding'
<1>1. Following \in Seq(PlyEntry) /\ Len(Following) \in Nat /\ at \in Nat /\ Here \in Seq(PlyEntry)
      /\ at <= Len(Here) /\ boards \in Nat
  BY PlyFacts DEF Finding
<1>. DEFINE L == Len(Following)
<1>2. /\ e \in Items /\ e \in Contents(MergeBox) /\ Contents(MergeBox) = Contents(MergeBox') \cup {e}
      /\ Distinct(MergeBox) => Distinct(MergeBox') /\ e \notin Contents(MergeBox')
  BY DEF Loses
<1>3. /\ Distinct(SortBox) /\ Distinct(MergeBox)
      /\ \A x \in Items : x \in Contents(SortBox) <=> Indexed(x) /\ Turned(x) \notin Contents(MergeBox)
      /\ \A x \in Contents(MergeBox) : LeadsTo(x)
      /\ \A x \in Items : LeadsTo(x) => x \in Contents(MergeBox) \/ Known1(x.key)
  BY DEF KeptFinding
<1>4. e.key \in Nat /\ e.val \in Nat /\ e = [key |-> e.key, val |-> e.val] /\ d \in Items
      /\ d.key = e.val /\ d.val = L
  BY <1>1, <1>2 DEF Items
<1>5. /\ Len(Following') = L + 1 /\ \A i \in 1..L : Following'[i] = Following[i]
      /\ Following'[L + 1].pos = e.key
  <2>1. LeadsTo(e)
    BY <1>2, <1>3
  <2>2. e.key \in DOMAIN Moves
    BY <1>1, <1>4, <2>1, LeadsBelow DEF LeadsTo, Numbered
  <2>3. Entry(e.key) \in PlyEntry /\ Entry(e.key).pos = e.key
    BY <2>2, EntryIs
  <2>. QED
    BY <1>1, <2>3, AppendIs
<1>6. \A x : LeadsTo(x)' <=> LeadsTo(x)
  BY DEF LeadsTo
<1>7. ASSUME NEW x \in Items, x.val + 1 \in 1..L
      PROVE  (Indexed(x)' <=> Indexed(x)) /\ Turned(x)' = Turned(x)
  <2>1. Following'[x.val + 1] = Following[x.val + 1] /\ x.val + 1 \in 1..L + 1
    BY <1>1, <1>5, <1>7
  <2>. QED
    BY <1>5, <1>7, <2>1 DEF Indexed, Turned
<1>8. ASSUME NEW x \in Items, x.val = L
      PROVE  /\ ~Indexed(x) /\ (Indexed(x)' <=> Leads(Here, at, x.key, e.key))
             /\ Turned(x)' = [key |-> e.key, val |-> x.key]
  <2>1. x.val + 1 = L + 1 /\ L + 1 \in 1..L + 1 /\ L + 1 \notin 1..L
    BY <1>1, <1>8
  <2>. QED
    BY <1>5, <2>1 DEF Indexed, Turned
<1>9. ASSUME NEW x \in Items, x.val + 1 \notin 1..L + 1
      PROVE  ~Indexed(x) /\ ~Indexed(x)'
  <2>1. x.val + 1 \notin 1..L
    BY <1>1, <1>9
  <2>. QED
    BY <1>5, <1>9, <2>1 DEF Indexed
<1>10. ~Indexed(d)
  BY <1>4, <1>8
<1>11. d \notin Contents(SortBox)
  BY <1>3, <1>4, <1>10
<1>12. ASSUME NEW x \in Items
       PROVE  x \in Contents(SortBox') <=> Indexed(x)' /\ Turned(x)' \notin Contents(MergeBox')
  <2>1. x.val \in Nat /\ x.key \in Nat /\ x = [key |-> x.key, val |-> x.val]
    BY DEF Items
  <2>2. CASE x.val + 1 \in 1..L
    <3>1. x # d
      BY <1>1, <1>4, <2>2
    <3>2. (Indexed(x)' <=> Indexed(x)) /\ Turned(x)' = Turned(x)
      BY <1>7, <2>2
    <3>3. Turned(x) # e
      <4>1. Turned(x).key = Following[x.val + 1].pos
        BY DEF Turned
      <4>2. Following[x.val + 1].pos < e.key
        BY <1>2, <2>2
      <4>3. Following[x.val + 1].pos \in Nat
        BY <1>1, <2>2, PositionIs
      <4>. QED
        BY <1>4, <4>1, <4>2, <4>3
    <3>4. x \in Contents(SortBox') <=> x \in Contents(SortBox)
      BY <3>1
    <3>5. Turned(x) \in Contents(MergeBox) <=> Turned(x) \in Contents(MergeBox')
      BY <1>2, <3>3
    <3>. QED
      BY <1>3, <3>2, <3>4, <3>5
  <2>3. CASE x.val = L
    <3>1. ~Indexed(x) /\ (Indexed(x)' <=> Leads(Here, at, x.key, e.key))
          /\ Turned(x)' = [key |-> e.key, val |-> x.key]
      BY <1>8, <2>3
    <3>2. x \notin Contents(SortBox)
      BY <1>3, <3>1
    <3>3. x = d <=> x.key = e.val
      BY <1>4, <2>1, <2>3
    <3>4. ASSUME x.key = e.val PROVE Indexed(x)' /\ Turned(x)' \notin Contents(MergeBox')
      <4>1. LeadsTo(e)
        BY <1>2, <1>3
      <4>2. Turned(x)' = e
        BY <1>4, <3>1, <3>4
      <4>. QED
        BY <1>2, <1>3, <3>1, <3>4, <4>1, <4>2 DEF LeadsTo
    <3>5. ASSUME Indexed(x)', Turned(x)' \notin Contents(MergeBox') PROVE x.key = e.val
      <4>. DEFINE y == [key |-> e.key, val |-> x.key]
      <4>1. y \in Items /\ y.key = e.key /\ y.val = x.key
        BY <1>4, <2>1 DEF Items
      <4>2. LeadsTo(y)
        BY <3>1, <3>5, <4>1 DEF LeadsTo
      <4>3. y \notin Contents(MergeBox')
        BY <3>1, <3>5
      <4>. HIDE DEF y
      <4>4. ~Known1(y.key)
        <5>1. ASSUME NEW i \in 1..L PROVE Following[i].pos # e.key
          <6>1. Following[i].pos < e.key
            BY <1>2
          <6>2. Following[i].pos \in Nat
            BY <1>1, PositionIs
          <6>. QED
            BY <1>4, <6>1, <6>2
        <5>. QED
          BY <4>1, <5>1 DEF Known1
      <4>5. y = e
        BY <1>2, <1>3, <4>1, <4>2, <4>3, <4>4
      <4>. QED
        BY <4>1, <4>5
    <3>6. x \in Contents(SortBox') <=> x = d
      BY <3>2
    <3>. QED
      BY <3>3, <3>4, <3>5, <3>6
  <2>4. CASE x.val + 1 \notin 1..L + 1
    <3>1. x # d
      BY <1>1, <1>4, <2>4
    <3>. QED
      BY <1>3, <1>9, <2>4, <3>1
  <2>5. x.val + 1 \in 1..L \/ x.val = L \/ x.val + 1 \notin 1..L + 1
    BY <1>1, <2>1
  <2>. QED
    BY <2>2, <2>3, <2>4, <2>5
<1>13. \A x \in Contents(MergeBox') : LeadsTo(x)'
  BY <1>2, <1>3, <1>6
<1>14. ASSUME NEW x \in Items, LeadsTo(x)' PROVE x \in Contents(MergeBox') \/ Known1(x.key)'
  <2>1. x \in Contents(MergeBox) \/ Known1(x.key)
    BY <1>3, <1>6, <1>14
  <2>2. Known1(x.key) => Known1(x.key)'
    <3>1. \A i \in 1..L : i \in 1..Len(Following') /\ Following'[i] = Following[i]
      BY <1>1, <1>5
    <3>. QED
      BY <3>1 DEF Known1
  <2>3. Known1(e.key)'
    <3>1. L + 1 \in 1..Len(Following')
      BY <1>1, <1>5
    <3>. QED
      BY <1>5, <3>1 DEF Known1
  <2>. QED
    BY <1>2, <2>1, <2>2, <2>3
<1>15. Distinct(SortBox') /\ Distinct(MergeBox')
  BY <1>2, <1>3, <1>11
<1>. QED
  BY <1>12, <1>13, <1>14, <1>15 DEF KeptFinding

LEMMA UniqueOK ==
  ASSUME IInv, Unique
  PROVE  IInv'
<1>. DEFINE e == Head(held[MinStream])
            d == [key |-> e.val, val |-> Len(Following)]
<1>1. /\ main = "unique" /\ AllKnown /\ Left # {} /\ min' = e /\ RemoveFrom(MinStream)
      /\ positions' = [positions EXCEPT ![ply + 2] = Append(@, Entry(e.key))]
      /\ StoreMove(e, Len(Following), "same") /\ cursor' = 1
      /\ UNCHANGED <<merging, streams, queue, finished>> /\ moves' = moves /\ ply' = ply /\ at' = at
      /\ boards' = boards
  BY DEF Unique, Following
<1>2. SortInv /\ MergeInv /\ DbTypes /\ Plies /\ Numbered /\ Kept /\ Past /\ Found /\ Progress
  BY DEF IInv, DbInv
<1>3. Stage = "unique"
  BY <1>1 DEF Stage
<1>4. Merging /\ Stage \in Finding /\ merging = "positions" /\ KeptFinding
  BY <1>2, <1>3 DEF Merging, Finding, MergeInv, Streams, Kept
<1>5. /\ MinStream \in 1..Len(streams) /\ held[MinStream] # <<>> /\ e \in Items
      /\ \A x \in Contents(MergeBox) : e.key <= x.key
  BY <1>1, <1>2, <1>4, MinLowest
<1>6. /\ MergeGood(streams', queue', held', finished', merging') /\ merging' = merging
      /\ Loses(MergeBox, MergeBox', e)
  BY <1>1, <1>2, <1>4, <1>5, MainRemoves
<1>. HIDE DEF e
<1>7. /\ Following \in Seq(PlyEntry) /\ Len(Following) \in Nat /\ Here \in Seq(PlyEntry)
      /\ Len(Here) \in Nat /\ at = Len(Here) /\ ply + 1 \in 1..Len(positions) /\ ply + 2 \in 1..Len(positions)
      /\ Len(positions) = ply + 2 /\ ply \in Nat /\ boards \in Nat /\ at \in Nat /\ ply < Depth /\ Len(Here) # 0
  BY <1>2, <1>4, PlyFacts
<1>8. /\ SortInv' /\ Stage' = "same" /\ fill' \in 0..Slots /\ d \in Items
      /\ Contents(SortBox') = Contents(SortBox) \cup {d}
      /\ Distinct(SortBox) /\ d \notin Contents(SortBox) => Distinct(SortBox')
  BY <1>1, <1>2, <1>5, <1>7, StoringMove
<1>9. LeadsTo(e)
  BY <1>4, <1>6 DEF Loses, KeptFinding
<1>10. e.key \in DOMAIN Moves /\ e.key \in Nat /\ e.val \in Nat /\ e.val < boards
  BY <1>2, <1>5, <1>7, <1>9, LeadsBelow DEF LeadsTo, Numbered, Items
<1>11. Entry(e.key) \in PlyEntry /\ Entry(e.key).pos = e.key
  BY <1>10, EntryIs
<1>. DEFINE Q == Append(Following, Entry(e.key))
<1>12. Q \in Seq(PlyEntry)
  BY <1>7, <1>11, AppendIs
<1>13. positions' = With(positions, ply + 2, Q)
  BY <1>1 DEF With, Following
<1>. HIDE DEF Q
<1>14. /\ positions' \in Seq(Seq(PlyEntry)) /\ Len(positions') = Len(positions)
       /\ \A p \in 1..ply + 1 : positions'[p] = positions[p]
       /\ positions'[ply + 2] = Q
  <2>1. positions \in Seq(Seq(PlyEntry)) /\ ply + 2 \in 1..Len(positions)
    BY <1>2, <1>7 DEF DbTypes
  <2>. DEFINE n == ply + 2
  <2>2. n \in 1..Len(positions) /\ positions' = With(positions, n, Q)
    BY <1>13, <2>1
  <2>3. \A p \in 1..ply + 1 : p \in 1..Len(positions) /\ p # n
    BY <1>7
  <2>. HIDE DEF n
  <2>4. /\ positions' \in Seq(Seq(PlyEntry)) /\ Len(positions') = Len(positions)
        /\ \A p \in 1..Len(positions) : p # n => positions'[p] = positions[p]
        /\ positions'[n] = Q
    BY <1>12, <2>1, <2>2 DEF With
  <2>. QED
    BY <2>3, <2>4 DEF n
<1>15. Following' = Q /\ Here' = Here
  BY <1>1, <1>7, <1>14 DEF Following, Here
<1>16. Following' = Append(Following, Entry(e.key))
  BY <1>15 DEF Q
<1>17. /\ Len(Following') = Len(Following) + 1 /\ \A i \in 1..Len(Following) : Following'[i] = Following[i]
       /\ Following'[Len(Following) + 1].pos = e.key
  BY <1>7, <1>11, <1>16, AppendIs
<1>18. \A x \in Contents(MergeBox), i \in 1..Len(Following) : Following[i].pos < x.key
  BY <1>2, <1>3 DEF Progress
<1>19. MergeInv'
  BY <1>4, <1>6, <1>8, MergeGoesOn DEF Merging, Finding
<1>20. DbTypes'
  <2>1. 1 \in 1..MaxStreams + 1
    BY Assumptions
  <2>. QED
    BY <1>1, <1>2, <1>5, <1>8, <1>14, <2>1 DEF DbTypes, PlyEntry
<1>21. Plies'
  <2>1. Len(moves) = ply
    BY <1>2, <1>4 DEF Plies
  <2>. QED
    BY <1>1, <1>7, <1>8, <1>14, <1>15, <2>1 DEF Plies, Finding, Writing, Over
<1>22. Numbered'
  BY <1>1, <1>2, <1>15 DEF Numbered
<1>23. KeptFinding'
  BY <1>1, <1>2, <1>3, <1>4, <1>6, <1>8, <1>15, <1>16, <1>18, UniqueKept
<1>24. Kept'
  BY <1>8, <1>23 DEF Kept, Writing
<1>25. Found'
  <2>1. /\ \A i, j \in 1..Len(Following) : i < j => Following[i].pos < Following[j].pos
        /\ \A i \in 1..Len(Following) : \E m \in 0..boards - 1 : Leads(Here, at, m, Following[i].pos)
    BY <1>2, <1>4 DEF Found
  <2>. DEFINE L == Len(Following)
  <2>2. ASSUME NEW i \in 1..L + 1, NEW j \in 1..L + 1, i < j
        PROVE  Following'[i].pos < Following'[j].pos
    <3>1. i \in 1..L
      BY <1>7, <2>2
    <3>2. CASE j \in 1..L
      BY <1>17, <2>1, <2>2, <3>1, <3>2
    <3>3. CASE j = L + 1
      BY <1>6, <1>17, <1>18, <3>1, <3>3 DEF Loses
    <3>. QED
      BY <1>7, <3>2, <3>3
  <2>3. ASSUME NEW i \in 1..L + 1
        PROVE  \E m \in 0..boards - 1 : Leads(Here, at, m, Following'[i].pos)
    <3>1. CASE i \in 1..L
      BY <1>17, <2>1, <3>1
    <3>2. CASE i = L + 1
      <4>1. Leads(Here, at, e.val, e.key) /\ e.val \in 0..boards - 1
        BY <1>7, <1>9, <1>10 DEF LeadsTo
      <4>. QED
        BY <1>17, <3>2, <4>1
    <3>. QED
      BY <1>7, <3>1, <3>2
  <2>. QED
    BY <1>1, <1>15, <1>17, <2>2, <2>3 DEF Found
<1>26. Progress'
  <2>1. Len(Following') # 0 /\ min'.key = Following'[Len(Following')].pos
    BY <1>1, <1>7, <1>17
  <2>2. Grid(MergeBox') /\ Contents(MergeBox') \subseteq Items
    BY <1>6, NextMergeItems
  <2>3. ASSUME NEW s \in Nat, NEW i \in Int, NEW k \in 1..Len(MergeBox'[<<s, i>>])
        PROVE  /\ min'.key <= MergeBox'[<<s, i>>][k].key
               /\ s < cursor' => min'.key < MergeBox'[<<s, i>>][k].key
    <3>1. <<s, i>> \in DOMAIN MergeBox'
      BY <2>2 DEF Grid
    <3>2. MergeBox'[<<s, i>>][k] \in Contents(MergeBox')
      BY <3>1, InContents
    <3>3. MergeBox'[<<s, i>>][k] \in Contents(MergeBox)
      BY <1>6, <3>2 DEF Loses
    <3>4. min'.key <= MergeBox'[<<s, i>>][k].key
      BY <1>1, <1>5, <3>3
    <3>5. ~(s < cursor')
      <4>1. AreMerge(MergeBox', streams', queue', held')
        BY <1>6, MergeBoxesAre DEF MergeGood, MergeBox
      <4>2. s \notin 1..Len(streams') => MergeBox'[<<s, i>>] = <<>>
        BY <4>1 DEF AreMerge
      <4>3. s \in 1..Len(streams')
        BY <4>2
      <4>. QED
        BY <1>1, <4>3
    <3>. QED
      BY <3>4, <3>5
  <2>. QED
    BY <1>8, <2>1, <2>3 DEF Progress, Writing
<1>27. Past'
  <2>1. SamePlies
    BY <1>1, <1>7, <1>14 DEF SamePlies
  <2>. QED
    BY <1>2, <1>3, <1>8, <1>20, <2>1, PastKept
<1>. QED
  BY <1>8, <1>19, <1>20, <1>21, <1>22, <1>24, <1>25, <1>26, <1>27 DEF IInv, DbInv

(* A step that changes neither the plies nor how far they are.             *)
LEMMA PliesStay ==
  ASSUME DbTypes, Plies, Numbered, Found, Past, positions' = positions, moves' = moves, ply' = ply,
         at' = at, boards' = boards, fill' \in 0..Slots, cursor' \in 1..MaxStreams + 1, min' \in Items,
         \/ Stage \in Finding /\ Stage' \in Finding \cup {"moves"}
         \/ Stage \in Writing /\ Stage' \in Writing
  PROVE  DbTypes' /\ Plies' /\ Numbered' /\ Found' /\ Past'
<1>1. Here' = Here /\ Following' = Following
  BY SamePly
<1>2. /\ Stage \in Finding \cup {"moves"} \cup Writing /\ Stage' \in Finding \cup {"moves"} \cup Writing
      /\ Stage # "dead" /\ Stage' # "dead"
  BY DEF Finding, Writing
<1>3. DbTypes'
  BY DEF DbTypes, PlyEntry
<1>4. Plies'
  <2>1. Stage \notin Over \cup {"create"} /\ Stage # "expand"
    BY <1>2 DEF Finding, Writing, Over
  <2>2. ply < Depth /\ Len(Here) # 0 /\ at <= Len(Here) /\ at = Len(Here)
    BY <2>1 DEF Plies
  <2>3. CASE Stage \in Finding /\ Stage' \in Finding \cup {"moves"}
    <3>1. Len(positions) = ply + 2 /\ Len(moves) = ply
      BY <2>3 DEF Plies
    <3>2. Stage' \notin {"create", "expand", "positions", "done"} \cup Writing
      BY <2>3 DEF Finding, Writing
    <3>. QED
      BY <1>1, <2>2, <2>3, <3>1, <3>2 DEF Plies
  <2>4. CASE Stage \in Writing /\ Stage' \in Writing
    <3>1. Len(positions) = ply + 2 /\ Len(moves) = ply + 1
      BY <2>4 DEF Plies
    <3>2. Stage' \notin {"create", "expand", "positions", "done", "moves"} \cup Finding
      BY <2>4 DEF Finding, Writing
    <3>. QED
      BY <1>1, <2>2, <2>4, <3>1, <3>2 DEF Plies
  <2>. QED
    BY <2>3, <2>4
<1>5. Numbered'
  BY <1>1 DEF Numbered
<1>6. Found'
  <2>1. /\ \A i, j \in 1..Len(Following) : i < j => Following[i].pos < Following[j].pos
        /\ \A i \in 1..Len(Following) : \E m \in 0..boards - 1 : Leads(Here, at, m, Following[i].pos)
    BY <1>2 DEF Found
  <2>. QED
    BY <1>1, <2>1 DEF Found
<1>7. Past'
  <2>1. ply + 1 \in 1..Len(positions)
    BY <1>2, PlyFacts
  <2>2. SamePlies
    BY <2>1 DEF SamePlies
  <2>. QED
    BY <1>2, <1>3, <2>2, PastKept
<1>. QED
  BY <1>3, <1>4, <1>5, <1>6, <1>7

(* Another move to the last position found.                                *)
LEMMA DuplicateKept ==
  ASSUME DbTypes, Plies, Numbered, Found, KeptFinding, Stage = "same",
         Len(Following) # 0, min.key = Following[Len(Following)].pos,
         NEW e, Loses(MergeBox, MergeBox', e), e.key = min.key,
         positions' = positions, ply' = ply, at' = at,
         NEW d, d = [key |-> e.val, val |-> Len(Following) - 1],
         Contents(SortBox') = Contents(SortBox) \cup {d},
         Distinct(SortBox) /\ d \notin Contents(SortBox) => Distinct(SortBox')
  PROVE  KeptFinding'
<1>1. Following \in Seq(PlyEntry) /\ Len(Following) \in Nat
  BY PlyFacts DEF Finding
<1>. DEFINE L == Len(Following)
<1>2. /\ e \in Items /\ e \in Contents(MergeBox) /\ Contents(MergeBox) = Contents(MergeBox') \cup {e}
      /\ Distinct(MergeBox) => Distinct(MergeBox') /\ e \notin Contents(MergeBox')
  BY DEF Loses
<1>3. /\ Distinct(SortBox) /\ Distinct(MergeBox)
      /\ \A x \in Items : x \in Contents(SortBox) <=> Indexed(x) /\ Turned(x) \notin Contents(MergeBox)
      /\ \A x \in Contents(MergeBox) : LeadsTo(x)
      /\ \A x \in Items : LeadsTo(x) => x \in Contents(MergeBox) \/ Known1(x.key)
  BY DEF KeptFinding
<1>4. e.key \in Nat /\ e.val \in Nat /\ e = [key |-> e.key, val |-> e.val] /\ d \in Items
      /\ d.key = e.val /\ d.val + 1 = L /\ L \in 1..L
  BY <1>1, <1>2 DEF Items
<1>5. Indexed(d) /\ Turned(d) = e
  <2>1. Leads(Here, at, e.val, e.key)
    BY <1>2, <1>3 DEF LeadsTo
  <2>. QED
    BY <1>4, <2>1 DEF Indexed, Turned
<1>6. ASSUME NEW x \in Items, Indexed(x), Turned(x) = e PROVE x = d
  <2>1. x.key = d.key
    BY <1>4, <1>6 DEF Turned
  <2>. QED
    BY <1>4, <1>5, <1>6, <2>1, IndexedOnce DEF Finding
<1>7. /\ \A x : LeadsTo(x)' <=> LeadsTo(x)
      /\ \A x : Indexed(x)' <=> Indexed(x)
      /\ \A x : Turned(x)' = Turned(x)
      /\ \A x : Known1(x)' <=> Known1(x)
  BY SamePly
<1>8. d \notin Contents(SortBox)
  BY <1>2, <1>3, <1>4, <1>5
<1>9. Distinct(SortBox') /\ Distinct(MergeBox') /\ e \notin Contents(MergeBox')
  BY <1>2, <1>3, <1>8
<1>10. ASSUME NEW x \in Items
       PROVE  x \in Contents(SortBox') <=> Indexed(x)' /\ Turned(x)' \notin Contents(MergeBox')
  <2>1. CASE x = d
    <3>1. Turned(x)' = e /\ Indexed(x)'
      BY <1>5, <1>7, <2>1
    <3>. QED
      BY <1>9, <2>1, <3>1
  <2>2. CASE x # d
    <3>1. x \in Contents(SortBox') <=> x \in Contents(SortBox)
      BY <2>2
    <3>2. Indexed(x) => (Turned(x) \in Contents(MergeBox) <=> Turned(x) \in Contents(MergeBox'))
      BY <1>2, <1>6, <2>2
    <3>. QED
      BY <1>3, <1>7, <3>1, <3>2
  <2>. QED
    BY <2>1, <2>2
<1>11. \A x \in Contents(MergeBox') : LeadsTo(x)'
  BY <1>2, <1>3, <1>7
<1>12. ASSUME NEW x \in Items, LeadsTo(x)' PROVE x \in Contents(MergeBox') \/ Known1(x.key)'
  <2>1. x \in Contents(MergeBox) \/ Known1(x.key)
    BY <1>3, <1>7, <1>12
  <2>2. Known1(e.key)
    BY <1>4 DEF Known1
  <2>. QED
    BY <1>2, <1>7, <2>1, <2>2
<1>. QED
  BY <1>9, <1>10, <1>11, <1>12 DEF KeptFinding

(* What is known of the merge while duplicates are looked for.             *)
NotBelow(B, c, m) ==
  \A s \in Nat, i \in Int : \A k \in 1..Len(B[<<s, i>>]) :
    m <= B[<<s, i>>][k].key /\ (s < c => m < B[<<s, i>>][k].key)

LEMMA RemovedNotBelow ==
  ASSUME NEW B, NEW C, RowsFrom(B, C), NEW c, NEW m, NotBelow(B, c, m)
  PROVE  NotBelow(C, c, m)
<1>1. ASSUME NEW s \in Nat, NEW i \in Int, NEW k \in 1..Len(C[<<s, i>>])
      PROVE  m <= C[<<s, i>>][k].key /\ (s < c => m < C[<<s, i>>][k].key)
  <2>0. PICK j \in Int : \E l \in 1..Len(B[<<s, j>>]) : C[<<s, i>>][k] = B[<<s, j>>][l]
    BY DEF RowsFrom
  <2>1. PICK l \in 1..Len(B[<<s, j>>]) : C[<<s, i>>][k] = B[<<s, j>>][l]
    BY <2>0
  <2>2. m <= B[<<s, j>>][l].key /\ (s < c => m < B[<<s, j>>][l].key)
    BY DEF NotBelow
  <2>. QED
    BY <2>1, <2>2
<1>. QED
  BY <1>1 DEF NotBelow

LEMMA RowSkipped ==
  ASSUME MergeInv, Merging, NEW c \in 1..Len(streams), Known(c), NEW m \in Nat,
         ~(held[c] # <<>> /\ Head(held[c]).key = m), NotBelow(MergeBox, c, m)
  PROVE  NotBelow(MergeBox, c + 1, m)
<1>1. MergeGood(streams, queue, held, finished, merging) /\ Len(streams) \in Nat
  BY GoodIs
<1>2. AreMerge(MergeBox, streams, queue, held) /\ Grid(MergeBox)
  BY <1>1, MergeBoxesAre, MergeItems DEF MergeGood, MergeBox
<1>3. ASSUME NEW i \in Int, NEW k \in 1..Len(MergeBox[<<c, i>>]) PROVE m < MergeBox[<<c, i>>][k].key
  <2>1. held[c] # <<>>
    <3>1. finished[c] => MergeBox[<<c, i>>] = <<>>
      BY <1>1, FinishedRow DEF MergeBox
    <3>. QED
      BY <1>3, <3>1 DEF Known
  <2>2. held[c] \in Seq(Items) /\ Head(held[c]) = held[c][1] /\ Head(held[c]) \in Items
        /\ 1 \in 1..Len(held[c])
    <3>1. held[c] \in Seq(Items)
      BY <1>1, GoodThread
    <3>. QED
      BY <2>1, <3>1, TailIs
  <2>3. MergeBox[<<c, 0>>] = held[c] /\ c \in Nat /\ 0 \in Int
    BY <1>2 DEF AreMerge
  <2>4. m <= Head(held[c]).key
    <3>1. 1 \in 1..Len(MergeBox[<<c, 0>>])
      BY <2>2, <2>3
    <3>2. m <= MergeBox[<<c, 0>>][1].key
      BY <2>3, <3>1 DEF NotBelow
    <3>. QED
      BY <2>2, <2>3, <3>2
  <2>5. Head(held[c]).key <= MergeBox[<<c, i>>][k].key
    BY <1>1, <2>1, HeadLowest DEF MergeBox
  <2>6. MergeBox[<<c, i>>] \in Seq(Items)
    BY <1>2, <2>3 DEF Grid
  <2>7. MergeBox[<<c, i>>][k].key \in Nat /\ Head(held[c]).key \in Nat
    <3>1. MergeBox[<<c, i>>][k] \in Items
      BY <2>6, ElementOfSeq
    <3>. QED
      BY <2>2, <3>1 DEF Items
  <2>8. Head(held[c]).key # m
    BY <2>1
  <2>. QED
    BY <2>4, <2>5, <2>7, <2>8
<1>4. ASSUME NEW s \in Nat, NEW i \in Int, NEW k \in 1..Len(MergeBox[<<s, i>>])
      PROVE  m <= MergeBox[<<s, i>>][k].key /\ (s < c + 1 => m < MergeBox[<<s, i>>][k].key)
  <2>1. m <= MergeBox[<<s, i>>][k].key /\ (s < c => m < MergeBox[<<s, i>>][k].key)
    BY DEF NotBelow
  <2>2. s = c => m < MergeBox[<<s, i>>][k].key
    BY <1>3
  <2>3. s < c + 1 => s < c \/ s = c
    OBVIOUS
  <2>. QED
    BY <2>1, <2>2, <2>3
<1>. QED
  BY <1>4 DEF NotBelow

LEMMA DuplicateOK ==
  ASSUME IInv, Duplicate
  PROVE  IInv'
<1>1. /\ main = "same" /\ cursor <= Len(held) /\ Known(cursor)
      /\ UNCHANGED <<merging, streams, queue, finished>>
      /\ positions' = positions /\ moves' = moves /\ ply' = ply /\ at' = at /\ boards' = boards
      /\ min' = min
  BY DEF Duplicate
<1>2. SortInv /\ MergeInv /\ DbTypes /\ Plies /\ Numbered /\ Kept /\ Past /\ Found /\ Progress
  BY DEF IInv, DbInv
<1>3. Stage = "same"
  BY <1>1 DEF Stage
<1>4. Merging /\ Stage \in Finding /\ merging = "positions" /\ KeptFinding
  BY <1>2, <1>3 DEF Merging, Finding, MergeInv, Streams, Kept
<1>5. /\ MergeGood(streams, queue, held, finished, merging) /\ Len(streams) \in Nat
      /\ Len(held) = Len(streams) /\ Len(streams) <= MaxStreams
  <2>1. MergeGood(streams, queue, held, finished, merging) /\ Len(streams) \in Nat
    BY <1>2, <1>4, GoodIs
  <2>2. held \in [1..Len(streams) -> Seq(Items)] /\ Len(streams) <= MaxStreams
    BY <1>2 DEF MergeInv, MergeTypes
  <2>3. Len(held) = Len(streams)
    BY <2>1, <2>2, FunctionIsSeq
  <2>. QED
    BY <2>1, <2>2, <2>3
<1>6. cursor \in 1..Len(streams) /\ min \in Items /\ min.key \in Nat /\ fill \in 0..Slots
      /\ cursor \in 1..MaxStreams + 1 /\ MaxStreams \in Nat
  <2>1. cursor \in 1..MaxStreams + 1 /\ MaxStreams \in Nat /\ min \in Items /\ fill \in 0..Slots
    BY <1>2, Assumptions DEF DbTypes
  <2>. QED
    BY <1>1, <1>5, <2>1 DEF Items
<1>7. /\ Following \in Seq(PlyEntry) /\ Len(Following) \in Nat
  BY <1>2, <1>4, PlyFacts
<1>8. /\ Len(Following) # 0 /\ min.key = Following[Len(Following)].pos
      /\ NotBelow(MergeBox, cursor, min.key)
  BY <1>2, <1>3 DEF Progress, NotBelow
<1>9. Here' = Here /\ Following' = Following
  BY <1>1, SamePly
<1>10. ASSUME SortInv', Stage' = "same", fill' \in 0..Slots, cursor' \in 1..MaxStreams + 1,
              MergeGood(streams', queue', held', finished', merging'), KeptFinding',
              NotBelow(MergeBox', cursor', min'.key)
       PROVE  IInv'
  <2>1. min' \in Items
    BY <1>1, <1>6
  <2>2. DbTypes' /\ Plies' /\ Numbered' /\ Found' /\ Past'
    BY <1>1, <1>2, <1>4, <1>10, <2>1, PliesStay DEF Finding
  <2>3. MergeInv'
    BY <1>1, <1>4, <1>10, MergeGoesOn DEF Merging, Finding
  <2>4. Kept'
    BY <1>10 DEF Kept, Writing
  <2>5. Len(Following') # 0 /\ min'.key = Following'[Len(Following')].pos
    BY <1>1, <1>8, <1>9
  <2>6. Progress'
    BY <1>10, <2>5 DEF Progress, Writing, NotBelow
  <2>. QED
    BY <1>10, <2>2, <2>3, <2>4, <2>6 DEF IInv, DbInv
<1>. DEFINE e == Head(held[cursor])
            i == Len(Following) - 1
            d == [key |-> e.val, val |-> i]
<1>11. CASE held[cursor] # <<>> /\ e.key = min.key
  <2>1. StoreMove(e, i, "same") /\ RemoveFrom(cursor) /\ cursor' = cursor
    BY <1>11 DEF Duplicate, Following
  <2>2. /\ MergeGood(streams', queue', held', finished', merging') /\ merging' = merging
        /\ Loses(MergeBox, MergeBox', e)
    BY <1>1, <1>2, <1>4, <1>6, <1>11, <2>1, MainRemoves
  <2>3. e \in Items /\ i \in Nat
    BY <1>7, <1>8, <2>2 DEF Loses
  <2>4. e.key = min.key
    BY <1>11
  <2>. HIDE DEF e
  <2>5. /\ SortInv' /\ Stage' = "same" /\ fill' \in 0..Slots /\ d \in Items
        /\ Contents(SortBox') = Contents(SortBox) \cup {d}
        /\ Distinct(SortBox) /\ d \notin Contents(SortBox) => Distinct(SortBox')
    <3>. HIDE DEF i
    <3>1. main \in {"unique", "same"}
      BY <1>1
    <3>. QED
      BY <1>2, <2>1, <2>3, <3>1, StoringMove
  <2>6. KeptFinding'
    BY <1>1, <1>2, <1>3, <1>4, <1>8, <2>2, <2>4, <2>5, DuplicateKept
  <2>7. NotBelow(MergeBox', cursor', min'.key)
    <3>1. RowsFrom(MergeBox, MergeBox')
      BY <2>2 DEF Loses
    <3>2. NotBelow(MergeBox', cursor, min.key)
      BY <1>8, <3>1, RemovedNotBelow
    <3>. QED
      BY <1>1, <2>1, <3>2
  <2>8. cursor' \in 1..MaxStreams + 1
    BY <1>6, <2>1
  <2>. QED
    BY <1>10, <2>2, <2>5, <2>6, <2>7, <2>8
<1>12. CASE ~(held[cursor] # <<>> /\ e.key = min.key)
  <2>1. cursor' = cursor + 1 /\ UNCHANGED <<main, sortVars>> /\ fill' = fill /\ held' = held
    BY <1>12 DEF Duplicate, SkipStream
  <2>2. SortInv' /\ Stage' = Stage /\ SortBox' = SortBox
    BY <1>2, <2>1, SortStays
  <2>3. MergeBox' = MergeBox /\ MergeGood(streams', queue', held', finished', merging')
    BY <1>1, <1>5, <2>1 DEF MergeBox
  <2>4. NotBelow(MergeBox', cursor', min'.key)
    <3>1. NotBelow(MergeBox, cursor + 1, min.key)
      BY <1>1, <1>2, <1>4, <1>6, <1>8, <1>12, RowSkipped
    <3>. QED
      BY <1>1, <2>1, <2>3, <3>1
  <2>5. KeptFinding'
    <3>1. /\ \A x : LeadsTo(x)' <=> LeadsTo(x)
          /\ \A x : Indexed(x)' <=> Indexed(x)
          /\ \A x : Turned(x)' = Turned(x)
          /\ \A x : Known1(x)' <=> Known1(x)
      BY <1>1, SamePly
    <3>. QED
      BY <1>4, <2>2, <2>3, <3>1 DEF KeptFinding
  <2>6. cursor' \in 1..MaxStreams + 1 /\ fill' \in 0..Slots
    BY <1>5, <1>6, <2>1
  <2>. QED
    BY <1>3, <1>10, <2>2, <2>3, <2>4, <2>5, <2>6
<1>. QED
  BY <1>11, <1>12

LEMMA NoDuplicateOK ==
  ASSUME IInv, NoDuplicate
  PROVE  IInv'
<1>1. /\ main = "same" /\ main' = "unique" /\ cursor > Len(held) /\ UNCHANGED sortVars
      /\ UNCHANGED mergeVars /\ UNCHANGED dbVars
  BY DEF NoDuplicate, Goto
<1>2. SortInv /\ MergeInv /\ DbTypes /\ Plies /\ Numbered /\ Kept /\ Past /\ Found /\ Progress
  BY DEF IInv, DbInv
<1>3. Stage = "same"
  BY <1>1 DEF Stage
<1>4. Merging /\ Stage \in Finding /\ merging = "positions" /\ KeptFinding
  BY <1>2, <1>3 DEF Merging, Finding, MergeInv, Streams, Kept
<1>5. /\ positions' = positions /\ moves' = moves /\ ply' = ply /\ at' = at /\ boards' = boards
      /\ fill' = fill /\ cursor' = cursor /\ min' = min
      /\ merging' = merging /\ streams' = streams /\ queue' = queue /\ held' = held /\ finished' = finished
  BY <1>1 DEF dbVars, mergeVars
<1>6. SortInv' /\ Stage' = "unique" /\ SortBox' = SortBox
  <2>1. files["positions"] = <<>>
    BY <1>2, <1>3 DEF SortInv, WriterControl, BeforeMerge
  <2>2. Quiet("same", "unique")
    BY <1>1, <1>5 DEF Quiet, Places
  <2>3. QuietFits("unique")
    BY <1>1, <2>1 DEF QuietFits, BeforeMerge, Writing, Over
  <2>4. Control'
    <3>1. fill < MoveSlots
      BY <1>1, <1>2, StoringIs
    <3>. QED
      BY <1>1, <1>5, <3>1 DEF Control, Writing, Over
  <2>5. /\ SortInv' /\ Stage' = "unique"
        /\ SortBox = SortBoxes(block, active, fill, writer, files[SortType])
        /\ SortBox' = SortBoxes(block, active, fill, writer, files[SortType'])
    BY <1>2, <2>2, <2>3, <2>4, QuietOK
  <2>6. SortType = "moves" /\ SortType' = "moves"
    BY <1>3, <2>5 DEF SortType
  <2>. QED
    BY <2>5, <2>6
<1>7. MergeGood(streams, queue, held, finished, merging) /\ Len(streams) \in Nat
      /\ Len(held) = Len(streams)
  <2>1. MergeGood(streams, queue, held, finished, merging) /\ Len(streams) \in Nat
    BY <1>2, <1>4, GoodIs
  <2>2. held \in [1..Len(streams) -> Seq(Items)]
    BY <1>2 DEF MergeInv, MergeTypes
  <2>3. Len(held) = Len(streams)
    BY <2>1, <2>2, FunctionIsSeq
  <2>. QED
    BY <2>1, <2>3
<1>8. MergeBox' = MergeBox /\ MergeInv'
  <2>1. MergeGood(streams', queue', held', finished', merging')
    BY <1>5, <1>7
  <2>2. MergeInv'
    BY <1>4, <1>5, <1>6, <2>1, MergeGoesOn DEF Merging, Finding
  <2>. QED
    BY <1>5, <2>2 DEF MergeBox
<1>9. DbTypes' /\ Plies' /\ Numbered' /\ Found' /\ Past'
  <2>1. fill' \in 0..Slots /\ cursor' \in 1..MaxStreams + 1 /\ min' \in Items
    BY <1>2, <1>5 DEF DbTypes
  <2>. QED
    BY <1>2, <1>4, <1>5, <1>6, <2>1, PliesStay DEF Finding
<1>10. /\ Here' = Here /\ Following' = Following
       /\ \A x : LeadsTo(x)' <=> LeadsTo(x)
       /\ \A x : Indexed(x)' <=> Indexed(x)
       /\ \A x : Turned(x)' = Turned(x)
       /\ \A x : Known1(x)' <=> Known1(x)
  BY <1>5, SamePly
<1>11. Kept'
  <2>1. KeptFinding'
    BY <1>4, <1>6, <1>8, <1>10 DEF KeptFinding
  <2>. QED
    BY <1>6, <2>1 DEF Kept, Writing
<1>12. Progress'
  <2>1. Following \in Seq(PlyEntry) /\ Len(Following) \in Nat /\ cursor \in Nat
    BY <1>2, <1>4, PlyFacts, Assumptions DEF DbTypes
  <2>2. ASSUME NEW e \in Contents(MergeBox), NEW i \in 1..Len(Following)
        PROVE  Following[i].pos < e.key
    <3>1. Grid(MergeBox) /\ e \in Items
      BY <1>7, MergeItems
    <3>2. PICK c \in DOMAIN MergeBox : \E k \in 1..Len(MergeBox[c]) : MergeBox[c][k] = e
      BY InContents
    <3>3. PICK s \in Nat, j \in Int : c = <<s, j>>
      BY <3>1, <3>2, GridIs
    <3>4. PICK k \in 1..Len(MergeBox[<<s, j>>]) : MergeBox[<<s, j>>][k] = e
      BY <3>2, <3>3
    <3>5. s \in 1..Len(streams)
      <4>1. AreMerge(MergeBox, streams, queue, held)
        BY <1>7, MergeBoxesAre DEF MergeGood, MergeBox
      <4>2. MergeBox[<<s, j>>] # <<>>
        BY <3>4
      <4>. QED
        BY <4>1, <4>2 DEF AreMerge
    <3>6. s < cursor
      BY <1>1, <1>7, <2>1, <3>5
    <3>7. min.key < e.key /\ min.key = Following[Len(Following)].pos
      BY <1>2, <1>3, <3>4, <3>6 DEF Progress
    <3>8. i = Len(Following) \/ Following[i].pos < Following[Len(Following)].pos
      <4>1. \A a, b \in 1..Len(Following) : a < b => Following[a].pos < Following[b].pos
        BY <1>2, <1>4 DEF Found
      <4>2. i = Len(Following) \/ i < Len(Following)
        BY <2>1
      <4>3. Len(Following) \in 1..Len(Following)
        BY <2>1
      <4>. QED
        BY <4>1, <4>2, <4>3
    <3>9. Following[i].pos \in Nat /\ Following[Len(Following)].pos \in Nat /\ e.key \in Nat
      <4>1. Len(Following) \in 1..Len(Following)
        BY <2>1
      <4>. QED
        BY <2>1, <3>1, <4>1, PositionIs DEF Items
    <3>. QED
      BY <3>7, <3>8, <3>9
  <2>3. \A e \in Contents(MergeBox'), i \in 1..Len(Following') : Following'[i].pos < e.key
    BY <1>8, <1>10, <2>2
  <2>. QED
    BY <1>6, <2>3 DEF Progress, Writing
<1>. QED
  BY <1>6, <1>8, <1>9, <1>11, <1>12 DEF IInv, DbInv

LEMMA LastMovesOK ==
  ASSUME IInv, LastMoves
  PROVE  IInv'
<1>1. /\ main = "unique" /\ AllKnown /\ Left = {} /\ CallSort("moves", fill, TRUE, "join") /\ fill' = 0
      /\ block' = block /\ positions' = positions /\ moves' = moves /\ ply' = ply
      /\ at' = at /\ boards' = boards /\ cursor' = cursor /\ min' = min
      /\ merging' = merging /\ streams' = streams /\ queue' = queue /\ held' = held /\ finished' = finished
  BY DEF LastMoves, mergeVars
<1>2. SortInv /\ MergeInv /\ DbTypes /\ Plies /\ Numbered /\ Kept /\ Past /\ Found /\ Progress
  BY DEF IInv, DbInv
<1>3. Stage = "unique" /\ SortType = "moves" /\ Filled = fill
  BY <1>1, <1>2, StoringIs
<1>4. Merging /\ Stage \in Finding /\ merging = "positions" /\ KeptFinding
  BY <1>2, <1>3 DEF Merging, Finding, MergeInv, Streams, Kept
<1>5. fill \in 0..Slots /\ block \in [{0, 1} -> Memory] /\ Slots \in Nat
  BY <1>2, Assumptions DEF DbTypes, SortInv, SortTypes
<1>6. /\ SortInv' /\ Stage' = "join" /\ SortType' = SortType /\ Filled' = fill
      /\ writer' = writer /\ files' = files /\ active' = active
  <2>1. BackOf(SortType, "join")
    BY <1>3 DEF BackOf, Types, Backs
  <2>2. Keeps(block, block')
    BY <1>1 DEF Keeps
  <2>3. block' \in [{0, 1} -> Memory]
    BY <1>1, <1>5
  <2>. QED
    BY <1>1, <1>2, <1>3, <1>5, <2>1, <2>2, <2>3, CallOK
<1>7. SortBox' = SortBox
  BY <1>1, <1>3, <1>6 DEF SortBox
<1>8. MergeGood(streams, queue, held, finished, merging) /\ Contents(MergeBox) = {}
  BY <1>1, <1>2, <1>4, GoodIs, AllTaken
<1>9. MergeBox' = MergeBox /\ MergeInv'
  <2>1. MergeGood(streams', queue', held', finished', merging')
    BY <1>1, <1>8
  <2>2. MergeInv'
    BY <1>1, <1>4, <1>6, <2>1, MergeGoesOn DEF Merging, Finding
  <2>. QED
    BY <1>1, <2>2 DEF MergeBox
<1>10. DbTypes' /\ Plies' /\ Numbered' /\ Found' /\ Past'
  <2>1. fill' \in 0..Slots /\ cursor' \in 1..MaxStreams + 1 /\ min' \in Items
    BY <1>1, <1>2, <1>5 DEF DbTypes
  <2>. QED
    BY <1>1, <1>2, <1>4, <1>6, <2>1, PliesStay DEF Finding
<1>11. /\ \A x : LeadsTo(x)' <=> LeadsTo(x)
       /\ \A x : Indexed(x)' <=> Indexed(x)
       /\ \A x : Turned(x)' = Turned(x)
       /\ \A x : Known1(x)' <=> Known1(x)
  BY <1>1, SamePly
<1>12. Kept'
  <2>1. KeptFinding'
    BY <1>4, <1>7, <1>9, <1>11 DEF KeptFinding
  <2>. QED
    BY <1>6, <2>1 DEF Kept, Writing
<1>13. Progress'
  BY <1>6, <1>8, <1>9 DEF Progress, Writing
<1>. QED
  BY <1>6, <1>9, <1>10, <1>12, <1>13 DEF IInv, DbInv

LEMMA FinishPositionsOK ==
  ASSUME IInv, FinishPositions
  PROVE  IInv'
<1>1. /\ main = "join" /\ main' = "moves" /\ Terminated /\ UNCHANGED sortVars
      /\ UNCHANGED mergeVars /\ UNCHANGED dbVars
  BY DEF FinishPositions, Goto
<1>2. SortInv /\ MergeInv /\ DbTypes /\ Plies /\ Numbered /\ Kept /\ Past /\ Found /\ Progress
  BY DEF IInv, DbInv
<1>3. Stage = "join"
  BY <1>1 DEF Stage
<1>4. Merging /\ Stage \in Finding /\ KeptFinding
  BY <1>2, <1>3 DEF Merging, Finding, Kept
<1>5. /\ positions' = positions /\ moves' = moves /\ ply' = ply /\ at' = at /\ boards' = boards
      /\ fill' = fill /\ cursor' = cursor /\ min' = min
      /\ merging' = merging /\ streams' = streams /\ queue' = queue /\ held' = held /\ finished' = finished
  BY <1>1 DEF dbVars, mergeVars
<1>6. SortInv' /\ Stage' = "moves" /\ SortBox' = SortBox
  <2>1. files["positions"] = <<>> /\ writer.state = "idle"
    BY <1>1, <1>2, <1>3 DEF SortInv, WriterControl, BeforeMerge
  <2>2. Quiet("join", "moves")
    BY <1>1, <1>5 DEF Quiet, Places
  <2>3. QuietFits("moves")
    BY <1>1, <2>1 DEF QuietFits, BeforeMerge, Writing, Over
  <2>4. Control'
    <3>1. fill = 0
      BY <1>1, <1>2 DEF SortInv, Control
    <3>. QED
      BY <1>1, <1>5, <3>1 DEF Control, Writing, Over
  <2>5. /\ SortInv' /\ Stage' = "moves"
        /\ SortBox = SortBoxes(block, active, fill, writer, files[SortType])
        /\ SortBox' = SortBoxes(block, active, fill, writer, files[SortType'])
    BY <1>2, <2>2, <2>3, <2>4, QuietOK
  <2>6. SortType = "moves" /\ SortType' = "moves"
    BY <1>3, <2>5 DEF SortType
  <2>. QED
    BY <2>5, <2>6
<1>7. MergeInv'
  <2>1. MergeTypes' /\ Limits'
    BY <1>2, <1>5 DEF MergeInv, MergeTypes, Limits
  <2>2. \A s \in 1..Len(streams) : streams[s].at = "done"
    <3>1. DOMAIN streams = 1..Len(streams)
      BY <1>2, <1>4, GoodIs
    <3>. QED
      BY <1>1, <3>1 DEF Terminated
  <2>3. ~Merging' /\ Stage' \notin Finding \cup Writing /\ Stage' # "next"
    BY <1>6 DEF Merging, Finding, Writing
  <2>4. Streams'
    BY <1>5, <2>2, <2>3 DEF Streams
  <2>. QED
    BY <2>1, <2>4 DEF MergeInv
<1>8. DbTypes' /\ Plies' /\ Numbered' /\ Found' /\ Past'
  <2>1. fill' \in 0..Slots /\ cursor' \in 1..MaxStreams + 1 /\ min' \in Items
    BY <1>2, <1>5 DEF DbTypes
  <2>. QED
    BY <1>2, <1>4, <1>5, <1>6, <2>1, PliesStay
<1>9. /\ \A x : LeadsTo(x)' <=> LeadsTo(x)
      /\ \A x : Indexed(x)' <=> Indexed(x)
      /\ \A x : Known1(x)' <=> Known1(x)
  BY <1>5, SamePly
<1>10. Contents(MergeBox) = {}
  BY <1>2, <1>3 DEF Progress
<1>11. Kept'
  <2>1. KeptIndexed'
    BY <1>4, <1>6, <1>9, <1>10 DEF KeptFinding, KeptIndexed
  <2>. QED
    BY <1>6, <2>1 DEF Kept, Finding, Writing
<1>12. Progress'
  <2>1. \A e \in Items : LeadsTo(e)' => Known1(e.key)'
    BY <1>4, <1>9, <1>10 DEF KeptFinding
  <2>. QED
    BY <1>6, <2>1 DEF Progress, Writing
<1>. QED
  BY <1>6, <1>7, <1>8, <1>11, <1>12 DEF IInv, DbInv

(* The moves of the ply, in order: those that are written are the first.   *)
LEMMA MoveLeads ==
  ASSUME DbTypes, Plies, Numbered, Stage \in Writing, NEW m \in Nat, m < boards
  PROVE  \E x \in Nat : Leads(Here, at, m, x)
<1>1. /\ Here \in Seq(PlyEntry) /\ Len(Here) \in Nat /\ at = Len(Here) /\ boards \in Nat
  BY PlyFacts
<1>2. NumberedIn(Here, at, boards) /\ m \in 0..boards - 1
  BY <1>1 DEF Numbered
<1>3. PICK i \in 1..at : Here[i].first <= m /\ m < Here[i].first + Here[i].moves
  BY <1>2 DEF NumberedIn
<1>4. Here[i].moves = Len(Moves[Here[i].pos])
  BY <1>2 DEF NumberedIn
<1>5. /\ Here[i].first \in Nat /\ Here[i].moves \in Nat
      /\ \A k \in 1..Len(Moves[Here[i].pos]) : Moves[Here[i].pos][k] \in Nat
  BY <1>1, PositionIs
<1>6. m - Here[i].first + 1 \in 1..Here[i].moves
  BY <1>3, <1>5
<1>7. Moves[Here[i].pos][m - Here[i].first + 1] \in Nat
  BY <1>4, <1>5, <1>6
<1>. QED
  BY <1>3, <1>7 DEF Leads

LEMMA NextIsThere ==
  ASSUME DbTypes, Plies, Numbered, Progress, KeptWriting, Stage \in Writing,
         Len(moves[ply + 1]) < boards
  PROVE  \E e \in Contents(MergeBox) : e.key = Len(moves[ply + 1])
<1>. DEFINE N == Len(moves[ply + 1])
<1>1. N \in Nat
  BY PlyFacts
<1>2. PICK x \in Nat : Leads(Here, at, N, x)
  BY <1>1, MoveLeads
<1>3. Known1(x)
  <2>. DEFINE y == [key |-> x, val |-> N]
  <2>1. y \in Items /\ y.key = x /\ y.val = N
    BY <1>1 DEF Items
  <2>. HIDE DEF y
  <2>2. LeadsTo(y)
    BY <1>2, <2>1 DEF LeadsTo
  <2>. QED
    BY <2>1, <2>2 DEF Progress
<1>4. PICK j \in 1..Len(Following) : Following[j].pos = x
  BY <1>3 DEF Known1
<1>. DEFINE e == [key |-> N, val |-> j - 1]
<1>5. e \in Items /\ e.key = N /\ e.val + 1 = j
  <2>1. Len(Following) \in Nat
    BY PlyFacts
  <2>. QED
    BY <1>1, <2>1 DEF Items
<1>. HIDE DEF e
<1>6. Indexed(e)
  BY <1>2, <1>4, <1>5 DEF Indexed
<1>7. N <= e.key
  BY <1>1, <1>5
<1>. QED
  BY <1>5, <1>6, <1>7 DEF KeptWriting

LEMMA IndexedBelow ==
  ASSUME DbTypes, Plies, Numbered, Stage \in Writing, NEW e \in Items, Indexed(e)
  PROVE  e.key < boards
<1>1. /\ Here \in Seq(PlyEntry) /\ Len(Here) \in Nat /\ at = Len(Here) /\ boards \in Nat /\ at \in Nat
      /\ at <= Len(Here)
  BY PlyFacts
<1>2. e.key \in Nat /\ Leads(Here, at, e.key, Following[e.val + 1].pos) /\ NumberedIn(Here, at, boards)
  BY DEF Items, Indexed, Numbered
<1>. QED
  BY <1>1, <1>2, LeadsBelow

(* The moves that are written lead to the positions they should lead to.   *)
MoveEntry(k) == [key |-> k - 1, val |-> moves[ply + 1][k]]
MovesIndexed == \A k \in 1..Len(moves[ply + 1]) : Indexed(MoveEntry(k))

LEMMA TakenKept ==
  ASSUME DbTypes, Plies, Numbered, Found, KeptWriting, Progress, Stage \in Writing,
         NEW e, Loses(MergeBox, MergeBox', e), e.key = Len(moves[ply + 1]),
         positions' = positions, ply' = ply, at' = at,
         moves'[ply + 1] = Append(moves[ply + 1], e.val)
  PROVE  /\ KeptWriting'
         /\ MovesIndexed'
         /\ e.key + 1 = Len(moves'[ply' + 1])
<1>. DEFINE N == Len(moves[ply + 1])
<1>1. moves[ply + 1] \in Seq(Nat) /\ N \in Nat
  BY PlyFacts
<1>2. /\ e \in Items /\ e \in Contents(MergeBox) /\ Contents(MergeBox) = Contents(MergeBox') \cup {e}
      /\ Distinct(MergeBox) => Distinct(MergeBox') /\ e \notin Contents(MergeBox')
  BY DEF Loses
<1>3. /\ Distinct(MergeBox)
      /\ \A x \in Items : x \in Contents(MergeBox) <=> Indexed(x) /\ N <= x.key
  BY DEF KeptWriting
<1>4. e.val \in Nat /\ e.key = N /\ e = [key |-> N, val |-> e.val]
  BY <1>2 DEF Items
<1>5. /\ Len(moves'[ply + 1]) = N + 1 /\ \A k \in 1..N : moves'[ply + 1][k] = moves[ply + 1][k]
      /\ moves'[ply + 1][N + 1] = e.val
  BY <1>1, <1>4, AppendIs
<1>6. \A x : Indexed(x)' <=> Indexed(x)
  BY SamePly
<1>7. Indexed(e)
  BY <1>2, <1>3
<1>8. ASSUME NEW x \in Items
      PROVE  x \in Contents(MergeBox') <=> Indexed(x)' /\ Len(moves'[ply' + 1]) <= x.key
  <2>1. x.key \in Nat
    BY DEF Items
  <2>2. x \in Contents(MergeBox') <=> x \in Contents(MergeBox) /\ x # e
    BY <1>2, <1>3
  <2>3. Indexed(x) /\ x # e => x.key # N
    BY <1>2, <1>4, <1>7, IndexedOnce
  <2>4. x = e => x.key = N
    BY <1>4
  <2>5. N + 1 <= x.key <=> N <= x.key /\ x.key # N
    BY <1>1, <2>1
  <2>6. Len(moves'[ply' + 1]) = N + 1
    BY <1>5
  <2>. QED
    BY <1>3, <1>6, <2>2, <2>3, <2>4, <2>5, <2>6
<1>9. ASSUME NEW k \in 1..Len(moves[ply + 1])', NEW y, y = MoveEntry(k)' PROVE Indexed(y)
  <2>1. y = [key |-> k - 1, val |-> moves'[ply + 1][k]] /\ k \in 1..N + 1
    BY <1>5, <1>9 DEF MoveEntry
  <2>2. CASE k \in 1..N
    <3>1. y = MoveEntry(k)
      BY <1>5, <2>1, <2>2 DEF MoveEntry
    <3>2. Indexed(MoveEntry(k))
      BY <2>2 DEF Progress, MoveEntry
    <3>. QED
      BY <3>1, <3>2
  <2>3. CASE k = N + 1
    <3>1. y = e
      BY <1>1, <1>4, <1>5, <2>1, <2>3
    <3>. QED
      BY <1>7, <3>1
  <2>. QED
    BY <1>1, <2>1, <2>2, <2>3
<1>12. MovesIndexed'
  <2>1. Here' = Here /\ Following' = Following
    BY SamePly
  <2>. QED
    BY <1>9, <2>1 DEF MovesIndexed, Indexed
<1>10. Distinct(MergeBox')
  BY <1>2, <1>3
<1>11. KeptWriting'
  BY <1>8, <1>10 DEF KeptWriting
<1>. QED
  BY <1>4, <1>5, <1>11, <1>12

LEMMA TakeMoveOK ==
  ASSUME IInv, main \in {"move", "next"}, NEW s \in 1..Len(streams), held[s] # <<>>, TakeMove(s),
         NEW e, e = Head(held[s]), e.key = Len(moves[ply + 1]),
         UNCHANGED <<sortVars, merging, streams, queue, finished, positions, ply, at, boards, fill>>
  PROVE  IInv'
<1>1. /\ min' = e /\ RemoveFrom(s) /\ cursor' = s /\ main' = "next"
      /\ moves' = [moves EXCEPT ![ply + 1] = Append(@, e.val)]
  BY DEF TakeMove
<1>2. SortInv /\ MergeInv /\ DbTypes /\ Plies /\ Numbered /\ Kept /\ Past /\ Found /\ Progress
  BY DEF IInv, DbInv
<1>3. Stage = main /\ Stage \in Writing /\ Stage \notin Finding
  BY DEF Stage, Writing, Finding
<1>4. Merging /\ merging = "moves" /\ KeptWriting
  BY <1>2, <1>3 DEF Merging, MergeInv, Streams, Kept
<1>5. /\ MergeGood(streams', queue', held', finished', merging') /\ merging' = merging
      /\ Loses(MergeBox, MergeBox', e)
  BY <1>1, <1>2, <1>4, MainRemoves
<1>6. e \in Items /\ e.val \in Nat
  BY <1>5 DEF Loses, Items
<1>7. SortInv' /\ Stage' = "next"
  <2>1. files["positions"] = <<>> /\ files["moves"] = <<>> /\ writer.state = "idle"
    BY <1>2, <1>3 DEF SortInv, WriterControl, BeforeMerge, Writing
  <2>2. Quiet(main, "next")
    BY <1>1 DEF Quiet, Places
  <2>3. QuietFits("next")
    BY <2>1 DEF QuietFits, BeforeMerge
  <2>4. fill = 0
    BY <1>2, <1>3 DEF SortInv, Control
  <2>5. Control'
    BY <1>1, <2>4 DEF Control, Writing, Over
  <2>. QED
    BY <1>2, <2>2, <2>3, <2>5, QuietOK
<1>8. /\ moves[ply + 1] \in Seq(Nat) /\ ply + 1 \in 1..Len(moves) /\ Len(moves) = ply + 1 /\ ply \in Nat
      /\ ply + 1 \in 1..Len(positions) /\ moves \in Seq(Seq(Nat)) /\ Len(positions) = ply + 2
      /\ at = Len(Here) /\ ply < Depth /\ Len(Here) # 0 /\ at \in Nat
  BY <1>2, <1>3, PlyFacts DEF DbTypes
<1>9. /\ moves' \in Seq(Seq(Nat)) /\ Len(moves') = ply + 1
      /\ \A p \in 1..ply : moves'[p] = moves[p]
      /\ moves'[ply + 1] = Append(moves[ply + 1], e.val)
  <2>. DEFINE Q == Append(moves[ply + 1], e.val)
              n == ply + 1
  <2>1. Q \in Seq(Nat)
    BY <1>6, <1>8, AppendIs
  <2>2. moves' = With(moves, n, Q)
    BY <1>1 DEF With
  <2>3. \A p \in 1..ply : p \in 1..Len(moves) /\ p # n
    BY <1>8
  <2>4. n \in 1..Len(moves) /\ Len(moves) = n
    BY <1>8
  <2>. HIDE DEF Q, n
  <2>5. /\ moves' \in Seq(Seq(Nat)) /\ Len(moves') = Len(moves)
        /\ \A p \in 1..Len(moves) : p # n => moves'[p] = moves[p]
        /\ moves'[n] = Q
    BY <1>8, <2>1, <2>2, <2>4 DEF With
  <2>6. Len(moves') = n
    BY <2>4, <2>5
  <2>. QED
    BY <2>3, <2>5, <2>6 DEF Q, n
<1>10. /\ KeptWriting'
       /\ MovesIndexed'
       /\ e.key + 1 = Len(moves'[ply' + 1])
  BY <1>2, <1>3, <1>4, <1>5, <1>9, TakenKept
<1>11. MergeInv'
  <2>1. Merging'
    BY <1>7 DEF Merging, Writing
  <2>2. cursor' \in 1..Len(streams')
    BY <1>1
  <2>. QED
    BY <1>4, <1>5, <1>7, <2>1, <2>2, MergeGoesOn DEF Finding
<1>12. /\ Here' = Here /\ Following' = Following
       /\ \A x : LeadsTo(x)' <=> LeadsTo(x)
       /\ \A x : Known1(x)' <=> Known1(x)
  BY SamePly
<1>13. DbTypes'
  <2>1. Len(streams) <= MaxStreams /\ Len(streams) \in Nat /\ MaxStreams \in Nat
    BY <1>2, <1>4, GoodIs, Assumptions DEF MergeInv, MergeTypes
  <2>2. s \in 1..MaxStreams + 1
    BY <2>1
  <2>. QED
    BY <1>1, <1>2, <1>6, <1>9, <2>2 DEF DbTypes
<1>14. Plies'
  BY <1>7, <1>8, <1>9, <1>12 DEF Plies, Finding, Writing, Over
<1>15. Numbered'
  BY <1>2, <1>12 DEF Numbered
<1>16. Kept'
  BY <1>7, <1>10 DEF Kept, Finding
<1>17. Found'
  <2>1. /\ \A i, j \in 1..Len(Following) : i < j => Following[i].pos < Following[j].pos
        /\ \A i \in 1..Len(Following) : \E m \in 0..boards - 1 : Leads(Here, at, m, Following[i].pos)
    BY <1>2, <1>3 DEF Found
  <2>. QED
    BY <1>12, <2>1 DEF Found
<1>18. Progress'
  <2>1. \A x \in Items : LeadsTo(x) => Known1(x.key)
    BY <1>2, <1>3 DEF Progress
  <2>2. \A x \in Items : LeadsTo(x)' => Known1(x.key)'
    BY <1>12, <2>1
  <2>3. min'.key + 1 = Len(moves'[ply' + 1])
    BY <1>1, <1>10
  <2>. QED
    BY <1>7, <1>10, <2>2, <2>3 DEF Progress, MovesIndexed, MoveEntry
<1>19. Past'
  <2>1. SamePlies
    BY <1>8, <1>9 DEF SamePlies
  <2>2. Stage # "dead" /\ Stage' # "dead"
    BY <1>3, <1>7 DEF Writing
  <2>. QED
    BY <1>2, <1>13, <2>1, <2>2, PastKept
<1>. QED
  BY <1>7, <1>11, <1>13, <1>14, <1>15, <1>16, <1>17, <1>18, <1>19 DEF IInv, DbInv

LEMMA FirstMoveOK ==
  ASSUME IInv, FirstMove
  PROVE  IInv'
<1>1. /\ main = "move" /\ AllKnown /\ Left # {} /\ TakeMove(MinStream)
      /\ UNCHANGED <<sortVars, merging, streams, queue, finished, positions, ply, at, boards, fill>>
  BY DEF FirstMove
<1>2. MergeInv /\ DbTypes /\ Plies /\ Numbered /\ Kept /\ Found /\ Progress
  BY DEF IInv, DbInv
<1>3. Stage = "move" /\ Stage \in Writing
  BY <1>1 DEF Stage, Writing
<1>4. Merging /\ KeptWriting
  BY <1>2, <1>3 DEF Merging, Kept
<1>. DEFINE e == Head(held[MinStream])
            N == Len(moves[ply + 1])
<1>5. /\ MinStream \in 1..Len(streams) /\ held[MinStream] # <<>> /\ e \in Items
      /\ \A x \in Contents(MergeBox) : e.key <= x.key
  BY <1>1, <1>2, <1>4, MinLowest
<1>6. Loses(MergeBox, MergeBox', e)
  <2>1. RemoveFrom(MinStream)
    BY <1>1 DEF TakeMove
  <2>. QED
    BY <1>1, <1>2, <1>4, <1>5, <2>1, MainRemoves
<1>7. e.key = N
  <2>. HIDE DEF e
  <2>1. e \in Contents(MergeBox)
    BY <1>6 DEF Loses
  <2>2. Indexed(e) /\ N <= e.key
    BY <1>4, <1>5, <2>1 DEF KeptWriting
  <2>3. e.key < boards
    BY <1>2, <1>3, <1>5, <2>2, IndexedBelow
  <2>4. N \in Nat /\ boards \in Nat /\ e.key \in Nat
    BY <1>2, <1>3, <1>5, PlyFacts DEF Items
  <2>5. N < boards
    BY <2>2, <2>3, <2>4
  <2>6. PICK x \in Contents(MergeBox) : x.key = N
    BY <1>2, <1>3, <1>4, <2>5, NextIsThere
  <2>7. e.key <= N
    BY <1>5, <2>6
  <2>. QED
    BY <2>2, <2>4, <2>7
<1>. HIDE DEF e
<1>8. e = Head(held[MinStream])
  BY DEF e
<1>. QED
  BY <1>1, <1>5, <1>7, <1>8, TakeMoveOK

LEMMA NextMoveOK ==
  ASSUME IInv, NextMove
  PROVE  IInv'
<1>1. /\ main = "next" /\ held[cursor] # <<>> /\ Head(held[cursor]).key = min.key + 1
      /\ TakeMove(cursor)
      /\ UNCHANGED <<sortVars, merging, streams, queue, finished, positions, ply, at, boards, fill>>
  BY DEF NextMove
<1>2. Stage = "next"
  BY <1>1 DEF Stage
<1>3. min.key + 1 = Len(moves[ply + 1]) /\ cursor \in 1..Len(streams)
  BY <1>2 DEF IInv, DbInv, Progress, MergeInv, Streams
<1>. DEFINE e == Head(held[cursor])
<1>4. e.key = Len(moves[ply + 1])
  BY <1>1, <1>3
<1>. HIDE DEF e
<1>5. e = Head(held[cursor])
  BY DEF e
<1>. QED
  BY <1>1, <1>3, <1>4, <1>5, TakeMoveOK

LEMMA NoNextMoveOK ==
  ASSUME IInv, NoNextMove
  PROVE  IInv'
<1>1. main = "next" /\ main' = "move" /\ UNCHANGED sortVars /\ UNCHANGED mergeVars /\ UNCHANGED dbVars
  BY DEF NoNextMove, Goto
<1>2. SortInv /\ MergeInv /\ DbTypes /\ Plies /\ Numbered /\ Kept /\ Past /\ Found /\ Progress
  BY DEF IInv, DbInv
<1>3. Stage = "next" /\ Stage \in Writing
  BY <1>1 DEF Stage, Writing
<1>4. Merging /\ merging = "moves" /\ KeptWriting
  BY <1>2, <1>3 DEF Merging, MergeInv, Streams, Kept
<1>5. /\ positions' = positions /\ moves' = moves /\ ply' = ply /\ at' = at /\ boards' = boards
      /\ fill' = fill /\ cursor' = cursor /\ min' = min
      /\ merging' = merging /\ streams' = streams /\ queue' = queue /\ held' = held /\ finished' = finished
  BY <1>1 DEF dbVars, mergeVars
<1>6. SortInv' /\ Stage' = "move"
  <2>1. files["positions"] = <<>> /\ files["moves"] = <<>> /\ writer.state = "idle"
    BY <1>1, <1>2, <1>3 DEF SortInv, WriterControl, BeforeMerge, Writing
  <2>2. Quiet("next", "move")
    BY <1>1, <1>5 DEF Quiet, Places
  <2>3. QuietFits("move")
    BY <2>1 DEF QuietFits, BeforeMerge
  <2>4. fill = 0
    BY <1>1, <1>2 DEF SortInv, Control, Writing
  <2>5. Control'
    BY <1>1, <1>5, <2>4 DEF Control, Writing, Over
  <2>. QED
    BY <1>2, <2>2, <2>3, <2>5, QuietOK
<1>7. MergeBox' = MergeBox /\ MergeInv'
  <2>1. MergeGood(streams', queue', held', finished', merging')
    BY <1>2, <1>4, <1>5, GoodIs
  <2>2. Merging'
    BY <1>6 DEF Merging, Writing
  <2>3. MergeInv'
    BY <1>4, <1>5, <1>6, <2>1, <2>2, MergeGoesOn DEF Finding
  <2>. QED
    BY <1>5, <2>3 DEF MergeBox
<1>8. DbTypes' /\ Plies' /\ Numbered' /\ Found' /\ Past'
  <2>1. fill' \in 0..Slots /\ cursor' \in 1..MaxStreams + 1 /\ min' \in Items
    BY <1>2, <1>5 DEF DbTypes
  <2>2. Stage' \in Writing
    BY <1>6 DEF Writing
  <2>. QED
    BY <1>2, <1>3, <1>5, <2>1, <2>2, PliesStay
<1>9. /\ Here' = Here /\ Following' = Following
      /\ \A x : LeadsTo(x)' <=> LeadsTo(x)
      /\ \A x : Indexed(x)' <=> Indexed(x)
      /\ \A x : Known1(x)' <=> Known1(x)
  BY <1>5, SamePly
<1>10. Kept'
  <2>1. KeptWriting'
    BY <1>4, <1>5, <1>7, <1>9 DEF KeptWriting
  <2>. QED
    BY <1>6, <2>1 DEF Kept, Finding
<1>11. Progress'
  <2>1. \A x \in Items : LeadsTo(x)' => Known1(x.key)'
    BY <1>2, <1>3, <1>9 DEF Progress
  <2>2. MovesIndexed
    BY <1>2, <1>3 DEF Progress, MovesIndexed, MoveEntry
  <2>3. MovesIndexed'
    BY <1>5, <1>9, <2>2 DEF MovesIndexed, MoveEntry, Indexed
  <2>. QED
    BY <1>6, <2>1, <2>3 DEF Progress, MovesIndexed, MoveEntry
<1>. QED
  BY <1>6, <1>7, <1>8, <1>10, <1>11 DEF IInv, DbInv

(* A ply whose moves are all written is right.                             *)
LEMMA MoveIs ==
  ASSUME NEW P \in Seq(PlyEntry), NEW n \in Nat, n <= Len(P), NEW b \in Nat, NumberedIn(P, n, b),
         NEW i \in 1..n, NEW k \in 1..P[i].moves
  PROVE  /\ P[i].first + k - 1 \in Nat /\ P[i].first + k \in 1..b
         /\ Leads(P, n, P[i].first + k - 1, Moves[P[i].pos][k])
<1>1. i \in 1..Len(P)
  OBVIOUS
<1>2. P[i].first \in Nat /\ P[i].moves \in Nat
  BY <1>1, PositionIs
<1>3. P[i].first + P[i].moves <= b
  BY NumberedFacts
<1>. DEFINE m == P[i].first + k - 1
<1>4. m \in Nat /\ P[i].first <= m /\ m < P[i].first + P[i].moves /\ m - P[i].first + 1 = k
      /\ P[i].first + k \in 1..b
  BY <1>2, <1>3
<1>. HIDE DEF m
<1>5. Leads(P, n, m, Moves[P[i].pos][k])
  BY <1>4 DEF Leads
<1>. QED
  BY <1>4, <1>5 DEF m

LEMMA IndexWithin ==
  ASSUME NEW f \in Nat, NEW n \in Nat, NEW m \in Nat, f <= m, m < f + n
  PROVE  m - f + 1 \in 1..n
OBVIOUS

LEMMA RightNow ==
  ASSUME DbTypes, Plies, Numbered, Found, Progress, Stage \in Writing,
         Len(moves[ply + 1]) = boards
  PROVE  PlyRight(ply + 1)
<1>1. /\ Here \in Seq(PlyEntry) /\ Len(Here) \in Nat /\ at = Len(Here) /\ boards \in Nat /\ at \in Nat
      /\ at <= Len(Here) /\ Following \in Seq(PlyEntry) /\ Len(Following) \in Nat
      /\ moves[ply + 1] \in Seq(Nat) /\ ply \in Nat
  BY PlyFacts
<1>2. NumberedIn(Here, at, boards)
  BY DEF Numbered
<1>3. positions[ply + 1] = Here /\ positions[ply + 1 + 1] = Following
  BY <1>1 DEF Here, Following
<1>. DEFINE p == ply + 1
<1>4. PositionsOf(p) = [i \in 1..Len(Here) |-> Here[i].pos]
      /\ PositionsOf(p + 1) = [i \in 1..Len(Following) |-> Following[i].pos]
  BY <1>3 DEF PositionsOf
<1>5. ASSUME NEW i \in 1..Len(Here), NEW k \in 1..Here[i].moves
      PROVE  Target(p, Here[i].first + k) = Moves[Here[i].pos][k]
  <2>1. /\ Here[i].first + k - 1 \in Nat /\ Here[i].first + k \in 1..boards
        /\ Leads(Here, at, Here[i].first + k - 1, Moves[Here[i].pos][k])
    BY <1>1, <1>2, MoveIs
  <2>. DEFINE m == Here[i].first + k
              y == MoveEntry(m)
  <2>2. m \in 1..Len(moves[p]) /\ m - 1 \in Nat
    BY <2>1
  <2>3. Indexed(y)
    BY <2>2 DEF Progress, MoveEntry
  <2>4. y.key = m - 1 /\ y.val = moves[p][m]
    BY DEF MoveEntry
  <2>. HIDE DEF y, m
  <2>5. moves[p][m] + 1 \in 1..Len(Following)
        /\ Leads(Here, at, m - 1, Following[moves[p][m] + 1].pos)
    BY <2>3, <2>4 DEF Indexed
  <2>6. Leads(Here, at, m - 1, Moves[Here[i].pos][k])
    <3>1. Here[i].first \in Nat /\ k \in Nat
      BY <1>1, PositionIs
    <3>2. Here[i].first + k - 1 = m - 1
      BY <3>1 DEF m
    <3>. QED
      BY <2>1, <3>2
  <2>7. Following[moves[p][m] + 1].pos = Moves[Here[i].pos][k]
    <3>. DEFINE x == Following[moves[p][m] + 1].pos
                z == Moves[Here[i].pos][k]
    <3>1. Leads(Here, at, m - 1, x) /\ Leads(Here, at, m - 1, z)
      BY <2>5, <2>6
    <3>. HIDE DEF x, z
    <3>2. x = z
      BY <1>1, <1>2, <2>2, <3>1, LeadsOnce
    <3>. QED
      BY <3>2 DEF x, z
  <2>8. m \in DOMAIN moves[p] /\ moves[p][m] + 1 \in DOMAIN positions[p + 1]
    BY <1>1, <1>3, <2>2, <2>5
  <2>9. Target(p, m) = Following[moves[p][m] + 1].pos
    BY <1>3, <2>8 DEF Target
  <2>. QED
    BY <2>7, <2>9 DEF m
<1>6. ASSUME NEW i \in 1..Len(Here) PROVE MovesOf(p, i) = Moves[Here[i].pos]
  <2>1. Here[i].moves = Len(Moves[Here[i].pos])
    BY <1>1, <1>2, NumberedFacts
  <2>2. Moves[Here[i].pos] \in Seq(DOMAIN Moves)
    BY <1>1, PositionIs
  <2>3. MovesOf(p, i) = [k \in 1..Here[i].moves |-> Target(p, Here[i].first + k)]
    BY <1>3 DEF MovesOf
  <2>4. MovesOf(p, i) = [k \in 1..Here[i].moves |-> Moves[Here[i].pos][k]]
    BY <1>5, <2>3
  <2>5. Moves[Here[i].pos] = [k \in 1..Here[i].moves |-> Moves[Here[i].pos][k]]
    BY <2>1, <2>2
  <2>. QED
    BY <2>4, <2>5
<1>7. Expansion!Lists(PositionsOf(p + 1), Expansion!Reached(PositionsOf(p)))
  <2>. DEFINE q == PositionsOf(p + 1)
              r == PositionsOf(p)
  <2>1. /\ ToSet(q) = {Following[j].pos : j \in 1..Len(Following)}
        /\ ToSet(r) = {Here[i].pos : i \in 1..Len(Here)}
        /\ Len(q) = Len(Following) /\ \A j \in 1..Len(q) : q[j] = Following[j].pos
    <3>1. q \in Seq(Nat) /\ Len(q) = Len(Following)
      <4>1. \A j \in 1..Len(Following) : Following[j].pos \in Nat
        BY <1>1, PositionIs
      <4>2. q \in [1..Len(Following) -> Nat]
        BY <1>4, <4>1
      <4>. QED
        BY <1>1, <4>2, FunctionIsSeq
    <3>. QED
      BY <1>4, <3>1 DEF ToSet
  <2>. HIDE DEF q, r
  <2>2. \A i, j \in 1..Len(q) : i < j => q[i] < q[j]
    BY <2>1 DEF Found
  <2>3. ASSUME NEW j \in 1..Len(Following)
        PROVE  \E i \in 1..Len(Here) : Following[j].pos \in ToSet(Moves[Here[i].pos])
    <3>1. PICK m \in 0..boards - 1 : Leads(Here, at, m, Following[j].pos)
      BY DEF Found
    <3>2. PICK i \in 1..at : /\ Here[i].first <= m /\ m < Here[i].first + Here[i].moves
                             /\ Following[j].pos = Moves[Here[i].pos][m - Here[i].first + 1]
      BY <3>1 DEF Leads
    <3>3. Here[i].moves = Len(Moves[Here[i].pos])
      BY <1>1, <1>2, NumberedFacts
    <3>4. Here[i].first \in Nat /\ Here[i].moves \in Nat /\ Moves[Here[i].pos] \in Seq(DOMAIN Moves)
      BY <1>1, PositionIs
    <3>5. m - Here[i].first + 1 \in 1..Here[i].moves
      <4>1. m \in Nat
        BY <1>1
      <4>. DEFINE f == Here[i].first
                  n == Here[i].moves
      <4>2. f \in Nat /\ n \in Nat /\ f <= m /\ m < f + n
        BY <3>2, <3>4
      <4>. HIDE DEF f, n
      <4>3. m - f + 1 \in 1..n
        BY <4>1, <4>2, IndexWithin
      <4>. QED
        BY <4>3 DEF f, n
    <3>6. Following[j].pos \in ToSet(Moves[Here[i].pos])
      <4>. DEFINE to == Moves[Here[i].pos]
                  k == m - Here[i].first + 1
      <4>1. k \in 1..Len(to) /\ Following[j].pos = to[k]
        BY <3>2, <3>3, <3>5
      <4>. HIDE DEF to, k
      <4>2. Following[j].pos \in ToSet(to)
        BY <4>1 DEF ToSet
      <4>. QED
        BY <4>2 DEF to
    <3>. QED
      BY <1>1, <3>6
  <2>4. ASSUME NEW i \in 1..Len(Here), NEW x \in ToSet(Moves[Here[i].pos])
        PROVE  \E j \in 1..Len(Following) : Following[j].pos = x
    <3>1. Moves[Here[i].pos] \in Seq(DOMAIN Moves) /\ Here[i].moves = Len(Moves[Here[i].pos])
      BY <1>1, <1>2, PositionIs, NumberedFacts
    <3>2. PICK k \in 1..Here[i].moves : x = Moves[Here[i].pos][k]
      BY <3>1 DEF ToSet
    <3>. DEFINE m == Here[i].first + k - 1
                y == [key |-> x, val |-> m]
    <3>3. m \in Nat /\ Leads(Here, at, m, x)
      BY <1>1, <1>2, <3>2, MoveIs
    <3>4. x \in Nat
      BY <1>1, <3>1, <3>2, PositionIs
    <3>. HIDE DEF m
    <3>5. y \in Items /\ y.key = x /\ y.val = m
      BY <3>3, <3>4 DEF Items
    <3>. HIDE DEF y
    <3>6. LeadsTo(y)
      BY <3>3, <3>5 DEF LeadsTo
    <3>. QED
      BY <3>5, <3>6 DEF Progress, Known1
  <2>5. Expansion!Reached(r) = UNION {ToSet(Moves[x]) : x \in ToSet(r)}
    BY DEF Expansion!Reached, Expansion!ToSet, ToSet
  <2>6. ASSUME NEW y
        PROVE  y \in Expansion!Reached(r) <=> \E i \in 1..Len(Here) : y \in ToSet(Moves[Here[i].pos])
    BY <2>1, <2>5
  <2>7. ASSUME NEW y PROVE y \in ToSet(q) <=> y \in Expansion!Reached(r)
    <3>1. ASSUME y \in ToSet(q) PROVE \E i \in 1..Len(Here) : y \in ToSet(Moves[Here[i].pos])
      <4>1. PICK j \in 1..Len(Following) : y = Following[j].pos
        BY <2>1, <3>1
      <4>. QED
        BY <2>3, <4>1
    <3>2. ASSUME NEW i \in 1..Len(Here), y \in ToSet(Moves[Here[i].pos]) PROVE y \in ToSet(q)
      <4>1. PICK j \in 1..Len(Following) : Following[j].pos = y
        BY <2>4, <3>2
      <4>. QED
        BY <2>1, <4>1
    <3>. QED
      BY <2>6, <3>1, <3>2
  <2>8. ToSet(q) = Expansion!Reached(r)
    BY <2>7
  <2>. QED
    BY <2>2, <2>8 DEF Expansion!Lists, Expansion!ToSet, ToSet, q, r
<1>. QED
  BY <1>3, <1>6, <1>7 DEF PlyRight

(* The moves that are written are all of them when the merge has no more.  *)
LEMMA WrittenBelow ==
  ASSUME DbTypes, Plies, Numbered, Progress, Stage \in Writing
  PROVE  Len(moves[ply + 1]) <= boards
<1>. DEFINE N == Len(moves[ply + 1])
<1>1. N \in Nat /\ boards \in Nat
  BY PlyFacts
<1>2. CASE N = 0
  BY <1>1, <1>2
<1>3. CASE N # 0
  <2>. DEFINE y == MoveEntry(N)
  <2>1. N \in 1..N
    BY <1>1, <1>3
  <2>2. Indexed(y)
    BY <2>1 DEF Progress, MoveEntry
  <2>3. moves[ply + 1] \in Seq(Nat)
    BY PlyFacts
  <2>4. y \in Items /\ y.key = N - 1
    BY <1>1, <1>3, <2>3 DEF MoveEntry, Items
  <2>. HIDE DEF y
  <2>5. y.key < boards
    BY <2>2, <2>4, IndexedBelow
  <2>. QED
    BY <1>1, <2>4, <2>5
<1>. QED
  BY <1>2, <1>3

LEMMA AllWritten ==
  ASSUME DbTypes, Plies, Numbered, Progress, KeptWriting, Stage \in Writing, Contents(MergeBox) = {}
  PROVE  Len(moves[ply + 1]) = boards
<1>1. Len(moves[ply + 1]) \in Nat /\ boards \in Nat
  BY PlyFacts
<1>2. ~(Len(moves[ply + 1]) < boards)
  BY NextIsThere
<1>3. Len(moves[ply + 1]) <= boards
  BY WrittenBelow
<1>. QED
  BY <1>1, <1>2, <1>3

LEMMA FinishPlyIs ==
  ASSUME IInv, FinishPly
  PROVE  /\ Stage = "move" /\ Stage' = main' /\ main' = (IF ply + 1 = Depth \/ boards = 0 THEN "done" ELSE "expand")
         /\ ply' = ply + 1 /\ at' = 0 /\ boards' = 0 /\ positions' = positions /\ moves' = moves
         /\ SortInv' /\ MergeInv' /\ PlyRight(ply + 1)
         /\ main' = "expand" => Contents(SortBox') = {} /\ Distinct(SortBox')
<1>1. /\ main = "move" /\ AllKnown /\ Left = {} /\ Terminated
      /\ main' = (IF ply + 1 = Depth \/ boards = 0 THEN "done" ELSE "expand")
      /\ ply' = ply + 1 /\ at' = 0 /\ boards' = 0 /\ positions' = positions /\ moves' = moves
      /\ UNCHANGED sortVars /\ UNCHANGED mergeVars /\ fill' = fill
  BY DEF FinishPly
<1>2. SortInv /\ MergeInv /\ DbTypes /\ Plies /\ Numbered /\ Kept /\ Past /\ Found /\ Progress
      /\ WriterControl /\ Control
  BY DEF IInv, DbInv, SortInv
<1>3. Stage = "move" /\ Stage \in Writing
  BY <1>1 DEF Stage, Writing
<1>4. Merging /\ KeptWriting
  BY <1>2, <1>3 DEF Merging, Kept
<1>5. writer.state = "idle" /\ files["positions"] = <<>> /\ files["moves"] = <<>> /\ fill = 0
  BY <1>1, <1>2, <1>3 DEF WriterControl, Control, BeforeMerge, Writing
<1>6. MaxMoves \in Nat /\ Slots \in Nat /\ MaxMoves <= Slots
  BY Assumptions
<1>7. main' \in {"done", "expand"}
  BY <1>1
<1>8. /\ SortInv' /\ Stage' = main'
      /\ SortBox' = SortBoxes(block, active, fill, writer, files[SortType'])
  <2>1. Quiet("move", main')
    BY <1>1, <1>7 DEF Quiet, Places
  <2>2. QuietFits(main')
    BY <1>5, <1>7 DEF QuietFits, BeforeMerge, Writing, Over
  <2>3. Control'
    BY <1>1, <1>5, <1>6, <1>7 DEF Control, Writing, Over
  <2>4. ASSUME NEW to, to = main'
        PROVE  /\ SortInv' /\ Stage' = to
               /\ SortBox' = SortBoxes(block, active, fill, writer, files[SortType'])
    BY <1>2, <2>1, <2>2, <2>3, <2>4, QuietOK
  <2>. QED
    BY <2>4
<1>9. main' = "expand" => Contents(SortBox') = {} /\ Distinct(SortBox')
  <2>1. SortOK(block, active, 0, writer, <<>>)
    <3>1. <<>> \in Seq(Seq(Items)) /\ 0 \in 0..Slots
      BY <1>6
    <3>. QED
      BY <1>2, <3>1 DEF SortOK, SortInv, SortTypes, WriterControl
  <2>2. main' = "expand" => SortType' = "positions"
    BY <1>8 DEF SortType
  <2>3. main' = "expand" => SortBox' = SortBoxes(block, active, 0, writer, <<>>)
    BY <1>5, <1>8, <2>2
  <2>. QED
    BY <1>5, <2>1, <2>3, NothingStored
<1>10. MergeInv'
  <2>1. /\ merging' = merging /\ streams' = streams /\ queue' = queue /\ held' = held
        /\ finished' = finished
    BY <1>1 DEF mergeVars
  <2>2. MergeTypes' /\ Limits'
    BY <1>2, <2>1 DEF MergeInv, MergeTypes, Limits
  <2>3. \A s \in 1..Len(streams) : streams[s].at = "done"
    <3>1. DOMAIN streams = 1..Len(streams)
      BY <1>2, <1>4, GoodIs
    <3>. QED
      BY <1>1, <3>1 DEF Terminated
  <2>4. ~Merging' /\ Stage' \notin Finding \cup Writing /\ Stage' # "next"
    BY <1>7, <1>8 DEF Merging, Finding, Writing
  <2>5. Streams'
    BY <2>1, <2>3, <2>4 DEF Streams
  <2>. QED
    BY <2>2, <2>5 DEF MergeInv
<1>11. PlyRight(ply + 1)
  <2>1. Contents(MergeBox) = {}
    BY <1>1, <1>2, <1>4, AllTaken
  <2>2. Len(moves[ply + 1]) = boards
    BY <1>2, <1>3, <1>4, <2>1, AllWritten
  <2>. QED
    BY <1>2, <1>3, <2>2, RightNow
<1>. QED
  BY <1>1, <1>3, <1>8, <1>9, <1>10, <1>11

LEMMA FinishPlyOK ==
  ASSUME IInv, FinishPly
  PROVE  IInv'
<1>1. /\ Stage = "move" /\ Stage' = main'
      /\ main' = (IF ply + 1 = Depth \/ boards = 0 THEN "done" ELSE "expand")
      /\ ply' = ply + 1 /\ at' = 0 /\ boards' = 0 /\ positions' = positions /\ moves' = moves
      /\ SortInv' /\ MergeInv' /\ PlyRight(ply + 1)
      /\ main' = "expand" => Contents(SortBox') = {} /\ Distinct(SortBox')
  BY FinishPlyIs
<1>2. fill' = fill /\ cursor' = cursor /\ min' = min
  BY DEF FinishPly
<1>3. DbTypes /\ Plies /\ Numbered /\ Kept /\ Past /\ Found /\ Progress
  BY DEF IInv, DbInv
<1>4. Stage \in Writing
  BY <1>1 DEF Writing
<1>5. /\ Following \in Seq(PlyEntry) /\ Len(Following) \in Nat /\ ply \in Nat /\ Depth \in Nat
      /\ Len(positions) = ply + 2 /\ Len(moves) = ply + 1 /\ boards \in Nat /\ ply < Depth
  BY <1>3, <1>4, PlyFacts, Assumptions
<1>6. Here' = Following
  BY <1>1, <1>5 DEF Here, Following
<1>7. DbTypes'
  <2>1. ply' \in 0..Depth /\ 0 \in Nat
    BY <1>1, <1>5
  <2>. QED
    BY <1>1, <1>2, <1>3, <2>1 DEF DbTypes, PlyEntry
<1>8. boards # 0 => Len(Following) # 0
  <2>1. ASSUME boards # 0 PROVE Len(Following) # 0
    <3>1. 0 < boards /\ 0 \in Nat
      BY <1>5, <2>1
    <3>2. PICK x \in Nat : Leads(Here, at, 0, x)
      BY <1>3, <1>4, <3>1, MoveLeads
    <3>. DEFINE y == [key |-> x, val |-> 0]
    <3>3. y \in Items /\ y.key = x /\ y.val = 0
      BY DEF Items
    <3>. HIDE DEF y
    <3>4. LeadsTo(y)
      BY <3>2, <3>3 DEF LeadsTo
    <3>5. Known1(x)
      BY <1>3, <1>4, <3>3, <3>4 DEF Progress
    <3>. QED
      BY <3>5 DEF Known1
  <2>. QED
    BY <2>1
<1>9. Plies'
  <2>1. Len(positions') = ply' + 1 /\ Len(moves') = ply'
    BY <1>1, <1>5
  <2>2. Stage' = "expand" => ply' < Depth /\ Len(Here') # 0 /\ at' <= Len(Here')
    BY <1>1, <1>5, <1>6, <1>8
  <2>3. Stage' \in {"expand", "done"}
    BY <1>1
  <2>. QED
    BY <2>1, <2>2, <2>3 DEF Plies, Finding, Writing, Over
<1>10. Numbered'
  BY <1>1 DEF Numbered, NumberedIn
<1>11. Kept'
  <2>1. \A e : ~LeadsTo(e)'
    BY <1>1 DEF LeadsTo, Leads
  <2>2. Stage' = "expand" => KeptUnsorted'
    BY <1>1, <2>1 DEF KeptUnsorted
  <2>3. Stage' \in {"expand", "done"}
    BY <1>1
  <2>. QED
    BY <2>2, <2>3 DEF Kept, Finding, Writing
<1>12. Found' /\ Progress'
  <2>1. Stage' \in {"expand", "done"}
    BY <1>1
  <2>. QED
    BY <2>1 DEF Found, Progress, Finding, Writing
<1>13. Past'
  <2>1. ASSUME NEW p PROVE PlyRight(p)' <=> PlyRight(p)
    BY <1>1 DEF PlyRight, MovesOf, Target, PositionsOf, Expansion!Reached, Expansion!Lists
  <2>2. \A p \in 1..ply : PlyRight(p)
    BY <1>1, <1>3 DEF Past
  <2>3. \A p \in 1..ply + 1 : p \in 1..ply \/ p = ply + 1
    BY <1>5
  <2>4. \A p \in 1..ply' : PlyRight(p)'
    BY <1>1, <2>1, <2>2, <2>3
  <2>5. Stage' # "dead"
    BY <1>1
  <2>. QED
    BY <2>4, <2>5 DEF Past
<1>. QED
  BY <1>1, <1>7, <1>9, <1>10, <1>11, <1>12, <1>13 DEF IInv, DbInv

(* The number of moves of a numbered ply.                                  *)
SumIn(P, N, f) == [i \in 0..N |-> IF i = 0 THEN 0 ELSE f[i - 1] + P[i].moves]

LEMMA SumOnce ==
  ASSUME NEW P, NEW N \in Nat, NEW f, NEW g, f = SumIn(P, N, f), g = SumIn(P, N, g)
  PROVE  f[N] = g[N]
<1>. DEFINE T == {n \in Nat : n <= N => f[n] = g[n]}
<1>1. 0 \in T
  BY DEF SumIn
<1>2. ASSUME NEW n \in Nat, n \in T PROVE n + 1 \in T
  <2>1. CASE n + 1 <= N
    <3>1. n + 1 \in 0..N /\ n + 1 # 0 /\ (n + 1) - 1 = n /\ n <= N
      BY <2>1
    <3>2. f[n] = g[n]
      BY <1>2, <3>1
    <3>3. f[n + 1] = f[n] + P[n + 1].moves
      BY <3>1 DEF SumIn
    <3>4. g[n + 1] = g[n] + P[n + 1].moves
      BY <3>1 DEF SumIn
    <3>5. f[n + 1] = g[n + 1]
      BY <3>2, <3>3, <3>4
    <3>. QED
      BY <3>5
  <2>2. CASE ~(n + 1 <= N)
    BY <2>2
  <2>. QED
    BY <2>1, <2>2
<1>. HIDE DEF T
<1>3. N \in T
  BY <1>1, <1>2, Induction
<1>. QED
  BY <1>3 DEF T

LEMMA TotalIs ==
  ASSUME NEW p, positions[p] \in Seq(PlyEntry), NEW b \in Nat,
         NumberedIn(positions[p], Len(positions[p]), b)
  PROVE  TotalMoves(p) = b
<1>. DEFINE P == positions[p]
            N == Len(P)
            g == [i \in 0..N |-> IF i = 0 THEN 0 ELSE P[i].first + P[i].moves]
            f == CHOOSE h : h = [i \in 0..N |-> IF i = 0 THEN 0 ELSE h[i - 1] + P[i].moves]
<1>1. P \in Seq(PlyEntry) /\ N \in Nat /\ NumberedIn(P, N, b)
  OBVIOUS
<1>2. TotalMoves(p) = f[N]
  BY DEF TotalMoves
<1>. HIDE DEF P, N
<1>3. ASSUME NEW i \in 0..N
      PROVE  g[i] = IF i = 0 THEN 0 ELSE g[i - 1] + P[i].moves
  <2>1. CASE i = 0
    BY <2>1
  <2>2. CASE i = 1
    <3>1. P[1].first = 0 /\ g[0] = 0 /\ 1 \in 1..N
      BY <1>1, <2>2 DEF NumberedIn
    <3>2. P[1].moves \in Nat
      BY <1>1, <3>1, PositionIs DEF N
    <3>3. g[i] = P[1].first + P[1].moves
      BY <2>2
    <3>. QED
      BY <2>2, <3>1, <3>2, <3>3
  <2>3. CASE i # 0 /\ i # 1
    <3>1. i - 1 \in 1..N /\ i - 1 < N /\ (i - 1) + 1 = i /\ i - 1 # 0 /\ i - 1 \in 0..N
      BY <1>1, <2>3
    <3>2. P[i].first = P[i - 1].first + P[i - 1].moves
      <4>. DEFINE j == i - 1
      <4>1. j \in 1..N /\ j < N /\ j + 1 = i
        BY <3>1
      <4>. HIDE DEF j
      <4>2. P[j + 1].first = P[j].first + P[j].moves
        BY <1>1, <4>1 DEF NumberedIn
      <4>3. P[i].first = P[j].first + P[j].moves
        BY <4>1, <4>2
      <4>. QED
        BY <4>3 DEF j
    <3>3. g[i - 1] = P[i - 1].first + P[i - 1].moves
      BY <3>1
    <3>4. g[i] = P[i].first + P[i].moves
      BY <2>3
    <3>. QED
      BY <2>3, <3>2, <3>3, <3>4
  <2>. QED
    BY <2>1, <2>2, <2>3
<1>4. g[N] = b
  <2>1. CASE N = 0
    BY <1>1, <2>1 DEF NumberedIn
  <2>2. CASE N # 0
    <3>1. b = P[N].first + P[N].moves
      BY <1>1, <2>2 DEF NumberedIn
    <3>2. g[N] = P[N].first + P[N].moves
      BY <1>1, <2>2
    <3>. QED
      BY <3>1, <3>2
  <2>. QED
    BY <2>1, <2>2
<1>5. g = SumIn(P, N, g)
  <2>1. g = [i \in 0..N |-> g[i]]
    OBVIOUS
  <2>. HIDE DEF g
  <2>2. g = [i \in 0..N |-> IF i = 0 THEN 0 ELSE g[i - 1] + P[i].moves]
    BY <1>3, <2>1
  <2>. QED
    BY <2>2 DEF SumIn
<1>. HIDE DEF g
<1>6. f = SumIn(P, N, f)
  <2>1. g = [i \in 0..N |-> IF i = 0 THEN 0 ELSE g[i - 1] + P[i].moves]
    BY <1>5 DEF SumIn
  <2>2. f = [i \in 0..N |-> IF i = 0 THEN 0 ELSE f[i - 1] + P[i].moves]
    BY <2>1
  <2>. QED
    BY <2>2 DEF SumIn
<1>. HIDE DEF f
<1>7. f[N] = g[N]
  BY <1>1, <1>5, <1>6, SumOnce
<1>. QED
  BY <1>2, <1>4, <1>7 DEF f

(* The start, and the end of the process.                                  *)
LEMMA Blank ==
  /\ NoBlocks \in [{0, 1} -> Memory] /\ Idle \in WriterRec /\ Idle.state = "idle"
  /\ NoCall \in CallRec /\ NoFiles \in [Types -> Seq(Seq(Items))]
  /\ \A t \in Types : NoFiles[t] = <<>>
  /\ (CHOOSE e \in Entries : TRUE) \in Items
<1>1. (CHOOSE e \in Entries : TRUE) \in Items
  <2>1. [key |-> Root, val |-> 0] \in Entries
    BY Assumptions DEF Entries
  <2>2. (CHOOSE e \in Entries : TRUE) \in Entries
    BY <2>1
  <2>3. Entries \subseteq Items
    BY Assumptions DEF Entries, Items
  <2>. QED
    BY <2>2, <2>3
<1>2. Slots \in Nat /\ 0 \in 0..Slots
  BY Assumptions
<1>3. NoBlocks \in [{0, 1} -> Memory]
  BY <1>1 DEF NoBlocks, Memory
<1>4. Idle \in WriterRec /\ Idle.state = "idle"
  BY <1>2 DEF Idle, WriterRec, Types
<1>5. NoCall \in CallRec
  BY <1>2 DEF NoCall, CallRec, Types
<1>6. NoFiles \in [Types -> Seq(Seq(Items))] /\ \A t \in Types : NoFiles[t] = <<>>
  BY DEF NoFiles
<1>. QED
  BY <1>1, <1>3, <1>4, <1>5, <1>6

LEMMA InitOK ==
  ASSUME Init
  PROVE  IInv
<1>1. /\ main = "create" /\ call = NoCall /\ block = NoBlocks /\ active = 0 /\ background = 0
      /\ unsorted = {} /\ writer = Idle /\ files = NoFiles
      /\ merging = "positions" /\ streams = <<>> /\ queue = <<>> /\ held = <<>> /\ finished = <<>>
      /\ positions = <<>> /\ moves = <<>> /\ ply = 0 /\ at = 0 /\ boards = 0 /\ fill = 0 /\ cursor = 1
      /\ min = CHOOSE e \in Entries : TRUE
  BY DEF Init, SortInit, MergeInit
<1>2. Stage = "create" /\ SortType = "positions"
  BY <1>1 DEF Stage, SortType
<1>3. SortTypes
  BY <1>1, Blank DEF SortTypes, Places
<1>4. Control
  BY <1>1 DEF Control
<1>5. WriterControl
  <2>1. writer.state = "idle" /\ files["positions"] = <<>> /\ files["moves"] = <<>>
    BY <1>1, Blank DEF Types
  <2>. QED
    BY <1>1, <1>2, <2>1 DEF WriterControl, WriterOK
<1>6. SortedRuns
  <2>1. writer.state = "idle" /\ \A t \in Types : Len(files[t]) = 0
    BY <1>1, Blank
  <2>. QED
    BY <1>1, <2>1 DEF SortedRuns
<1>7. MergeInv
  <2>1. <<>> \in Seq(ThreadRec) /\ Len(streams) = 0
    BY <1>1
  <2>2. /\ queue \in [1..Len(streams) -> Seq(Seq(Items))]
        /\ held \in [1..Len(streams) -> Seq(Items)]
        /\ finished \in [1..Len(streams) -> BOOLEAN]
    BY <1>1, <2>1
  <2>3. MergeTypes
    BY <1>1, <2>1, <2>2, Assumptions DEF MergeTypes, Types
  <2>4. Limits
    BY <2>1 DEF Limits
  <2>5. Streams
    BY <1>2, <2>1 DEF Streams, Merging, Finding, Writing
  <2>. QED
    BY <2>3, <2>4, <2>5 DEF MergeInv
<1>8. DbTypes
  <2>1. <<>> \in Seq(Seq(PlyEntry)) /\ <<>> \in Seq(Seq(Nat))
    OBVIOUS
  <2>2. 0 \in 0..Depth /\ 0 \in 0..Slots /\ 1 \in 1..MaxStreams + 1
    BY Assumptions
  <2>. QED
    BY <1>1, <2>1, <2>2, Blank DEF DbTypes
<1>9. Plies
  BY <1>1, <1>2 DEF Plies, Finding, Writing, Over
<1>10. Numbered
  BY <1>1 DEF Numbered, NumberedIn
<1>11. Kept /\ Found /\ Progress
  BY <1>2 DEF Kept, Found, Progress, Finding, Writing
<1>12. Past
  BY <1>1, <1>2 DEF Past
<1>. QED
  BY <1>3, <1>4, <1>5, <1>6, <1>7, <1>8, <1>9, <1>10, <1>11, <1>12 DEF IInv, SortInv, DbInv

(* Where create-db can be killed.                                          *)
LEMMA KillIs ==
  ASSUME IInv, Kill
  PROVE  /\ Stage \notin Over
         /\ Updating => Stage = "expand"
         /\ WritingMoves <=> Stage \in Writing
         /\ WritingPositions => Stage # "create"
         /\ Stage # "create" => ply + 1 \in 1..Len(positions)
         /\ Stage = "create" => ply = 0 /\ Len(moves) = 0
         /\ Len(moves) = IF Stage \in Writing THEN ply + 1 ELSE ply
         /\ positions \in Seq(Seq(PlyEntry)) /\ moves \in Seq(Seq(Nat)) /\ ply \in Nat /\ at \in Nat
         /\ Len(positions) \in Nat
<1>1. main \notin {"done", "dead"} /\ SortInv /\ DbTypes /\ Plies
  BY DEF Kill, IInv, DbInv
<1>2. main \in Places /\ call \in CallRec /\ Control
  BY <1>1 DEF SortInv, SortTypes
<1>3. main \in {"sort", "written"} => call.back \in {"expand", "positions", "same", "join"} /\ Stage = call.back
  BY <1>1, CallIs
<1>4. Stage \in {"create", "expand", "positions", "moves"} \cup Finding \cup Writing
  BY <1>1, <1>2, <1>3 DEF Stage, Places, Finding, Writing
<1>5. Updating => Stage = "expand"
  BY <1>2, <1>3 DEF Updating, Stage, Control, Calls
<1>6. positions \in Seq(Seq(PlyEntry)) /\ moves \in Seq(Seq(Nat)) /\ ply \in Nat /\ at \in Nat
      /\ Len(positions) \in Nat
  BY <1>1, PlyFacts DEF DbTypes
<1>7. Stage = "create" => positions = <<>> /\ moves = <<>> /\ ply = 0
  BY <1>1 DEF Plies
<1>8. Stage # "create" => ply + 1 \in 1..Len(positions)
  BY <1>1, <1>4, PlyFacts
<1>9. Len(moves) = IF Stage \in Writing THEN ply + 1 ELSE ply
  <2>1. CASE Stage = "create"
    <3>1. Len(moves) = 0 /\ ply = 0
      BY <1>7, <2>1
    <3>. QED
      BY <2>1, <3>1 DEF Writing
  <2>2. CASE Stage # "create"
    BY <1>1, <1>4, <2>2 DEF Plies, Finding, Writing
  <2>. QED
    BY <2>1, <2>2
<1>10. WritingMoves <=> Stage \in Writing
  BY <1>6, <1>9 DEF WritingMoves
<1>11. WritingPositions => Stage # "create"
  <2>1. Stage = "create" => Len(positions) = 0 /\ ply = 0
    BY <1>7
  <2>. QED
    BY <2>1 DEF WritingPositions
<1>12. Stage \notin Over
  BY <1>4 DEF Over, Finding, Writing
<1>. QED
  BY <1>5, <1>6, <1>7, <1>8, <1>9, <1>10, <1>11, <1>12

LEMMA UnfinishedIs ==
  ASSUME NEW p, positions[p] \in Seq(PlyEntry), NEW k \in Nat
  PROVE  /\ Unfinished(p, k) \in Seq(PlyEntry) /\ Len(Unfinished(p, k)) = Len(positions[p])
         /\ \A i \in 1..Len(positions[p]) : Unfinished(p, k)[i].pos = positions[p][i].pos
<1>. DEFINE P == positions[p]
            n == Len(P)
            U == [i \in 1..n |-> IF i <= k THEN P[i] ELSE Entry(P[i].pos)]
<1>1. P \in Seq(PlyEntry) /\ n \in Nat
  OBVIOUS
<1>2. ASSUME NEW i \in 1..n PROVE U[i] \in PlyEntry /\ U[i].pos = P[i].pos
  <2>1. P[i] \in PlyEntry
    BY <1>1, ElementOfSeq
  <2>2. P[i].pos \in DOMAIN Moves
    BY <1>1, PositionIs
  <2>3. Entry(P[i].pos) \in PlyEntry /\ Entry(P[i].pos).pos = P[i].pos
    BY <2>2, EntryIs
  <2>. QED
    BY <2>1, <2>3
<1>3. U \in [1..n -> PlyEntry]
  BY <1>2
<1>4. Unfinished(p, k) = U
  BY DEF Unfinished
<1>. HIDE DEF U, n, P
<1>5. U \in Seq(PlyEntry) /\ Len(U) = n
  BY <1>1, <1>3, FunctionIsSeq
<1>. QED
  BY <1>2, <1>4, <1>5 DEF n, P

LEMMA KillPositions ==
  ASSUME IInv, Kill
  PROVE  /\ positions' \in Seq(Seq(PlyEntry)) /\ Len(positions') = Len(positions)
         /\ \A p \in 1..ply : positions'[p] = positions[p]
         /\ Stage # "create" =>
              /\ Len(positions'[ply + 1]) = Len(positions[ply + 1])
              /\ \A i \in 1..Len(positions[ply + 1]) : positions'[ply + 1][i].pos = positions[ply + 1][i].pos
         /\ Stage \in Writing => positions' = positions
<1>1. /\ Stage \notin Over
      /\ Updating => Stage = "expand"
      /\ WritingMoves <=> Stage \in Writing
      /\ WritingPositions => Stage # "create"
      /\ Stage # "create" => ply + 1 \in 1..Len(positions)
      /\ Len(moves) = IF Stage \in Writing THEN ply + 1 ELSE ply
      /\ positions \in Seq(Seq(PlyEntry)) /\ ply \in Nat /\ at \in Nat
      /\ Len(positions) \in Nat
  BY KillIs
<1>2. positions' \in
       IF Updating THEN {[positions EXCEPT ![ply + 1] = Unfinished(ply + 1, k)] : k \in 0..at}
       ELSE IF WritingPositions
       THEN {[positions EXCEPT ![ply + 2] = Cut(@, k)] : k \in 0..Len(positions[ply + 2])}
       ELSE {positions}
  BY DEF Kill
<1>3. CASE Updating
  <2>1. Stage = "expand" /\ ply + 1 \in 1..Len(positions) /\ Stage \notin Writing
    BY <1>1, <1>3 DEF Writing
  <2>. DEFINE n == ply + 1
  <2>2. PICK k \in 0..at : positions' = [positions EXCEPT ![n] = Unfinished(n, k)]
    BY <1>2, <1>3
  <2>3. n \in 1..Len(positions) /\ positions[n] \in Seq(PlyEntry) /\ k \in Nat
    BY <1>1, <2>1, ElementOfSeq
  <2>4. \A p \in 1..ply : p \in 1..Len(positions) /\ p # n
    BY <1>1, <2>1
  <2>. DEFINE U == Unfinished(n, k)
  <2>5. /\ U \in Seq(PlyEntry) /\ Len(U) = Len(positions[n])
        /\ \A i \in 1..Len(positions[n]) : U[i].pos = positions[n][i].pos
    BY <2>3, UnfinishedIs
  <2>6. positions' = With(positions, n, U)
    BY <2>2 DEF With
  <2>. HIDE DEF n, U
  <2>7. /\ positions' \in Seq(Seq(PlyEntry)) /\ Len(positions') = Len(positions)
        /\ \A p \in 1..Len(positions) : p # n => positions'[p] = positions[p]
        /\ positions'[n] = U
    BY <1>1, <2>3, <2>5, <2>6 DEF With
  <2>8. \A p \in 1..ply : positions'[p] = positions[p]
    BY <2>4, <2>7
  <2>. QED
    BY <2>1, <2>5, <2>7, <2>8 DEF n
<1>4. CASE ~Updating /\ WritingPositions
  <2>1. Stage # "create" /\ Len(positions) = ply + 2 /\ Len(moves) = ply /\ Stage \notin Writing
    BY <1>1, <1>4 DEF WritingPositions
  <2>. DEFINE n == ply + 2
  <2>2. PICK k \in 0..Len(positions[n]) : positions' = [positions EXCEPT ![n] = Cut(positions[n], k)]
    BY <1>2, <1>4
  <2>3. n \in 1..Len(positions)
    BY <1>1, <2>1
  <2>4. positions[n] \in Seq(PlyEntry)
    BY <1>1, <2>3, ElementOfSeq
  <2>5. \A p \in 1..ply + 1 : p \in 1..Len(positions) /\ p # n
    BY <1>1, <2>1
  <2>. DEFINE U == Cut(positions[n], k)
  <2>6. U \in Seq(PlyEntry)
    BY <2>4, SubSeqIs DEF Cut
  <2>7. positions' = With(positions, n, U)
    BY <2>2 DEF With
  <2>. HIDE DEF n, U
  <2>8. /\ positions' \in Seq(Seq(PlyEntry)) /\ Len(positions') = Len(positions)
        /\ \A p \in 1..Len(positions) : p # n => positions'[p] = positions[p]
    BY <1>1, <2>3, <2>6, <2>7 DEF With
  <2>9. \A p \in 1..ply + 1 : positions'[p] = positions[p]
    BY <2>5, <2>8
  <2>10. ply + 1 \in 1..ply + 1 /\ \A p \in 1..ply : p \in 1..ply + 1
    BY <1>1
  <2>. QED
    BY <2>1, <2>8, <2>9, <2>10
<1>5. CASE ~Updating /\ ~WritingPositions
  <2>1. positions' = positions
    BY <1>2, <1>5
  <2>. QED
    BY <1>1, <2>1
<1>. QED
  BY <1>3, <1>4, <1>5

LEMMA KillMoves ==
  ASSUME IInv, Kill
  PROVE  /\ moves' \in Seq(Seq(Nat)) /\ Len(moves') = Len(moves)
         /\ \A p \in 1..ply : moves'[p] = moves[p]
         /\ Stage \in Writing => \E k \in 0..Len(moves[ply + 1]) :
              /\ Len(moves'[ply + 1]) = k
              /\ k = Len(moves[ply + 1]) => moves'[ply + 1] = moves[ply + 1]
<1>1. /\ WritingMoves <=> Stage \in Writing
      /\ Len(moves) = IF Stage \in Writing THEN ply + 1 ELSE ply
      /\ moves \in Seq(Seq(Nat)) /\ ply \in Nat
  BY KillIs
<1>2. moves' \in IF WritingMoves
                 THEN {[moves EXCEPT ![ply + 1] = Cut(@, k)] : k \in 0..Len(moves[ply + 1])}
                 ELSE {moves}
  BY DEF Kill
<1>3. CASE Stage \in Writing
  <2>. DEFINE n == ply + 1
  <2>1. PICK k \in 0..Len(moves[n]) : moves' = [moves EXCEPT ![n] = Cut(moves[n], k)]
    BY <1>1, <1>2, <1>3
  <2>2. n \in 1..Len(moves) /\ Len(moves) = n
    BY <1>1, <1>3
  <2>3. moves[n] \in Seq(Nat)
    BY <1>1, <2>2, ElementOfSeq
  <2>4. \A p \in 1..ply : p \in 1..Len(moves) /\ p # n
    BY <1>1, <2>2
  <2>. DEFINE U == Cut(moves[n], k)
  <2>5. /\ U \in Seq(Nat) /\ Len(U) = k
        /\ \A i \in 1..Len(U) : U[i] = moves[n][i]
    <3>1. /\ U \in Seq(Nat) /\ Len(U) = IF 1 <= k THEN k - 1 + 1 ELSE 0
          /\ \A i \in 1..Len(U) : U[i] = moves[n][1 + i - 1]
      BY <2>3, SubSeqIs DEF Cut
    <3>. HIDE DEF U
    <3>2. k \in Nat
      BY <2>3
    <3>3. Len(U) = k
      BY <3>1, <3>2
    <3>4. \A i \in 1..Len(U) : 1 + i - 1 = i
      BY <3>1
    <3>. QED
      BY <3>1, <3>3, <3>4
  <2>6. moves' = With(moves, n, U)
    BY <2>1 DEF With
  <2>. HIDE DEF n, U
  <2>7. /\ moves' \in Seq(Seq(Nat)) /\ Len(moves') = Len(moves)
        /\ \A p \in 1..Len(moves) : p # n => moves'[p] = moves[p]
        /\ moves'[n] = U
    BY <1>1, <2>2, <2>5, <2>6 DEF With
  <2>8. k = Len(moves[n]) => U = moves[n]
    BY <2>3, <2>5
  <2>9. \A p \in 1..ply : moves'[p] = moves[p]
    BY <2>4, <2>7
  <2>. QED
    BY <2>5, <2>7, <2>8, <2>9 DEF n
<1>4. CASE Stage \notin Writing
  <2>1. moves' = moves
    BY <1>1, <1>2, <1>4
  <2>. QED
    BY <1>1, <1>4, <2>1
<1>. QED
  BY <1>3, <1>4

LEMMA KillRight ==
  ASSUME IInv, Kill
  PROVE  \A p \in 1..ply : PlyRight(p)'
<1>1. DbTypes /\ Plies /\ Numbered /\ Past /\ Found /\ Progress
  BY DEF IInv, DbInv
<1>2. /\ Stage \notin Over
      /\ Stage # "create" => ply + 1 \in 1..Len(positions)
      /\ Stage = "create" => ply = 0 /\ Len(moves) = 0
      /\ Len(moves) = IF Stage \in Writing THEN ply + 1 ELSE ply
      /\ positions \in Seq(Seq(PlyEntry)) /\ ply \in Nat /\ Len(positions) \in Nat
  BY KillIs
<1>3. /\ positions' \in Seq(Seq(PlyEntry)) /\ Len(positions') = Len(positions)
      /\ \A p \in 1..ply : positions'[p] = positions[p]
      /\ Stage # "create" =>
           /\ Len(positions'[ply + 1]) = Len(positions[ply + 1])
           /\ \A i \in 1..Len(positions[ply + 1]) : positions'[ply + 1][i].pos = positions[ply + 1][i].pos
  BY KillPositions
<1>4. /\ Len(moves') = Len(moves)
      /\ \A p \in 1..ply : moves'[p] = moves[p]
  BY KillMoves
<1>5. ASSUME NEW p \in 1..ply PROVE PlyRight(p)'
  <2>1. Stage # "create"
    BY <1>2, <1>5
  <2>2. PlyRight(p)
    BY <1>1, <1>2 DEF Past, Over
  <2>3. p + 1 \in 1..Len(positions)
    BY <1>2, <2>1
  <2>4. positions[p + 1] \in Seq(PlyEntry) /\ positions'[p + 1] \in Seq(PlyEntry)
    BY <1>2, <1>3, <2>3, ElementOfSeq
  <2>5. /\ Len(positions'[p + 1]) = Len(positions[p + 1])
        /\ \A i \in 1..Len(positions[p + 1]) : positions'[p + 1][i].pos = positions[p + 1][i].pos
    <3>1. CASE p = ply
      BY <1>3, <2>1, <3>1
    <3>2. CASE p # ply
      <4>1. p + 1 \in 1..ply
        BY <1>2, <3>2
      <4>. QED
        BY <1>3, <4>1
    <3>. QED
      BY <3>1, <3>2
  <2>. QED
    BY <1>3, <1>4, <2>2, <2>4, <2>5, RightKept
<1>. QED
  BY <1>5

LEMMA KillShows ==
  ASSUME IInv, Kill
  PROVE  HalfPlyShows'
<1>1. DbTypes /\ Plies /\ Numbered /\ Past /\ Found /\ Progress
  BY DEF IInv, DbInv
<1>2. /\ Stage \notin Over
      /\ Stage # "create" => ply + 1 \in 1..Len(positions)
      /\ Stage = "create" => ply = 0 /\ Len(moves) = 0
      /\ Len(moves) = IF Stage \in Writing THEN ply + 1 ELSE ply
      /\ positions \in Seq(Seq(PlyEntry)) /\ ply \in Nat /\ Len(positions) \in Nat
  BY KillIs
<1>3. /\ positions' \in Seq(Seq(PlyEntry)) /\ Len(positions') = Len(positions)
      /\ Stage \in Writing => positions' = positions
  BY KillPositions
<1>4. /\ Len(moves') = Len(moves)
      /\ Stage \in Writing => \E k \in 0..Len(moves[ply + 1]) :
           /\ Len(moves'[ply + 1]) = k
           /\ k = Len(moves[ply + 1]) => moves'[ply + 1] = moves[ply + 1]
  BY KillMoves
<1>5. ASSUME NEW p \in 1..ply PROVE PlyRight(p)'
  BY KillRight
<1>6. ASSUME Stage \in Writing, NEW p, p = ply + 1, Len(moves'[p]) = TotalMoves(p)'
      PROVE  PlyRight(p)'
  <2>1. /\ Here \in Seq(PlyEntry) /\ Len(Here) \in Nat /\ at = Len(Here) /\ boards \in Nat
        /\ Len(positions) = ply + 2 /\ Len(moves[p]) \in Nat
    BY <1>1, <1>6, PlyFacts
  <2>2. positions' = positions
    BY <1>3, <1>6
  <2>3. TotalMoves(p) = boards
    <3>1. NumberedIn(positions[p], Len(positions[p]), boards)
      BY <1>1, <1>6, <2>1 DEF Numbered, Here
    <3>2. positions[p] \in Seq(PlyEntry)
      BY <1>6, <2>1 DEF Here
    <3>. QED
      BY <2>1, <3>1, <3>2, TotalIs
  <2>4. TotalMoves(p)' = TotalMoves(p)
    BY <2>2 DEF TotalMoves
  <2>5. Len(moves[p]) <= boards
    BY <1>1, <1>6, WrittenBelow
  <2>6. PICK k \in 0..Len(moves[p]) :
          /\ Len(moves'[p]) = k
          /\ k = Len(moves[p]) => moves'[p] = moves[p]
    BY <1>4, <1>6
  <2>7. k = boards /\ k <= Len(moves[p]) /\ k \in Nat
    BY <1>6, <2>1, <2>3, <2>4, <2>6
  <2>8. Len(moves[p]) = boards
    BY <2>1, <2>5, <2>7
  <2>9. moves'[p] = moves[p]
    BY <2>6, <2>7, <2>8
  <2>10. PlyRight(p)
    BY <1>1, <1>6, <2>8, RightNow
  <2>11. positions[p + 1] \in Seq(PlyEntry)
    <3>1. p + 1 \in 1..Len(positions)
      BY <1>2, <1>6, <2>1
    <3>. QED
      BY <1>2, <3>1, ElementOfSeq
  <2>. QED
    BY <2>2, <2>9, <2>10, <2>11, RightKept
<1>7. ASSUME NEW p \in 1..Len(moves'), Len(moves'[p]) = TotalMoves(p)' PROVE PlyRight(p)'
  <2>1. CASE p \in 1..ply
    BY <1>5, <2>1
  <2>2. CASE p \notin 1..ply
    <3>1. Stage \in Writing /\ p = ply + 1
      BY <1>2, <1>4, <2>2
    <3>. QED
      BY <1>6, <1>7, <3>1
  <2>. QED
    BY <2>1, <2>2
<1>. QED
  BY <1>7 DEF HalfPlyShows, PlyRight

LEMMA KillOK ==
  ASSUME IInv, Kill
  PROVE  IInv'
<1>1. /\ main' = "dead" /\ call' = NoCall /\ block' = NoBlocks /\ active' = 0 /\ background' = 0
      /\ unsorted' = {} /\ writer' = Idle /\ files' = NoFiles
      /\ merging' = "positions" /\ streams' = <<>> /\ queue' = <<>> /\ held' = <<>> /\ finished' = <<>>
      /\ ply' = ply /\ at' = 0 /\ boards' = 0 /\ fill' = 0 /\ cursor' = 1
      /\ min' = CHOOSE e \in Entries : TRUE
  BY DEF Kill, SortKilled, MergeKilled
<1>2. Stage' = "dead"
  BY <1>1 DEF Stage
<1>3. SortTypes'
  BY <1>1, Blank DEF SortTypes, Places
<1>4. Control'
  BY <1>1 DEF Control
<1>5. WriterControl'
  <2>1. writer'.state = "idle" /\ files'["positions"] = <<>> /\ files'["moves"] = <<>>
    BY <1>1, Blank DEF Types
  <2>. QED
    BY <1>1, <1>2, <2>1 DEF WriterControl, WriterOK
<1>6. SortedRuns'
  <2>1. writer'.state = "idle" /\ \A t \in Types : Len(files'[t]) = 0
    BY <1>1, Blank
  <2>. QED
    BY <1>1, <2>1 DEF SortedRuns
<1>7. MergeInv'
  <2>1. <<>> \in Seq(ThreadRec) /\ Len(streams') = 0
    BY <1>1
  <2>2. /\ queue' \in [1..Len(streams') -> Seq(Seq(Items))]
        /\ held' \in [1..Len(streams') -> Seq(Items)]
        /\ finished' \in [1..Len(streams') -> BOOLEAN]
    BY <1>1, <2>1
  <2>3. MergeTypes'
    BY <1>1, <2>1, <2>2, Assumptions DEF MergeTypes, Types
  <2>4. Limits'
    BY <2>1 DEF Limits
  <2>5. Streams'
    BY <1>2, <2>1 DEF Streams, Merging, Finding, Writing
  <2>. QED
    BY <2>3, <2>4, <2>5 DEF MergeInv
<1>8. DbTypes'
  <2>1. positions' \in Seq(Seq(PlyEntry)) /\ moves' \in Seq(Seq(Nat))
    BY KillPositions, KillMoves
  <2>2. 0 \in 0..Slots /\ 1 \in 1..MaxStreams + 1
    BY Assumptions
  <2>3. ply \in 0..Depth
    BY DEF IInv, DbInv, DbTypes
  <2>. QED
    BY <1>1, <2>1, <2>2, <2>3, Blank DEF DbTypes, PlyEntry
<1>9. Plies'
  BY <1>2 DEF Plies, Finding, Writing, Over
<1>10. Numbered'
  BY <1>1 DEF Numbered, NumberedIn
<1>11. Kept' /\ Found' /\ Progress'
  BY <1>2 DEF Kept, Found, Progress, Finding, Writing
<1>12. Past'
  <2>1. HalfPlyShows'
    BY KillShows
  <2>. QED
    BY <1>2, <2>1 DEF Past
<1>. QED
  BY <1>3, <1>4, <1>5, <1>6, <1>7, <1>8, <1>9, <1>10, <1>11, <1>12 DEF IInv, SortInv, DbInv

-----------------------------------------------------------------------------
LEMMA Initially == Init => IInv
BY InitOK

LEMMA StutterOK ==
  ASSUME IInv, UNCHANGED vars
  PROVE  IInv'
<1>1. UNCHANGED <<main, sortVars>> /\ UNCHANGED mergeVars /\ UNCHANGED dbVars /\ fill' = fill
  BY DEF vars, dbVars
<1>2. SortInv' /\ Stage' = Stage /\ SortBox' = SortBox
  BY <1>1, SortStays DEF IInv
<1>. QED
  BY <1>1, <1>2, SortFrame

LEMMA MainOK ==
  ASSUME IInv, Main
  PROVE  IInv'
<1>1. CASE Create
  BY <1>1, CreateOK
<1>2. CASE Expand
  BY <1>2, ExpandOK
<1>3. CASE LastPositions
  BY <1>3, LastPositionsOK
<1>4. CASE Swap /\ UNCHANGED <<mergeVars, dbVars>>
  BY <1>4, SwapOK
<1>5. CASE LastWritten /\ UNCHANGED <<mergeVars, dbVars>>
  BY <1>5, LastWrittenOK
<1>6. CASE OpenPositions
  BY <1>6, OpenPositionsOK
<1>7. CASE Unique
  BY <1>7, UniqueOK
<1>8. CASE Duplicate
  BY <1>8, DuplicateOK
<1>9. CASE NoDuplicate
  BY <1>9, NoDuplicateOK
<1>10. CASE LastMoves
  BY <1>10, LastMovesOK
<1>11. CASE FinishPositions
  BY <1>11, FinishPositionsOK
<1>12. CASE OpenMoves
  BY <1>12, OpenMovesOK
<1>13. CASE FirstMove
  BY <1>13, FirstMoveOK
<1>14. CASE NextMove
  BY <1>14, NextMoveOK
<1>15. CASE NoNextMove
  BY <1>15, NoNextMoveOK
<1>16. CASE FinishPly
  BY <1>16, FinishPlyOK
<1>17. ASSUME NEW s \in DOMAIN held, Look(s) PROVE IInv'
  BY <1>17, LookOK
<1>. QED
  BY <1>1, <1>2, <1>3, <1>4, <1>5, <1>6, <1>7, <1>8, <1>9, <1>10, <1>11, <1>12, <1>13, <1>14, <1>15,
     <1>16, <1>17 DEF Main

(* Every step of every thread, and the end of the process at any time.     *)
LEMMA Inductive == IInv /\ [Next]_vars => IInv'
<1>. SUFFICES ASSUME IInv, [Next]_vars PROVE IInv'
  OBVIOUS
<1>1. CASE Main
  BY <1>1, MainOK
<1>2. ASSUME NEW j \in Threads, Sorter(j) PROVE IInv'
  <2>1. SortRange(j) /\ UNCHANGED mergeVars /\ UNCHANGED dbVars
    BY <1>2 DEF Sorter
  <2>. QED
    BY <2>1, SortRangeOK
<1>3. CASE Writer
  <2>1. (Sorted \/ WriteEntry) /\ UNCHANGED mergeVars /\ UNCHANGED dbVars
    BY <1>3 DEF Writer
  <2>. QED
    BY <2>1, SortedOK, WriteEntryOK
<1>4. ASSUME NEW s \in 1..MaxStreams, Stream(s) PROVE IInv'
  BY <1>4, StreamStepOK
<1>5. CASE Kill
  BY <1>5, KillOK
<1>6. CASE Done
  BY <1>6, StutterOK DEF Done
<1>7. CASE UNCHANGED vars
  BY <1>7, StutterOK
<1>. QED
  BY <1>1, <1>2, <1>3, <1>4, <1>5, <1>6, <1>7 DEF Next

(* Wherever a position or a move is, it is there once, and what is done of *)
(* the ply is right: the invariant of create-db.                           *)
THEOREM Invariance == Spec => []IInv
BY Initially, Inductive, PTL DEF Spec

LEMMA TypesFollow ==
  ASSUME Keys = Nat, Values = Nat, IInv
  PROVE  TypeOK
<1>1. SortTypes /\ MergeTypes /\ Limits /\ DbTypes
  BY DEF IInv, SortInv, MergeInv, DbInv
<1>2. Items = Entries
  BY DEF Items, Entries
<1>3. \A b \in {0, 1} : Len(block[b]) = Slots
  <2>1. ASSUME NEW b \in {0, 1} PROVE Len(block[b]) = Slots
    <3>1. block[b] \in [1..Slots -> Items] /\ Slots \in Nat
      BY <1>1, Assumptions DEF SortTypes, Memory
    <3>. QED
      BY <3>1, FunctionIsSeq
  <2>. QED
    BY <2>1
<1>4. \A s \in DOMAIN streams : /\ streams[s].at \in {"pick", "same", "send", "done"}
                                /\ Len(streams[s].msg) <= MaxMsg
                                /\ Len(queue[s]) <= QueueSize
                                /\ finished[s] \in BOOLEAN
  <2>1. ASSUME NEW s \in DOMAIN streams
        PROVE  /\ streams[s].at \in {"pick", "same", "send", "done"}
               /\ Len(streams[s].msg) <= MaxMsg
               /\ Len(queue[s]) <= QueueSize
               /\ finished[s] \in BOOLEAN
    <3>1. s \in 1..Len(streams) /\ streams[s] \in ThreadRec
      BY <1>1, ElementOfSeq DEF MergeTypes
    <3>. QED
      BY <1>1, <3>1 DEF MergeTypes, Limits, ThreadRec
  <2>. QED
    BY <2>1
<1>5. \A p \in DOMAIN positions :
        positions[p] \in Seq([pos : DOMAIN Moves, first : Values, moves : 0..MaxMoves])
  <2>1. positions \in Seq(Seq(PlyEntry))
    BY <1>1 DEF DbTypes
  <2>2. \A p \in 1..Len(positions) : positions[p] \in Seq(PlyEntry)
    BY <2>1, ElementOfSeq
  <2>3. DOMAIN positions = 1..Len(positions)
    BY <2>1
  <2>. QED
    BY <2>2, <2>3 DEF PlyEntry
<1>6. /\ moves \in Seq(Seq(Values)) /\ ply \in 0..Depth /\ fill \in 0..Slots
      /\ cursor \in 1..MaxStreams + 1 /\ at \in Nat /\ boards \in Values /\ min \in Entries
  BY <1>1, <1>2 DEF DbTypes
<1>7. /\ main \in Places
      /\ call \in [type : Types, n : 0..Slots, last : BOOLEAN, back : Places \cup {"none"}]
      /\ active \in {0, 1} /\ background \in {0, 1} /\ unsorted \subseteq Threads
      /\ writer \in [state : {"idle", "sort", "write"}, type : Types, n : 0..Slots, from : {0, 1},
                     used : [Threads -> 0..Slots]]
  BY <1>1 DEF SortTypes, CallRec, WriterRec
<1>. QED
  BY <1>3, <1>4, <1>5, <1>6, <1>7 DEF TypeOK

(* The variables have the types they are declared with.  Keys and Values   *)
(* are what a 64-bit key and a 32-bit index stand for; that no number is   *)
(* too large for them is not in question here.                             *)
THEOREM TypeCorrect ==
  ASSUME Keys = Nat, Values = Nat
  PROVE  Spec => []TypeOK
<1>1. IInv => TypeOK
  BY TypesFollow
<1>. QED
  BY <1>1, Invariance, PTL

LEMMA ShowsFollow ==
  ASSUME IInv
  PROVE  HalfPlyShows
<1>1. DbTypes /\ Plies /\ Numbered /\ Past /\ Found /\ Progress
  BY DEF IInv, DbInv
<1>2. CASE Stage = "dead"
  BY <1>1, <1>2 DEF Past
<1>3. CASE Stage # "dead"
  <2>1. ply \in Nat /\ \A p \in 1..ply : PlyRight(p)
    BY <1>1, <1>3, PlyFacts DEF Past
  <2>2. Stage \notin Writing => Len(moves) = ply \/ Len(moves) = 0
    <3>1. CASE Stage = "create"
      <4>1. moves = <<>>
        BY <1>1, <3>1 DEF Plies
      <4>. QED
        BY <4>1
    <3>2. CASE Stage # "create" /\ Stage \notin Writing
      <4>1. Stage \in Places
        <5>1. main \in {"sort", "written"} => Stage \in {"expand", "positions", "same", "join"}
          BY CallIs DEF IInv
        <5>2. main \in Places
          BY DEF IInv, SortInv, SortTypes
        <5>3. main \notin {"sort", "written"} => Stage = main
          BY DEF Stage
        <5>. QED
          BY <5>1, <5>2, <5>3 DEF Places
      <4>2. Stage \notin {"sort", "written"}
        <5>1. main \in {"sort", "written"} => Stage \in {"expand", "positions", "same", "join"}
          BY CallIs DEF IInv
        <5>2. main \notin {"sort", "written"} => Stage = main
          BY DEF Stage
        <5>. QED
          BY <5>1, <5>2
      <4>3. Stage \in {"expand", "positions", "moves", "done"} \cup Finding
        BY <1>3, <3>2, <4>1, <4>2 DEF Places, Finding, Writing
      <4>. QED
        BY <1>1, <4>3 DEF Plies
    <3>. QED
      BY <3>1, <3>2
  <2>3. ASSUME NEW p \in 1..Len(moves), Len(moves[p]) = TotalMoves(p) PROVE PlyRight(p)
    <3>1. CASE p \in 1..ply
      BY <2>1, <3>1
    <3>2. CASE p \notin 1..ply
      <4>1. Stage \in Writing
        BY <2>1, <2>2, <2>3, <3>2
      <4>2. /\ Here \in Seq(PlyEntry) /\ at = Len(Here) /\ boards \in Nat /\ Len(moves) = ply + 1
        BY <1>1, <4>1, PlyFacts
      <4>3. p = ply + 1
        BY <2>1, <3>2, <4>2
      <4>4. NumberedIn(positions[p], Len(positions[p]), boards) /\ positions[p] \in Seq(PlyEntry)
        BY <1>1, <4>2, <4>3 DEF Numbered, Here
      <4>5. Len(moves[ply + 1]) = boards
        BY <2>3, <4>2, <4>3, <4>4, TotalIs
      <4>. QED
        BY <1>1, <4>1, <4>3, <4>5, RightNow
    <3>. QED
      BY <3>1, <3>2
  <2>. QED
    BY <2>3 DEF HalfPlyShows, PlyRight
<1>. QED
  BY <1>2, <1>3

(* Whenever create-db is killed, no ply that looks complete is wrong.      *)
THEOREM HalfPlyShowsAlways == Spec => []HalfPlyShows
<1>1. IInv => HalfPlyShows
  BY ShowsFollow
<1>. QED
  BY <1>1, Invariance, PTL

-----------------------------------------------------------------------------
(* Ply by ply, the game tree without duplicates.                           *)
PlyOf(p) == [i \in 1..Len(positions[p]) |-> [pos |-> positions[p][i].pos, moves |-> MovesOf(p, i)]]
Expanded == [p \in 1..ply |-> PlyOf(p)]
LastPly == IF positions = <<>> THEN <<Root>> ELSE PositionsOf(ply + 1)

(* Plies whose positions and moves are the same.                           *)
LEMMA SamePlyOf ==
  ASSUME NEW p, positions'[p] = positions[p], PlyRight(p), PlyRight(p)'
  PROVE  PlyOf(p)' = PlyOf(p)
<1>1. ASSUME NEW i \in 1..Len(positions[p]) PROVE MovesOf(p, i)' = MovesOf(p, i)
  <2>1. MovesOf(p, i) = Moves[positions[p][i].pos]
    BY DEF PlyRight
  <2>2. MovesOf(p, i)' = Moves[positions'[p][i].pos]
    BY DEF PlyRight
  <2>. QED
    BY <2>1, <2>2
<1>. QED
  BY <1>1 DEF PlyOf

LEMMA Stutters ==
  ASSUME ply' = ply, \A p \in 1..ply : /\ positions'[p] = positions[p] /\ PlyRight(p) /\ PlyRight(p)',
         positions # <<>>, positions' # <<>>,
         Len(positions'[ply + 1]) = Len(positions[ply + 1]),
         \A i \in 1..Len(positions[ply + 1]) : positions'[ply + 1][i].pos = positions[ply + 1][i].pos
  PROVE  Expanded' = Expanded /\ LastPly' = LastPly
<1>1. \A p \in 1..ply : PlyOf(p)' = PlyOf(p)
  BY SamePlyOf
<1>2. Expanded' = Expanded
  BY <1>1 DEF Expanded
<1>3. PositionsOf(ply + 1)' = PositionsOf(ply + 1)
  BY DEF PositionsOf
<1>. QED
  BY <1>2, <1>3 DEF LastPly

LEMMA SameAll ==
  ASSUME ply' = ply, positions' = positions, moves' = moves
  PROVE  Expanded' = Expanded /\ LastPly' = LastPly
<1>1. \A p : PlyOf(p)' = PlyOf(p)
  BY DEF PlyOf, MovesOf, Target
<1>2. Expanded' = Expanded
  BY <1>1 DEF Expanded
<1>3. PositionsOf(ply + 1)' = PositionsOf(ply + 1)
  BY DEF PositionsOf
<1>. QED
  BY <1>2, <1>3 DEF LastPly

(* A ply in the middle of which nothing of what it promises changes.       *)
LEMMA StaysSame ==
  ASSUME IInv, IInv', Stage # "dead", Stage' # "dead", ply' = ply,
         ply + 1 \in 1..Len(positions), ply + 1 \in 1..Len(positions'),
         \A p \in 1..ply : positions'[p] = positions[p],
         Len(positions'[ply + 1]) = Len(positions[ply + 1]),
         \A i \in 1..Len(positions[ply + 1]) : positions'[ply + 1][i].pos = positions[ply + 1][i].pos
  PROVE  Expanded' = Expanded /\ LastPly' = LastPly
<1>1. \A p \in 1..ply : PlyRight(p)
  BY DEF IInv, DbInv, Past
<1>2. \A p \in 1..ply : PlyRight(p)'
  <2>1. Past'
    BY DEF IInv, DbInv
  <2>. QED
    BY <2>1 DEF Past
<1>3. positions # <<>> /\ positions' # <<>>
  <2>1. 1..0 = {}
    OBVIOUS
  <2>. QED
    BY <2>1
<1>. QED
  BY <1>1, <1>2, <1>3, Stutters

LEMMA CreateShows ==
  ASSUME IInv, Create
  PROVE  Expanded' = Expanded /\ LastPly' = LastPly
<1>1. /\ main = "create" /\ positions' = <<<<Entry(Root)>>>> /\ ply' = ply
  BY DEF Create, Goto
<1>2. positions = <<>> /\ ply = 0
  BY <1>1 DEF IInv, DbInv, Plies, Stage
<1>3. Expanded' = Expanded
  BY <1>1, <1>2 DEF Expanded
<1>4. positions' # <<>> /\ positions'[1] = <<Entry(Root)>>
  BY <1>1
<1>5. LastPly' = [i \in 1..1 |-> Entry(Root).pos]
  BY <1>1, <1>2, <1>4 DEF LastPly, PositionsOf
<1>6. LastPly' = <<Root>>
  BY <1>5 DEF Entry
<1>. QED
  BY <1>2, <1>3, <1>6 DEF LastPly

LEMMA ExpandShows ==
  ASSUME IInv, IInv', Expand
  PROVE  Expanded' = Expanded /\ LastPly' = LastPly
<1>. DEFINE q == Moves[Here[at + 1].pos]
            es == ReachedFrom(q, boards)
<1>1. SortInv /\ DbTypes /\ Plies
  BY DEF IInv, DbInv
<1>2. /\ Stage = "expand" /\ ExpandsOne(Here, Here', at, boards, Len(q))
      /\ \A i \in 1..Len(Here) : Here'[i].pos = Here[i].pos
      /\ \A p \in DOMAIN positions : p # ply + 1 => positions'[p] = positions[p]
      /\ Len(positions') = Len(positions) /\ ply' = ply
  <2>. HIDE DEF q, es
  <2>1. q = Moves[Here[at + 1].pos] /\ es = ReachedFrom(q, boards)
    BY DEF q, es
  <2>. QED
    BY <1>1, <2>1, ExpandIs
<1>. HIDE DEF q, es
<1>3. Stage' = "expand"
  <2>1. \/ main' = "sort" /\ call'.back = "expand"
        \/ main' = "expand"
    BY DEF Expand, CallSort
  <2>. QED
    BY <2>1 DEF Stage
<1>4. /\ ply \in Nat /\ ply + 1 \in 1..Len(positions) /\ Len(positions) \in Nat
      /\ positions \in Seq(Seq(PlyEntry))
  BY <1>1, <1>2, PlyFacts DEF DbTypes
<1>5. \A p \in 1..ply : positions'[p] = positions[p]
  <2>1. DOMAIN positions = 1..Len(positions)
    BY <1>4
  <2>2. \A p \in 1..ply : p \in 1..Len(positions) /\ p # ply + 1
    BY <1>4
  <2>. QED
    BY <1>2, <2>1, <2>2
<1>6. Here = positions[ply + 1] /\ Here' = positions'[ply + 1]
  BY <1>2 DEF Here
<1>7. Len(Here') = Len(Here)
  BY <1>2 DEF ExpandsOne
<1>. QED
  BY <1>2, <1>3, <1>4, <1>5, <1>6, <1>7, StaysSame

LEMMA OpenPositionsShows ==
  ASSUME IInv, IInv', OpenPositions
  PROVE  Expanded' = Expanded /\ LastPly' = LastPly
<1>1. main = "positions" /\ main' = "unique" /\ positions' = Append(positions, <<>>) /\ ply' = ply
  BY DEF OpenPositions, Goto
<1>2. Stage = "positions" /\ Stage' = "unique"
  BY <1>1 DEF Stage
<1>3. DbTypes /\ Plies
  BY DEF IInv, DbInv
<1>4. /\ ply \in Nat /\ ply + 1 \in 1..Len(positions) /\ Len(positions) \in Nat
      /\ positions \in Seq(Seq(PlyEntry))
  BY <1>2, <1>3, PlyFacts DEF DbTypes
<1>5. <<>> \in Seq(PlyEntry)
  OBVIOUS
<1>6. /\ Len(positions') = Len(positions) + 1
      /\ \A p \in 1..Len(positions) : positions'[p] = positions[p]
  BY <1>1, <1>4, <1>5, AppendIs
<1>7. ply + 1 \in 1..Len(positions') /\ \A p \in 1..ply : positions'[p] = positions[p]
  BY <1>4, <1>6
<1>8. positions'[ply + 1] = positions[ply + 1]
  BY <1>4, <1>6
<1>. QED
  BY <1>1, <1>2, <1>4, <1>7, <1>8, StaysSame

LEMMA UniqueShows ==
  ASSUME IInv, IInv', Unique
  PROVE  Expanded' = Expanded /\ LastPly' = LastPly
<1>1. /\ main = "unique" /\ ply' = ply
      /\ positions' = [positions EXCEPT ![ply + 2] = Append(@, Entry(min'.key))]
      /\ StoreMove(min', Len(positions[ply + 2]), "same")
  BY DEF Unique
<1>2. Stage' = "same"
  <2>1. \/ main' = "sort" /\ call'.back = "same"
        \/ main' = "same"
    BY <1>1 DEF StoreMove, CallSort
  <2>. QED
    BY <2>1 DEF Stage
<1>3. Stage = "unique"
  BY <1>1 DEF Stage
<1>4. DbTypes /\ Plies
  BY DEF IInv, DbInv
<1>5. /\ ply \in Nat /\ ply + 1 \in 1..Len(positions) /\ ply + 2 \in 1..Len(positions)
      /\ Len(positions) \in Nat /\ positions \in Seq(Seq(PlyEntry))
  BY <1>3, <1>4, PlyFacts DEF DbTypes, Finding
<1>. DEFINE n == ply + 2
<1>6. /\ \A p \in 1..Len(positions) : p # n => positions'[p] = positions[p]
      /\ Len(positions') = Len(positions)
  <2>1. positions' = [positions EXCEPT ![n] = Append(@, Entry(min'.key))]
    BY <1>1
  <2>. HIDE DEF n
  <2>2. DOMAIN positions = 1..Len(positions) /\ DOMAIN positions' = DOMAIN positions
    BY <1>5, <2>1
  <2>3. \A p \in 1..Len(positions) : p # n => positions'[p] = positions[p]
    BY <2>1, <2>2
  <2>4. Len(positions') = Len(positions)
    BY <1>5, <2>1
  <2>. QED
    BY <2>3, <2>4
<1>7. /\ \A p \in 1..ply : positions'[p] = positions[p]
      /\ positions'[ply + 1] = positions[ply + 1]
      /\ ply + 1 \in 1..Len(positions')
  BY <1>5, <1>6
<1>. QED
  BY <1>1, <1>2, <1>3, <1>5, <1>7, StaysSame

(* The steps of the third phase.                                           *)
LEMMA WritingShows ==
  ASSUME IInv, IInv', OpenMoves \/ FirstMove \/ NextMove
  PROVE  Expanded' = Expanded /\ LastPly' = LastPly
<1>1. /\ main \in {"moves", "move", "next"} /\ main' \in {"move", "next"}
      /\ positions' = positions /\ ply' = ply
  BY DEF OpenMoves, FirstMove, NextMove, TakeMove, Goto
<1>2. Stage \in {"moves"} \cup Writing /\ Stage' # "dead" /\ Stage # "dead"
  BY <1>1 DEF Stage, Writing
<1>3. DbTypes /\ Plies
  BY DEF IInv, DbInv
<1>4. ply + 1 \in 1..Len(positions)
  BY <1>2, <1>3, PlyFacts
<1>5. ply + 1 \in 1..Len(positions')
  BY <1>1, <1>4
<1>. QED
  BY <1>1, <1>2, <1>4, <1>5, StaysSame

LEMMA KillSame ==
  ASSUME IInv, Kill
  PROVE  Expanded' = Expanded /\ LastPly' = LastPly
<1>1. Stage \notin Over /\ ply' = ply
  BY KillIs DEF Kill
<1>2. \A p \in 1..ply : PlyRight(p) /\ PlyRight(p)'
  <2>1. \A p \in 1..ply : PlyRight(p)
    BY <1>1 DEF IInv, DbInv, Past, Over
  <2>. QED
    BY <2>1, KillRight
<1>3. /\ Len(positions') = Len(positions) /\ \A p \in 1..ply : positions'[p] = positions[p]
      /\ positions \in Seq(Seq(PlyEntry)) /\ positions' \in Seq(Seq(PlyEntry))
  BY KillIs, KillPositions
<1>4. CASE Stage = "create"
  <2>1. positions = <<>> /\ ply = 0
    BY <1>4 DEF IInv, DbInv, Plies
  <2>2. Len(positions') = 0
    BY <1>3, <2>1
  <2>3. positions' = <<>>
    BY <1>3, <2>2
  <2>4. Expanded' = Expanded
    BY <1>1, <2>1 DEF Expanded
  <2>5. LastPly' = <<Root>> /\ LastPly = <<Root>>
    BY <2>1, <2>3 DEF LastPly
  <2>. QED
    BY <2>4, <2>5
<1>5. CASE Stage # "create"
  <2>1. ply + 1 \in 1..Len(positions)
    BY <1>5, KillIs
  <2>2. /\ Len(positions'[ply + 1]) = Len(positions[ply + 1])
        /\ \A i \in 1..Len(positions[ply + 1]) : positions'[ply + 1][i].pos = positions[ply + 1][i].pos
    BY <1>5, KillPositions
  <2>3. positions # <<>> /\ positions' # <<>>
    <3>1. ply + 1 \in 1..Len(positions') /\ 1..0 = {}
      BY <1>3, <2>1
    <3>. QED
      BY <2>1, <3>1
  <2>. QED
    BY <1>1, <1>2, <1>3, <2>2, <2>3, Stutters
<1>. QED
  BY <1>4, <1>5

LEMMA AppendsOne ==
  ASSUME NEW n \in Nat, NEW d, d = n + 1,
         NEW s, NEW t, s = [p \in 1..n |-> t[p]], t = [p \in 1..d |-> t[p]]
  PROVE  t = Append(s, t[d])
<1>. DEFINE S == {t[p] : p \in 1..d}
            r == Append(s, t[d])
<1>1. s \in [1..n -> S] /\ t \in [1..d -> S] /\ d \in Nat /\ t[d] \in S
  <2>1. d \in 1..d /\ d \in Nat /\ \A p \in 1..n : p \in 1..d
    OBVIOUS
  <2>2. \A p \in 1..d : t[p] \in S
    OBVIOUS
  <2>. HIDE DEF S
  <2>3. t \in [1..d -> S]
    BY <2>2
  <2>4. s \in [1..n -> S]
    BY <2>1, <2>2
  <2>. QED
    BY <2>1, <2>2, <2>3, <2>4
<1>. HIDE DEF S
<1>2. s \in Seq(S) /\ Len(s) = n /\ t \in Seq(S) /\ Len(t) = d
  BY <1>1, FunctionIsSeq
<1>3. /\ r \in Seq(S) /\ Len(r) = n + 1 /\ r[n + 1] = t[d]
      /\ \A i \in 1..n : r[i] = s[i]
  BY <1>1, <1>2, AppendIs
<1>. HIDE DEF r
<1>4. \A i \in 1..d : r[i] = t[i]
  <2>1. \A i \in 1..n : s[i] = t[i]
    OBVIOUS
  <2>2. \A i \in 1..d : i \in 1..n \/ i = n + 1
    OBVIOUS
  <2>. QED
    BY <1>3, <2>1, <2>2
<1>5. r \in [1..d -> S]
  BY <1>2, <1>3
<1>6. r = t
  BY <1>1, <1>4, <1>5
<1>. QED
  BY <1>6 DEF r

(* The end of a ply is the step of PlyExpansion.                           *)
LEMMA FinishPlyExpands ==
  ASSUME IInv, FinishPly
  PROVE  /\ Len(Expanded) < Depth /\ LastPly # <<>>
         /\ Expanded' = Append(Expanded,
              [i \in 1..Len(LastPly) |-> [pos |-> LastPly[i], moves |-> Moves[LastPly[i]]]])
         /\ Expansion!Lists(LastPly', Expansion!Reached(LastPly))
<1>1. /\ Stage = "move" /\ ply' = ply + 1 /\ positions' = positions /\ moves' = moves
      /\ PlyRight(ply + 1)
  BY FinishPlyIs
<1>2. DbTypes /\ Plies
  BY DEF IInv, DbInv
<1>3. /\ ply \in Nat /\ ply < Depth /\ Len(Here) # 0 /\ Len(Here) \in Nat /\ Here = positions[ply + 1]
      /\ Len(positions) = ply + 2 /\ positions \in Seq(Seq(PlyEntry))
  BY <1>1, <1>2, PlyFacts DEF Writing, DbTypes, Here
<1>4. positions # <<>> /\ positions' # <<>>
  BY <1>1, <1>3
<1>. DEFINE d == ply + 1
            R == [i \in 1..Len(LastPly) |-> [pos |-> LastPly[i], moves |-> Moves[LastPly[i]]]]
<1>5. LastPly = PositionsOf(d) /\ d = ply + 1 /\ PlyRight(d) /\ Here = positions[d]
  BY <1>1, <1>3, <1>4 DEF LastPly
<1>6. LastPly' = PositionsOf(d + 1)
  <2>1. LastPly' = [i \in 1..Len(positions'[ply' + 1]) |-> positions'[ply' + 1][i].pos]
    BY <1>4 DEF LastPly, PositionsOf
  <2>2. positions'[ply' + 1] = positions[d + 1]
    BY <1>1
  <2>. QED
    BY <2>1, <2>2 DEF PositionsOf
<1>. HIDE DEF d
<1>7. LastPly = [i \in 1..Len(Here) |-> Here[i].pos]
  BY <1>5 DEF PositionsOf
<1>8. Len(LastPly) = Len(Here) /\ LastPly # <<>>
  BY <1>3, <1>7
<1>9. \A i \in 1..Len(Here) : LastPly[i] = Here[i].pos
  BY <1>7
<1>10. PlyOf(d) = R
  <2>1. ASSUME NEW i \in 1..Len(Here)
        PROVE  /\ positions[d][i].pos = LastPly[i]
               /\ MovesOf(d, i) = Moves[LastPly[i]]
    BY <1>5, <1>9 DEF PlyRight
  <2>2. PlyOf(d) = [i \in 1..Len(Here) |-> [pos |-> positions[d][i].pos, moves |-> MovesOf(d, i)]]
    BY <1>5 DEF PlyOf
  <2>3. R = [i \in 1..Len(Here) |-> [pos |-> LastPly[i], moves |-> Moves[LastPly[i]]]]
    BY <1>8
  <2>. QED
    BY <2>1, <2>2, <2>3
<1>. HIDE DEF R
<1>11. Len(Expanded) = ply
  BY <1>3 DEF Expanded
<1>12. Expanded' = Append(Expanded, R)
  <2>. DEFINE t == [p \in 1..d |-> PlyOf(p)]
  <2>1. Expanded' = t
    <3>1. \A p : PlyOf(p)' = PlyOf(p)
      BY <1>1 DEF PlyOf, MovesOf, Target
    <3>2. Expanded' = [p \in 1..ply' |-> PlyOf(p)]
      BY <3>1 DEF Expanded
    <3>. QED
      BY <1>1, <1>5, <3>2
  <2>2. t[d] = R /\ t = [p \in 1..d |-> t[p]]
    BY <1>3, <1>5, <1>10
  <2>3. Expanded = [p \in 1..ply |-> t[p]]
    BY <1>3, <1>5 DEF Expanded
  <2>. HIDE DEF t
  <2>4. t = Append(Expanded, t[d])
    BY <1>3, <1>5, <2>2, <2>3, AppendsOne
  <2>. QED
    BY <2>1, <2>2, <2>4
<1>13. Expansion!Lists(LastPly', Expansion!Reached(LastPly))
  BY <1>5, <1>6 DEF PlyRight
<1>. QED
  BY <1>3, <1>8, <1>11, <1>12, <1>13 DEF R

LEMMA InitShows ==
  ASSUME Init
  PROVE  Expanded = <<>> /\ LastPly = <<Root>>
<1>1. ply = 0 /\ positions = <<>>
  BY DEF Init
<1>. QED
  BY <1>1 DEF Expanded, LastPly

LEMMA StepShows ==
  ASSUME IInv, IInv', [Next]_vars
  PROVE  \/ Expanded' = Expanded /\ LastPly' = LastPly
         \/ FinishPly
<1>. DEFINE Shown == Expanded' = Expanded /\ LastPly' = LastPly
            Apart == ply' = ply /\ positions' = positions /\ moves' = moves
<1>1. Apart => Shown
  BY SameAll
<1>2. CASE Create \/ Expand \/ OpenPositions \/ Unique \/ OpenMoves \/ FirstMove \/ NextMove
  BY <1>2, CreateShows, ExpandShows, OpenPositionsShows, UniqueShows, WritingShows
<1>3. CASE LastPositions \/ Duplicate \/ LastMoves
  <2>1. Apart
    BY <1>3 DEF LastPositions, Duplicate, LastMoves
  <2>. QED
    BY <1>1, <2>1
<1>4. CASE NoDuplicate \/ FinishPositions \/ NoNextMove
  <2>1. Apart
    BY <1>4 DEF NoDuplicate, FinishPositions, NoNextMove, dbVars
  <2>. QED
    BY <1>1, <2>1
<1>5. CASE \/ (Swap \/ LastWritten) /\ UNCHANGED <<mergeVars, dbVars>>
           \/ \E s \in DOMAIN held : Look(s)
           \/ \E j \in Threads : Sorter(j)
           \/ Writer
           \/ \E s \in 1..MaxStreams : Stream(s)
           \/ Done
           \/ UNCHANGED vars
  <2>1. UNCHANGED dbVars
    BY <1>5 DEF Look, Sorter, Writer, Stream, Done, vars
  <2>2. Apart
    BY <2>1 DEF dbVars
  <2>. QED
    BY <1>1, <2>2
<1>6. CASE Kill
  BY <1>6, KillSame
<1>. QED
  BY <1>2, <1>3, <1>4, <1>5, <1>6 DEF Next, Main

(* Whatever the threads do, and whatever the blocks, files, streams and    *)
(* messages the positions are spread over, the database grows by one ply   *)
(* of the game tree at a time, each position of a ply once and in order.   *)
THEOREM Refinement == Spec => ImplementsExpansion
<1>1. Init => Expansion!Init
  BY InitShows DEF Expansion!Init, Expanded, LastPly, PlyOf
<1>2. ASSUME IInv, IInv', [Next]_vars
      PROVE  \/ Expansion!Expand
             \/ Expanded' = Expanded /\ LastPly' = LastPly
  BY <1>2, StepShows, FinishPlyExpands DEF Expansion!Expand, Expanded, LastPly, PlyOf
<1>3. IInv /\ IInv' /\ [Next]_vars => [Expansion!Expand]_<<Expanded, LastPly>>
  BY <1>2
<1>. QED
  BY <1>1, <1>3, Invariance, PTL DEF Spec, ImplementsExpansion, Expansion!Spec, Expanded, LastPly, PlyOf
=============================================================================
