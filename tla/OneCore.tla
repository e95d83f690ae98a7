------------------------------- MODULE OneCore -------------------------------
(***************************************************************************)
(* A session of scperft, and the position it is given.                     *)
(*                                                                         *)
(* The position comes the way a database position comes: mcperft makes a   *)
(* move, packs the board into its database (stored), and exports it as     *)
(* FEN; scperft reads the FEN of a "position" command (board) and answers  *)
(* "go perft" with onecorePerft.  That counts with plain perft (ByteBoard) *)
(* or, at depth 5 or more and with caching on, over a tree of the distinct *)
(* positions of the first plies (tree), built one board at a time, counted *)
(* below its last ply and summed up ply by ply; when the tree outgrows its *)
(* tables, plain perft takes over.                                         *)
(*                                                                         *)
(* game is no part of the code: it is the position by the rules of chess,  *)
(* moved along with the stored one.                                        *)
(***************************************************************************)
EXTENDS ByteBoard

R == INSTANCE ChessRules

CONSTANT Starts

\* Where a session starts, and what bounds it: the board, the number of moves made, the
\* depths asked for after each, the settings it starts with and whether they are changed.
StartsAssumption ==
  \A s \in Starts :
    /\ s.board.rc \in brd_t /\ s.board.info \in brdCtrlInfo_t
    /\ s.moves \in Nat /\ DOMAIN s.depths = 0 .. s.moves
    /\ \A i \in DOMAIN s.depths : \A depth \in s.depths[i] : depth \in Nat \ {0}
    /\ \A o \in s.scaling : o.plies \in {0, 3, 4} /\ {o.entries, o.moves} \subseteq Nat
    /\ s.options \in BOOLEAN
ASSUME StartsAssumption

\* onecore_db_size and onecore_move_db_size, unless onecoreScalingOverride sets others.
MAX_ONECORE_BRD_MOVES == 50
MAX_ONECORE_BRD_PLIES == 4
brd_ratio == (MAX_ONECORE_BRD_MOVES * 2) \div 3
DefaultEntries == [plies \in {3, 4} |-> MAX_ONECORE_BRD_MOVES ^ 2 * brd_ratio ^ (plies - 2)]
DefaultMoves == [plies \in {3, 4} |-> MAX_ONECORE_BRD_MOVES ^ plies]

Default == [plies |-> MAX_ONECORE_BRD_PLIES, entries |-> 0, moves |-> 0]

VARIABLES
  start,    \* the start the game began with
  played,   \* how many moves were made
  game,     \* the position by the rules
  stored,   \* the position in mcperft's database: a packed board and its flags
  board,    \* brd and info of scperft's main
  scaling,  \* max_onecore_brd_plies and the two table sizes of onecoreScalingOverride
  call,     \* the call of onecorePerft under way: its state, depth and silent
  tree,     \* ocBrdDb_t
  result    \* what the last call returned and showed

vars == <<start, played, game, stored, board, scaling, call, tree, result>>

Idle == [at |-> "idle", depth |-> 0, silent |-> TRUE]
NoTree == [entry |-> <<>>, next |-> 1, moves |-> 0, full |-> FALSE, ply |-> 0, count |-> <<>>]
NoResult == [positions |-> -1]

Init ==
  /\ start \in Starts
  /\ played = 0
  /\ stored = [position |-> brdPack(start.board.rc), info |-> start.board.info]
  /\ board = start.board
  /\ game = R!Meaning(searchSetup(start.board))
  /\ scaling \in start.scaling
  /\ call = Idle /\ tree = NoTree /\ result = NoResult

(***************************************************************************)
(* mcperft's side: the child of a database position is stored, and its FEN *)
(* goes to scperft.                                                        *)
(***************************************************************************)
Stored == [rc |-> brdUnpack(stored.position), info |-> stored.info]

StoreMove ==
  /\ call = Idle /\ board = Stored
  /\ played < start.moves
  /\ \E mv \in bytebrdNextMoveGet(Stored).list :
       LET next == bytebrdUtilMoveMake(Stored, mv)
       IN /\ stored' = [position |-> brdPack(next.rc), info |-> next.info]
          /\ game' = R!Played(game, R!Play(mv.from, mv.to, TypeOf(mv.promoted)))
  /\ played' = played + 1 /\ result' = NoResult
  /\ UNCHANGED <<start, board, scaling, call, tree>>

PositionFen ==
  /\ call = Idle /\ board # Stored
  /\ board' = brdutilFenToBrdConvert(brdutilBrdToFenConvert(Stored))
  /\ UNCHANGED <<start, played, game, stored, scaling, call, tree, result>>

\* "setoption name CacheEnable": on means four plies and the default tables.
CacheEnable(on) ==
  /\ call = Idle /\ start.options
  /\ scaling' = [Default EXCEPT !.plies = IF on THEN MAX_ONECORE_BRD_PLIES ELSE 0]
  /\ result' = NoResult
  /\ UNCHANGED <<start, played, game, stored, board, call, tree>>

(***************************************************************************)
(* onecorePerft.                                                           *)
(***************************************************************************)
\* A "go perft" of the session is silent; the position and depth of the command line are not.
GoPerft(depth, silent) ==
  /\ call = Idle /\ board = Stored
  /\ depth \in start.depths[played]
  /\ call' = [at |-> "called", depth |-> depth, silent |-> silent]
  /\ result' = NoResult
  /\ UNCHANGED <<start, played, game, stored, board, scaling, tree>>

Plies == IF call.depth < 7 THEN 3 ELSE IF scaling.plies = 4 THEN 4 ELSE 3
Entries == IF scaling.entries = 0 THEN DefaultEntries[Plies] ELSE scaling.entries
Moves == IF scaling.moves = 0 THEN DefaultMoves[Plies] ELSE scaling.moves

Cached == call.depth >= 5 /\ scaling.plies # 0

Answer(perft) ==
  [depth |-> call.depth, silent |-> call.silent,
   positions |-> perft.positions, shown |-> perft.shown]

\* Depth and settings ask for plain perft, or the tree is out of memory.
PlainPerft ==
  /\ \/ call.at = "called" /\ ~Cached
     \/ call.at = "load" /\ tree.full
  /\ result' = Answer(bytebrdPerft(call.depth, board, call.silent))
  /\ call' = Idle /\ tree' = NoTree
  /\ UNCHANGED <<start, played, game, stored, board, scaling>>

\* An entry: its position, the ply, and the entries its moves lead to.
Entry(p, ply) == [p |-> p, ply |-> ply, legal |-> <<>>]

\* ocBrdDbInit: the root is the only entry.
InitTree ==
  /\ call.at = "called" /\ Cached
  /\ tree' = [NoTree EXCEPT !.entry = <<Entry(searchSetup(board), 0)>>]
  /\ call' = [call EXCEPT !.at = "load"]
  /\ UNCHANGED <<start, played, game, stored, board, scaling, result>>

(***************************************************************************)
(* ocBrdDbLoad.  Entries of one ply follow each other, so going through    *)
(* them in order goes through the plies in order.  The order of the moves  *)
(* of a position is the generator's.                                       *)
(***************************************************************************)
MoveList(p) == FoldSet(LAMBDA m, list : Append(list, m), <<>>, allMoveCandidatesFind(p))

Child(e, m) == Entry([MOVE_APPLY(e.p, m) EXCEPT !.compl = {}], e.ply + 1)

SameKeyButPassed(e, f) == e.ply = f.ply /\ e.p.barred = f.p.barred /\ e.p.piece = f.p.piece
SameKey(e, f) ==
  /\ e.ply = f.ply
  /\ e.p.barred = f.p.barred
  /\ e.p.ep = f.p.ep
  /\ e.p.piece = f.p.piece

\* duplicateDetect: the hash chain leads to the entry with the same key.  The first two
\* plies cannot hold duplicates and are not hashed.
duplicateDetect(entry, child) ==
  {i \in DOMAIN entry : child.ply > 2 /\ SameKey(entry[i], child)}

AddMove(t, m) ==
  LET child == Child(t.entry[t.next], m)
      twins == duplicateDetect(t.entry, child)
      Linked(entries, i) == [entries EXCEPT ![t.next].legal = Append(@, i)]
  IN IF t.full THEN t
     ELSE IF twins # {} THEN [t EXCEPT !.entry = Linked(@, Min(twins))]
     ELSE [t EXCEPT !.entry = Append(Linked(@, Len(@) + 1), child),
                    !.full = Len(t.entry) + 1 = Entries]

Loading == call.at = "load" /\ ~tree.full
ToExpand == tree.next <= Len(tree.entry) /\ tree.entry[tree.next].ply < Plies

AddMoves(list) ==
  FoldLeft(AddMove, [tree EXCEPT !.moves = @ + Len(list),
                                 !.full = tree.moves + Len(list) >= Moves], list)

LoadBoard ==
  /\ Loading /\ ToExpand
  /\ tree' = [AddMoves(MoveList(tree.entry[tree.next].p)) EXCEPT !.next = @ + 1]
  /\ UNCHANGED <<start, played, game, stored, board, scaling, call, result>>

(***************************************************************************)
(* positionSearch: below the last ply, then up to the root.                *)
(***************************************************************************)
OfPly(ply) == {i \in DOMAIN tree.entry : tree.entry[i].ply = ply}

SearchLastPly ==
  /\ Loading /\ ~ToExpand
  /\ tree' = [tree EXCEPT !.ply = Plies,
                          !.count = [i \in DOMAIN tree.entry |->
                                       IF i \in OfPly(Plies)
                                       THEN allMovePerft(Fresh(tree.entry[i].p), call.depth - Plies - 1)
                                       ELSE 0]]
  /\ call' = [call EXCEPT !.at = "sum"]
  /\ UNCHANGED <<start, played, game, stored, board, scaling, result>>

SumPly ==
  /\ call.at = "sum" /\ tree.ply > 0
  /\ tree' = [tree EXCEPT !.ply = @ - 1,
                          !.count = [i \in DOMAIN @ |->
                                       IF i \notin OfPly(tree.ply - 1) THEN @[i]
                                       ELSE Sum(LAMBDA k : tree.count[tree.entry[i].legal[k]],
                                                DOMAIN tree.entry[i].legal)]]
  /\ UNCHANGED <<start, played, game, stored, board, scaling, call, result>>

\* The first moves are found again and shown with the boards of ply 1, in order.
ShowFirst(list) ==
  [line \in {Shown(list[k]) : k \in DOMAIN list} |->
     tree.count[1 + CHOOSE k \in DOMAIN list : Shown(list[k]) = line]]

Return ==
  /\ call.at = "sum" /\ tree.ply = 0
  /\ result' = Answer([positions |-> tree.count[1],
                        shown |-> IF call.silent THEN NothingShown
                                  ELSE ShowFirst(MoveList(tree.entry[1].p))])
  /\ call' = Idle /\ tree' = NoTree
  /\ UNCHANGED <<start, played, game, stored, board, scaling>>

Next ==
  \/ StoreMove \/ PositionFen
  \/ \E on \in BOOLEAN : CacheEnable(on)
  \/ \E depth \in UNION {UNION {s.depths[n] : n \in DOMAIN s.depths} : s \in Starts},
        silent \in BOOLEAN : GoPerft(depth, silent)
  \/ PlainPerft \/ InitTree \/ LoadBoard
  \/ SearchLastPly \/ SumPly \/ Return

Spec == Init /\ [][Next]_vars

(***************************************************************************)
(* Properties.                                                             *)
(***************************************************************************)
Asked == searchSetup(board)
Waiting == call = Idle /\ result = NoResult /\ board = Stored

\* What the flags of a position say of its pieces: a castle still allowed has its king
\* and rook at home, and an en passant pawn has just gone two squares.
FlagsHold(p) ==
  /\ \A w \in {White, Black} : \A r \in Rights(w) \ p.barred :
       Corner[r] \in p.piece[Piece(S_ROOK, w)] /\ King(p, w) = Sq(IF w = White THEN 0 ELSE 7, 4)
  /\ p.ep # 0 => /\ p.ep \in p.piece[Piece(S_PAWN, Other(p.turn))]
                 /\ Row(p.ep) = (IF p.turn = White THEN 4 ELSE 3)
                 /\ {p.ep + Forward(p.turn), p.ep + 2 * Forward(p.turn)} \cap Occupied(p) = {}

\* The variables keep their types: the board given to onecorePerft is one on which both
\* sides have one king and the flags hold, and so is each entry of the tree, whose moves
\* lead to entries of the next ply.
TypeOK ==
  /\ board.rc \in brd_t /\ board.info \in brdCtrlInfo_t
  /\ stored.info \in brdCtrlInfo_t /\ played \in 0 .. start.moves
  /\ \A p \in {Asked} \cup {tree.entry[i].p : i \in DOMAIN tree.entry} :
       /\ p \in Position
       /\ \A w \in {White, Black} : Cardinality(p.piece[Piece(S_KING, w)]) = 1
       /\ FlagsHold(p)
  /\ \A i \in DOMAIN tree.entry : \A k \in DOMAIN tree.entry[i].legal :
       /\ tree.entry[i].legal[k] \in DOMAIN tree.entry
       /\ tree.entry[tree.entry[i].legal[k]].ply = tree.entry[i].ply + 1

\* A position that went through the database, FEN and the session is still that of the
\* game, and the moves found for it, made either on the byte board (bytebrdNextMoveGet,
\* bytebrdUtilMoveMake) or on the bit board (moveDo), lead to exactly the positions the
\* rules of chess allow, each once; with no move left, mover_lost tells mate from stalemate.
Agrees(found, legal) ==
  /\ {R!Meaning(searchSetup(bytebrdUtilMoveMake(board, mv))) : mv \in found.list}
       = {R!Played(game, m) : m \in legal}
  /\ Cardinality(found.list) = Cardinality(legal)
  /\ found.mover_lost = (legal = {} /\ R!InCheck(game, game.turn))

MovesAreLegal ==
  Waiting =>
    /\ R!Meaning(Asked) = game
    /\ Agrees(bytebrdNextMoveGet(board), R!Legal(game))
    /\ {R!Meaning(MOVE_APPLY(Asked, m)) : m \in allMoveCandidatesFind(Asked)}
         = {R!Played(game, m) : m \in R!Legal(game)}
    /\ ~bytebrdUtilOpponentInCheck(board)

\* Counting the moves of the last ply by popcount gives as many as the generator lists,
\* whether or not the sides that do are taken to hold the standard pieces; and whatever
\* a move says of that to the next ply is true there.
CountsAgree ==
  Waiting =>
    \A compl \in SUBSET pieceStandardComplement(Asked.piece) :
      \A p \in {[Asked EXCEPT !.compl = compl]} : \A moves \in {allMoveCandidatesFind(p)} :
        /\ allMoveCandidatesLastPlyFind(p) = Cardinality(moves)
        /\ \A m \in moves :
             MOVE_APPLY(p, m).compl \subseteq pieceStandardComplement(MOVE_APPLY(p, m).piece)

\* onecorePerft returns the number of games of that many moves, and shows it for each
\* first move: with the tree and its shared positions, and without it when it is too small.
PerftIsRight ==
  result # NoResult =>
    /\ result.positions = R!Games(game, result.depth)
    /\ result.shown = IF result.silent THEN NothingShown
                      ELSE [m \in R!Legal(game) |-> R!Games(R!Played(game, m), result.depth - 1)]
=============================================================================
