------------------------------ MODULE ByteBoard ------------------------------
(***************************************************************************)
(* The interface of bytebrd.c: positions as an 8x8 board of bytes with a   *)
(* record of flags (brd_t and brdCtrlInfo_t), the moves found for them, a  *)
(* move made on them, and the plain perft.  With it the three forms in     *)
(* which positions travel between the programs: the packed board of the    *)
(* position database (mcperft_internal.c), FEN text (brdutil.c) and the    *)
(* bit board.                                                              *)
(***************************************************************************)
EXTENDS LastPly, SequencesExt

S_EMPTY == 0

brd_t == [Squares -> PieceCodes \cup {S_EMPTY}]
brdCtrlInfo_t == [next_move : {White, Black}, eligible : SUBSET Castles,
                  ep_eligible : BOOLEAN, ep_row : 0 .. 7, ep_column : 0 .. 7]

(***************************************************************************)
(* To the bit board.  Nothing is known of the standard pieces yet: the     *)
(* callers of the counting functions look for them (Fresh).                *)
(***************************************************************************)
bitbrdClear == [piece |-> [code \in PieceCodes |-> {}], color |-> [w \in {White, Black} |-> {}]]

bitbrdPieceSet(b, code, s) ==
  [b EXCEPT !.piece[code] = @ \cup {s}, !.color[ColorOf(code)] = @ \cup {s}]

searchSetup(b) ==
  LET bits == FoldSet(LAMBDA s, bit_brd : bitbrdPieceSet(bit_brd, b.rc[s], s), bitbrdClear,
                      {s \in Squares : b.rc[s] # S_EMPTY})
  IN [piece |-> bits.piece, color |-> bits.color,
      turn |-> b.info.next_move,
      ep |-> IF b.info.ep_eligible THEN Sq(b.info.ep_row, b.info.ep_column) ELSE 0,
      barred |-> Castles \ b.info.eligible,
      compl |-> {}]

Fresh(p) == [p EXCEPT !.compl = pieceStandardComplement(p.piece)]

kingInCheckApi(p, w) == kingInCheck(w, p.piece, King(p, w), Occupied(p))

bytebrdUtilOpponentInCheck(b) ==
  LET p == searchSetup(b) IN kingInCheckApi(p, Other(p.turn))

(***************************************************************************)
(* bytebrdNextMoveGet: the moves in words, read off the masks.  A second   *)
(* mask of the other colour is a capture, and an en passant capture is     *)
(* told by where the pawns are.                                            *)
(***************************************************************************)
Promoting(m) ==
  /\ TypeOf(m.flips[1].p) = S_PAWN
  /\ Row(m.to) = (IF ColorOf(m.flips[1].p) = White THEN 7 ELSE 0)

PromotedPiece(m) == IF Len(m.flips) = 3 THEN m.flips[3].p ELSE m.flips[2].p

ByteMove(b, m) ==
  LET p1 == m.flips[1].p
      captures == Len(m.flips) > 1 /\ ColorOf(p1) # ColorOf(m.flips[2].p)
      king == Len(m.flips) = 2 /\ TypeOf(p1) = S_KING
  IN [from |-> m.from, to |-> m.to, moved |-> p1,
      captured |-> IF captures THEN m.flips[2].p ELSE S_EMPTY,
      en_passant |-> /\ captures
                     /\ TypeOf(p1) = S_PAWN /\ TypeOf(m.flips[2].p) = S_PAWN
                     /\ Row(m.from) = b.info.ep_row /\ Col(m.to) = b.info.ep_column,
      promoted |-> IF Promoting(m) THEN PromotedPiece(m) ELSE S_EMPTY,
      short |-> king /\ Col(m.to) - Col(m.from) = 2,
      long |-> king /\ Col(m.from) - Col(m.to) = 2]

MovesInWords(b, p, moves) ==
  [list |-> {ByteMove(b, m) : m \in moves},
   mover_lost |-> moves = {} /\ kingInCheckApi(p, p.turn)]

bytebrdNextMoveGet(b) == MovesInWords(b, searchSetup(b), allMoveCandidatesFind(searchSetup(b)))

(***************************************************************************)
(* bytebrdUtilMoveMake: the flags of the next position, then its board.    *)
(***************************************************************************)
Corner == [wl |-> Sq(0, 0), ws |-> Sq(0, 7), bl |-> Sq(7, 0), bs |-> Sq(7, 7)]
Rights(w) == IF w = White THEN {"wl", "ws"} ELSE {"bl", "bs"}

\* As if a captured rook took no castle with it.
RightsMovedAway(b, mv) ==
  LET w == b.info.next_move
  IN {r \in Rights(w) : \/ mv.moved = Piece(S_KING, w)
                        \/ mv.moved = Piece(S_ROOK, w) /\ mv.from = Corner[r]}

\* The castles a move ends: the mover's, by its king or by the rook from its corner,
\* and the opponent's, whose rook is captured in its corner.
RightsLost(b, mv) ==
  LET w == b.info.next_move
  IN {r \in Rights(w) : \/ mv.moved = Piece(S_KING, w)
                        \/ mv.moved = Piece(S_ROOK, w) /\ mv.from = Corner[r]}
       \cup {r \in Rights(Other(w)) : mv.captured = Piece(S_ROOK, Other(w)) /\ mv.to = Corner[r]}

\* A pawn that went two rows may be taken if a pawn of the other side is beside it.
EnPassantNext(b, mv) ==
  /\ TypeOf(mv.moved) = S_PAWN /\ Dist(Row(mv.from), Row(mv.to)) = 2
  /\ \E c \in 0 .. 7 : /\ Dist(c, Col(mv.to)) = 1
                       /\ TypeOf(b.rc[Sq(Row(mv.to), c)]) = S_PAWN
                       /\ b.rc[Sq(Row(mv.to), c)] # mv.moved

NextInfo(b, mv) ==
  [next_move |-> Other(b.info.next_move), eligible |-> b.info.eligible \ RightsLost(b, mv),
   ep_eligible |-> EnPassantNext(b, mv),
   ep_row |-> IF EnPassantNext(b, mv) THEN Row(mv.to) ELSE 0,
   ep_column |-> IF EnPassantNext(b, mv) THEN Col(mv.to) ELSE 0]

\* In the order of the code, the last write first.
NextBoard(b, mv) ==
  LET row == Row(mv.from)
      RookMoved(from, to) == (Sq(row, from) :> S_EMPTY) @@ (to :> b.rc[Sq(row, from)])
  IN (IF mv.long THEN RookMoved(0, mv.from - 1) ELSE <<>>)
       @@ (IF mv.short THEN RookMoved(7, mv.from + 1) ELSE <<>>)
       @@ (IF mv.promoted # S_EMPTY THEN mv.to :> mv.promoted ELSE <<>>)
       @@ (IF mv.en_passant THEN Sq(b.info.ep_row, b.info.ep_column) :> S_EMPTY ELSE <<>>)
       @@ (mv.to :> mv.moved) @@ (mv.from :> S_EMPTY)
       @@ b.rc

bytebrdUtilMoveMake(b, mv) == [rc |-> NextBoard(b, mv), info |-> NextInfo(b, mv)]

(***************************************************************************)
(* bytebrdPerft.  Silent, it gives the number only; otherwise it also      *)
(* shows a number for each first move, as the squares and the new piece.   *)
(***************************************************************************)
Shown(m) == [from |-> m.from, to |-> m.to,
             becomes |-> IF Promoting(m) THEN TypeOf(PromotedPiece(m)) ELSE S_EMPTY]

NothingShown == [line \in {} |-> 0]

Reported(count) ==
  [positions |-> Sum(LAMBDA m : count[m], DOMAIN count),
   shown |-> [line \in {Shown(m) : m \in DOMAIN count} |->
                count[CHOOSE m \in DOMAIN count : Shown(m) = line]]]

movesRapidFind(p, depth) ==
  Reported([m \in allMoveCandidatesFind(p) |->
              IF depth = 1 THEN 1 ELSE allMovePerft(Fresh(MOVE_APPLY(p, m)), depth - 2)])

bytebrdPerft(depth, b, silent) ==
  IF depth = 0 THEN [positions |-> 0, shown |-> NothingShown]
  ELSE IF ~silent THEN movesRapidFind(searchSetup(b), depth)
  ELSE [positions |-> allMovePerft(Fresh(searchSetup(b)), depth - 1), shown |-> NothingShown]

(***************************************************************************)
(* The packed board: four bits a square, row r and row r + 4 in one byte.  *)
(***************************************************************************)
brdPack(rc) == [i \in 0 .. 31 |-> rc[i] + 16 * rc[i + 32]]
brdUnpack(position) ==
  [s \in Squares |-> IF s < 32 THEN position[s] % 16 ELSE (position[s - 32] \div 16) % 16]

(***************************************************************************)
(* FEN.  A row is a sequence of pieces and of gaps, a gap of n squares     *)
(* being -n; the fields after the board are records of what they name.     *)
(***************************************************************************)
FenRow(rc, r) ==
  FoldLeft(LAMBDA row, c :
             IF rc[Sq(r, c)] # S_EMPTY THEN Append(row, rc[Sq(r, c)])
             ELSE IF row # <<>> /\ row[Len(row)] < 0 THEN [row EXCEPT ![Len(row)] = @ - 1]
             ELSE Append(row, -1),
           <<>>, [k \in 1 .. 8 |-> k - 1])

\* The square behind the pawn, from the side of its owner.
brdutilBrdToFenConvert(b) ==
  [rows |-> [r \in 0 .. 7 |-> FenRow(b.rc, r)],
   next_move |-> b.info.next_move,
   castles |-> b.info.eligible,
   ep |-> IF ~b.info.ep_eligible THEN <<>>
          ELSE <<b.info.ep_column, IF b.info.next_move = White THEN b.info.ep_row + 1
                                                               ELSE b.info.ep_row - 1>>]

\* The column at which an item of a row begins.
ItemColumn(row, i) == Sum(LAMBDA k : IF row[k] < 0 THEN -row[k] ELSE 1, 1 .. i - 1)

brdutilFenToBrdConvert(fen) ==
  LET At(s) == {i \in DOMAIN fen.rows[Row(s)] :
                  fen.rows[Row(s)][i] > 0 /\ ItemColumn(fen.rows[Row(s)], i) = Col(s)}
  IN [rc |-> [s \in Squares |-> IF At(s) = {} THEN S_EMPTY ELSE fen.rows[Row(s)][Min(At(s))]],
      info |-> [next_move |-> fen.next_move, eligible |-> fen.castles,
                ep_eligible |-> fen.ep # <<>>,
                ep_row |-> IF fen.ep = <<>> THEN 0
                           ELSE IF fen.next_move = White THEN (fen.ep[2] - 1) % 8
                           ELSE (fen.ep[2] + 1) % 8,
                ep_column |-> IF fen.ep = <<>> THEN 0 ELSE fen.ep[1]]]

\* brdutilStartPositionCreate.
StartPosition ==
  LET officers == <<S_ROOK, S_KNIGHT, S_BISHOP, S_QUEEN, S_KING, S_BISHOP, S_KNIGHT, S_ROOK>>
  IN [rc |-> [s \in Squares |-> CASE Row(s) = 0 -> Piece(officers[Col(s) + 1], White)
                                  [] Row(s) = 1 -> Piece(S_PAWN, White)
                                  [] Row(s) = 6 -> Piece(S_PAWN, Black)
                                  [] Row(s) = 7 -> Piece(officers[Col(s) + 1], Black)
                                  [] OTHER -> S_EMPTY],
      info |-> [next_move |-> White, eligible |-> Castles, ep_eligible |-> FALSE,
                ep_row |-> 0, ep_column |-> 0]]
=============================================================================
