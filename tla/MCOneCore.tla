------------------------------ MODULE MCOneCore ------------------------------
(***************************************************************************)
(* Sessions of scperft for TLC.  The positions are those of codecov.c and  *)
(* perft.c, and small ones where a case comes up within a few moves.  Each *)
(* is written as FEN, last row first; a number is a gap.                   *)
(***************************************************************************)
EXTENDS OneCore

wP == Piece(S_PAWN, White)
wN == Piece(S_KNIGHT, White)
wB == Piece(S_BISHOP, White)
wR == Piece(S_ROOK, White)
wQ == Piece(S_QUEEN, White)
wK == Piece(S_KING, White)
bP == Piece(S_PAWN, Black)
bN == Piece(S_KNIGHT, Black)
bB == Piece(S_BISHOP, Black)
bR == Piece(S_ROOK, Black)
bQ == Piece(S_QUEEN, Black)
bK == Piece(S_KING, Black)

Fen(rows, turn, castles, ep) ==
  brdutilFenToBrdConvert([rows |-> [r \in 0 .. 7 |-> rows[8 - r]], next_move |-> turn,
                          castles |-> castles, ep |-> ep])

\* The position known as Kiwipete: castling, captures of rooks, pins, en passant.
Kiwi ==
  Fen(<<<<bR, -3, bK, -2, bR>>, <<bP, -1, bP, bP, bQ, bP, bB, -1>>,
        <<bB, bN, -2, bP, bN, bP, -1>>, <<-3, wP, wN, -3>>,
        <<-1, bP, -2, wP, -3>>, <<-2, wN, -2, wQ, -1, bP>>,
        <<wP, wP, wP, wB, wB, wP, wP, wP>>, <<wR, -3, wK, -2, wR>>>>,
      White, Castles, <<>>)

\* An en passant capture that would open the rank to the king.
Lane ==
  Fen(<<<<-8>>, <<-2, bP, -5>>,
        <<-3, bP, -4>>, <<wK, wP, -5, bR>>,
        <<-1, wR, -3, bP, -1, bK>>, <<-8>>,
        <<-4, wP, -1, wP, -1>>, <<-8>>>>,
      White, {}, <<>>)

\* Promotions and captures on the last rank.
LastRank ==
  Fen(<<<<bN, -1, bN, -5>>, <<wP, wP, wP, bK, -4>>,
        <<-8>>, <<-8>>,
        <<-8>>, <<-8>>,
        <<-4, wK, bP, bP, bP>>, <<-5, wN, -1, wN>>>>,
      Black, {}, <<>>)

\* A promotion by a side that has its standard pieces.
Standard ==
  Fen(<<<<bR, bN, bB, bQ, -1, bK, -1, bR>>, <<bP, bP, -1, wP, bB, bP, bP, bP>>,
        <<-2, bP, -5>>, <<-8>>,
        <<-2, wB, -5>>, <<-8>>,
        <<wP, wP, wP, -1, wN, bN, wP, wP>>, <<wR, wN, wB, wQ, wK, -2, wR>>>>,
      White, {"ws", "wl"}, <<>>)

\* Two pins at once.
DoublePins ==
  Fen(<<<<-3, bK, -4>>, <<-3, bR, -4>>,
        <<-8>>, <<-8>>,
        <<bB, -5, bB, -1>>, <<-2, wN, -1, wN, -3>>,
        <<-2, wP, bN, wP, -3>>, <<-3, wK, -4>>>>,
      Black, {}, <<>>)

\* Pins of several pieces and an en passant pawn.
ManyPins ==
  Fen(<<<<bR, -3, bK, -2, bR>>, <<bP, -1, bP, bB, -1, bP, bP, -1>>,
        <<-2, bP, -5>>, <<-4, bQ, -3>>,
        <<wQ, -1, wP, wN, bP, wP, bN, bP>>, <<-2, wN, -1, wP, -2, wK>>,
        <<wP, wB, -1, wP, -2, wP, -1>>, <<wR, -4, wR, -2>>>>,
      Black, {"bs", "bl"}, <<5, 2>>)

\* An en passant square that no pawn attacks.
PassedBy ==
  Fen(<<<<bR, bN, bB, bQ, bK, bB, bN, bR>>, <<bP, bP, bP, bP, bP, bP, bP, bP>>,
        <<-8>>, <<-8>>,
        <<-4, wP, -3>>, <<-8>>,
        <<wP, wP, wP, wP, -1, wP, wP, wP>>, <<wR, wN, wB, wQ, wK, wB, wN, wR>>>>,
      Black, Castles, <<4, 2>>)

\* The white king at home in its corner behind its pieces.
KingHome ==
  Fen(<<<<-4, bR, -1, bK, -1>>, <<bP, -4, bP, bP, -1>>,
        <<-2, bN, -2, bN, -1, wB>>, <<-2, bB, -5>>,
        <<wN, -6, wQ>>, <<wP, -2, bQ, -1, wN, -2>>,
        <<-1, bR, -4, wP, wP>>, <<wR, -4, wR, -1, wK>>>>,
      Black, {}, <<>>)

\* Mate, or stalemate, in one.
LastStep ==
  Fen(<<<<bK, -7>>, <<-8>>,
        <<-1, wK, -6>>, <<-8>>,
        <<-8>>, <<-8>>,
        <<-8>>, <<-2, wQ, -5>>>>,
      White, {}, <<>>)

\* The same board with and without an en passant pawn after three plies.
Transposed ==
  Fen(<<<<-7, bK>>, <<-8>>,
        <<-8>>, <<-8>>,
        <<-3, bP, -4>>, <<-8>>,
        <<-4, wP, -3>>, <<wK, -7>>>>,
      White, {}, <<>>)

\* A castle lost by moving, or losing, the rook.
Rook ==
  Fen(<<<<bR, -3, bK, -3>>, <<-8>>,
        <<-8>>, <<-8>>,
        <<-8>>, <<-8>>,
        <<-8>>, <<wR, -3, wK, -3>>>>,
      White, {"wl", "bl"}, <<>>)

\* Few moves for a long time.
Locked ==
  Fen(<<<<-8>>, <<-8>>,
        <<-8>>, <<-8>>,
        <<bP, -7>>, <<wP, -1, bP, -5>>,
        <<bK, -1, wP, -5>>, <<-2, wK, -5>>>>,
      White, {}, <<>>)

Session(from, moves, depths, settings, options) ==
  [board |-> from, moves |-> moves, depths |-> [n \in 0 .. moves |-> depths[n + 1]],
   scaling |-> settings, options |-> options]

\* Tables that a tree of three plies does not fit in: the positions, or their moves.
FewEntries == [Default EXCEPT !.entries = 30]
FewMoves == [Default EXCEPT !.moves = 12]

MCStarts ==
  {Session(StartPosition, 1, <<{1, 2}, {1}>>, {Default}, FALSE),
   Session(Kiwi, 1, <<{1, 2}, {1}>>, {Default}, FALSE),
   Session(Lane, 3, <<{3}, {2}, {1}, {1}>>, {Default}, FALSE),
   Session(LastRank, 1, <<{2}, {1}>>, {Default}, FALSE),
   Session(Standard, 1, <<{2}, {1}>>, {Default}, FALSE),
   Session(DoublePins, 1, <<{2}, {1}>>, {Default}, FALSE),
   Session(ManyPins, 1, <<{1}, {1}>>, {Default}, FALSE),
   Session(PassedBy, 1, <<{1}, {1}>>, {Default}, FALSE),
   Session(KingHome, 1, <<{2}, {1}>>, {Default}, FALSE),
   Session(LastStep, 1, <<{2}, {1}>>, {Default}, FALSE),
   Session(Rook, 2, <<{2}, {1}, {1}>>, {Default}, FALSE),
   Session(Transposed, 0, <<{5}>>, {Default, FewEntries, FewMoves}, TRUE),
   Session(Locked, 0, <<{7}>>, {Default, [Default EXCEPT !.plies = 3]}, FALSE)}
=============================================================================
