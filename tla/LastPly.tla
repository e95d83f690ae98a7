------------------------------- MODULE LastPly -------------------------------
(***************************************************************************)
(* Counting the moves of the last ply without making them: the popcount    *)
(* versions of movegen.c's generators, the choice between them, and the    *)
(* perft that ends in them.  p.compl says for which sides the code may     *)
(* take the two lowest bishops, rooks and knights and one queen for all    *)
(* there are.                                                              *)
(***************************************************************************)
EXTENDS MoveGen

Forward(w) == IF w = White THEN 8 ELSE -8
HomeRow(w) == IF w = White THEN 1 ELSE 6
PromotionRow(w) == IF w = White THEN 6 ELSE 1

Sum(f(_), S) == MapThenSumSet(f, S)

kingSquaresLastPlyFind(h) == Cardinality(h.king)

(***************************************************************************)
(* No check and at most one pin: no move is tried out.  Mode 0 has no pin, *)
(* mode 1 a pinned pawn, mode 2 another pinned piece.                      *)
(***************************************************************************)
Lowest(S) == {Min(S)}
LowestTwo(S) == Lowest(S) \cup Lowest(S \ Lowest(S))

\* With the standard set of pieces the loops are written out: two, two, two and one.
StandardPieceCount(p) ==
  LET own(type) == p.piece[Piece(type, p.turn)]
      Count(seen) == Cardinality(seen \ Mover(p))
  IN Sum(LAMBDA s : Count(DiagonalVisible(s, Occupied(p))), LowestTwo(own(S_BISHOP)))
       + Sum(LAMBDA s : Count(UdlrVisible(s, Occupied(p))), LowestTwo(own(S_ROOK)))
       + Sum(LAMBDA s : Count(KnightAttack[s]), LowestTwo(own(S_KNIGHT)))
       + Sum(LAMBDA s : Count(QueenSees(p, s)), Lowest(own(S_QUEEN)))

PieceCount(p, mode, pin) ==
  LET own(type) == p.piece[Piece(type, p.turn)]
      Count(s, seen) ==
        Cardinality((IF mode = 2 /\ s \in pin THEN seen \cap pin ELSE seen) \ Mover(p))
  IN Sum(LAMBDA s : Count(s, DiagonalVisible(s, Occupied(p))), own(S_BISHOP))
       + Sum(LAMBDA s : Count(s, UdlrVisible(s, Occupied(p))), own(S_ROOK))
       + Sum(LAMBDA s : IF mode = 2 /\ s \in pin THEN 0 ELSE Cardinality(KnightAttack[s] \ Mover(p)),
             own(S_KNIGHT))
       + Sum(LAMBDA s : Count(s, QueenSees(p, s)), own(S_QUEEN))

\* The pawns of a set that can capture a piece of another set, to either side.
CaptureEastOf(p, pawns, targets) == pawns \cap Shift(targets \ ColMask(0), -(Forward(p.turn) + 1))
CaptureWestOf(p, pawns, targets) == pawns \cap Shift(targets \ ColMask(7), -(Forward(p.turn) - 1))
Captures(p, pawns, targets) ==
  Cardinality(CaptureEastOf(p, pawns, targets)) + Cardinality(CaptureWestOf(p, pawns, targets))

\* The pawns beside the en passant pawn, which capture it towards the east or west.
EnPassantEast(p, pawns) == IF p.ep = 0 THEN {} ELSE pawns \cap Shift({p.ep} \ ColMask(0), -1)
EnPassantWest(p, pawns) == IF p.ep = 0 THEN {} ELSE pawns \cap Shift({p.ep} \ ColMask(7), 1)
EnPassants(p, pawns) ==
  (IF EnPassantEast(p, pawns) # {} THEN 1 ELSE 0) + (IF EnPassantWest(p, pawns) # {} THEN 1 ELSE 0)

Pushable(p, pawns) == pawns \ Shift(Occupied(p), -Forward(p.turn))
DoublePushable(p, pawns) ==
  (Pushable(p, pawns) \cap RowMask(HomeRow(p.turn))) \ Shift(Occupied(p), -2 * Forward(p.turn))

FreePawnCount(p, pawns) ==
  LET plain == pawns \ RowMask(PromotionRow(p.turn))
      promoting == pawns \ plain
  IN EnPassants(p, plain) + Captures(p, plain, Opponent(p))
       + Cardinality(Pushable(p, plain)) + Cardinality(DoublePushable(p, plain))
       + 4 * (Captures(p, promoting, Opponent(p)) + Cardinality(Pushable(p, promoting)))

\* The one pinned pawn of mode 1 may go along the pin and capture the piece that pins it.
PinnedPawnCount(p, pawn, pin) ==
  LET plain == pawn \ RowMask(PromotionRow(p.turn))
      promoting == pawn \ plain
      pinning == Opponent(p) \cap pin
      f == Forward(p.turn)
      Along(pawns, n) == IF Shift(pawns, n) \cap pin # {} THEN Cardinality(pawns) ELSE 0
  IN (IF EnPassantEast(p, plain) # {} /\ Shift(plain, f + 1) \cap pin # {} THEN 1 ELSE 0)
       + (IF EnPassantWest(p, plain) # {} /\ Shift(plain, f - 1) \cap pin # {} THEN 1 ELSE 0)
       + Captures(p, plain, pinning)
       + Along(Pushable(p, plain), f) + Along(DoublePushable(p, plain), 2 * f)
       + 4 * Captures(p, promoting, pinning)

WhitePawnCount(p, mode, pin) ==
  LET pawns == p.piece[Piece(S_PAWN, White)]
  IN IF mode = 1 THEN FreePawnCount(p, pawns \ pin) + PinnedPawnCount(p, pawns \cap pin, pin)
                 ELSE FreePawnCount(p, pawns)

BlackPawnCount(p, mode, pin) ==
  LET pawns == p.piece[Piece(S_PAWN, Black)]
  IN IF mode = 1 THEN FreePawnCount(p, pawns \ pin) + PinnedPawnCount(p, pawns \cap pin, pin)
                 ELSE FreePawnCount(p, pawns)

allBRQNPSquaresLastPlyFindNoTest(p, mode, pin) ==
  (IF mode < 2 /\ p.turn \in p.compl THEN StandardPieceCount(p) ELSE PieceCount(p, mode, pin))
    + (IF p.turn = White THEN WhitePawnCount(p, mode, pin) ELSE BlackPawnCount(p, mode, pin))

(***************************************************************************)
(* A check, or more than one pin: as the generator, but counted.           *)
(***************************************************************************)
lastPlyMovesValidate(p, type, from, targets) ==
  Cardinality({to \in targets : ~Exposed(p, PieceMove(p, type, from, to, p.barred))})

SliderCount(p, h, type, sees) ==
  Sum(LAMBDA s : LET cut == PinCut(h, s, sees[s] \cap ValidSquares(p, h))
                 IN IF h.test /\ TEST_NEEDED(h, s) THEN lastPlyMovesValidate(p, type, s, cut)
                                                   ELSE Cardinality(cut),
      p.piece[Piece(type, p.turn)])

allBishopRookQueenSquaresLastPlyFind(p, h) ==
  SliderCount(p, h, S_BISHOP, [s \in Mover(p) |-> DiagonalVisible(s, Occupied(p))])
    + SliderCount(p, h, S_ROOK, [s \in Mover(p) |-> UdlrVisible(s, Occupied(p))])
    + SliderCount(p, h, S_QUEEN, [s \in Mover(p) |-> QueenSees(p, s)])

allKnightSquaresLastPlyFind(p, h) ==
  Sum(LAMBDA s : LET cut == KnightAttack[s] \cap ValidSquares(p, h)
                 IN IF h.test /\ h.in_check # {} THEN lastPlyMovesValidate(p, S_KNIGHT, s, cut)
                                                 ELSE Cardinality(cut),
      p.piece[Piece(S_KNIGHT, p.turn)] \ h.pin)

\* The pawns that are neither pinned nor about to promote, all at once: under a check
\* only the moves into its lane count.
ShortcutPawns(p, h) ==
  (p.piece[Piece(S_PAWN, p.turn)] \ RowMask(PromotionRow(p.turn))) \ h.pin

ShortcutPawnCount(p, h) ==
  LET pawns == ShortcutPawns(p, h)
      f == Forward(p.turn)
      Into(some, n) == IF h.in_check = {} THEN Cardinality(some)
                       ELSE Cardinality(Shift(some, n) \cap h.in_check)
  IN EnPassants(p, pawns)
       + Into(CaptureEastOf(p, pawns, Opponent(p)), f + 1)
       + Into(CaptureWestOf(p, pawns, Opponent(p)), f - 1)
       + Into(Pushable(p, pawns), f) + Into(DoublePushable(p, pawns), 2 * f)

\* The others one by one.  test is the flag of pinCompute, or an en passant pawn.
PushCount(p, h, s, d, test) ==
  LET Stands(m) == ~MasksBar(p, h, m) /\ ~(test /\ Exposed(p, m))
      twice == s + 2 * d.step
  IN IF s + d.step \in Occupied(p) THEN 0
     ELSE IF Row(s + d.step) = d.last
     THEN Cardinality(Promotions(p, h, s, s + d.step, <<>>, p.barred, p.compl))
     ELSE Cardinality({m \in {PawnMove(p, s, s + d.step, <<>>)} : Stands(m)})
            + (IF Row(s) # d.home \/ twice \in Occupied(p) THEN 0
               ELSE Cardinality({m \in {PawnMove(p, s, twice, <<>>)} : Stands(m)}))

CaptureCount(p, h, s, d, side, test) ==
  LET to == s + d.step + side
      taken == Taken(pieceTypeGet(p, to), to)
      enPassant == PawnMove(p, s, to, <<Taken(Piece(S_PAWN, Other(p.turn)), p.ep)>>)
      plain == PawnMove(p, s, to, <<taken>>)
  IN IF Opponent(p) \cap d.capture[s] = {} \/ Col(s) + side \notin 0 .. 7 THEN 0
     ELSE IF p.ep = s + side THEN (IF Exposed(p, enPassant) THEN 0 ELSE 1)
     ELSE IF to \notin Opponent(p) THEN 0
     ELSE IF Row(to) = d.last
     THEN Cardinality(Promotions(p, h, s, to, <<taken>>, p.barred, p.compl))
     ELSE IF MasksBar(p, h, plain) \/ (test /\ Exposed(p, plain)) THEN 0 ELSE 1

\* With a check to be tested for, no pawn takes the shortcut.
PawnSquaresLastPly(p, h, d) ==
  LET test == h.test \/ p.ep # 0
      shortcut == ~(h.in_check # {} /\ test)
      rest == p.piece[Piece(S_PAWN, p.turn)] \ (IF shortcut THEN ShortcutPawns(p, h) ELSE {})
  IN (IF shortcut THEN ShortcutPawnCount(p, h) ELSE 0)
       + Sum(LAMBDA s : PushCount(p, h, s, d, test) + CaptureCount(p, h, s, d, -1, test)
                          + CaptureCount(p, h, s, d, 1, test), rest)

allWhitePawnSquaresLastPlyFind(p, h) == PawnSquaresLastPly(p, h, Up)
allBlackPawnSquaresLastPlyFind(p, h) == PawnSquaresLastPly(p, h, Down)

allWhiteLastPly(p, h) ==
  allWhitePawnSquaresLastPlyFind(p, h) + allKnightSquaresLastPlyFind(p, h)
    + allBishopRookQueenSquaresLastPlyFind(p, h)

allBlackLastPly(p, h) ==
  allBlackPawnSquaresLastPlyFind(p, h) + allKnightSquaresLastPlyFind(p, h)
    + allBishopRookQueenSquaresLastPlyFind(p, h)

(***************************************************************************)
(* The choice of the counter, and perft.                                   *)
(***************************************************************************)
MovesCounted(p, h) ==
  LET mode == IF h.pin = {} THEN 0
              ELSE IF h.pin \cap p.piece[Piece(S_PAWN, p.turn)] # {} THEN 1 ELSE 2
  IN kingSquaresLastPlyFind(h)
       + (IF h.in_check = {} /\ ~h.test THEN allBRQNPSquaresLastPlyFindNoTest(p, mode, h.pin)
          ELSE IF p.turn = White THEN allWhiteLastPly(p, h) ELSE allBlackLastPly(p, h))

allMoveCandidatesLastPlyFind(p) == MovesCounted(p, pinCompute(p))

\* allWhiteMovePerft and allBlackMovePerft: make each move and count below it; no move is
\* left to make on the last ply.
RECURSIVE allMovePerft(_, _)
allMovePerft(p, depth) ==
  IF depth = 0 THEN allMoveCandidatesLastPlyFind(p)
  ELSE Sum(LAMBDA m : allMovePerft(MOVE_APPLY(p, m), depth - 1), allMoveCandidatesFind(p))
=============================================================================
