------------------------------- MODULE MoveGen -------------------------------
(***************************************************************************)
(* The move generator of movegen.c: pinCompute, which finds the checks,    *)
(* the pins and the squares of the king in one pass, and the functions     *)
(* that list the moves of each kind of piece under its result.             *)
(*                                                                         *)
(* The code runs the same functions in two modes.  allMoveCandidatesFind   *)
(* records every move; allWhiteMovePerft and allBlackMovePerft make each   *)
(* move instead, count below it and take it back.  Here the functions give *)
(* the set of moves, and both modes use it: a move holds its masks and     *)
(* what the next ply is called with (castles, en passant square, standard  *)
(* pieces).                                                                *)
(***************************************************************************)
EXTENDS BitBoard, FiniteSetsExt

King(p, w) == CHOOSE s \in p.piece[Piece(S_KING, w)] : TRUE
Mover(p) == p.color[p.turn]
Opponent(p) == p.color[Other(p.turn)]
Occupied(p) == Mover(p) \cup Opponent(p)

(***************************************************************************)
(* pinCompute, in the order of the code.                                   *)
(***************************************************************************)
Enemy(p, type) == p.piece[Piece(type, Other(p.turn))]
Bishops(p) == Enemy(p, S_BISHOP) \cup Enemy(p, S_QUEEN)
Rooks(p) == Enemy(p, S_ROOK) \cup Enemy(p, S_QUEEN)

\* A king shut in by its own pieces, with no knight or slider that could reach
\* it: nothing else is looked at, pawns included.
NothingToFind(p) ==
  LET king == King(p, p.turn)
  IN /\ KingAttack[king] \subseteq Mover(p)
     /\ Enemy(p, S_KNIGHT) \cap KnightAttack[king] = {}
     /\ Bishops(p) \cap DiagonalAttack[king] = {}
     /\ Rooks(p) \cap UdlrAttack[king] = {}

\* The squares the opponent's pawns attack, and those of the pawns that check.
PawnAttack(p) ==
  IF p.turn = White
  THEN Shift(Enemy(p, S_PAWN) \ ColMask(0), -9) \cup Shift(Enemy(p, S_PAWN) \ ColMask(7), -7)
  ELSE Shift(Enemy(p, S_PAWN) \ ColMask(0), 7) \cup Shift(Enemy(p, S_PAWN) \ ColMask(7), 9)

PawnCheck(p) ==
  LET king == King(p, p.turn)
  IN IF king \notin PawnAttack(p) THEN {}
     ELSE Enemy(p, S_PAWN) \cap (IF p.turn = White THEN BlackPawnAttack
                                                   ELSE WhitePawnAttack)[king]

Knights(p) == Enemy(p, S_KNIGHT) \cap KnightDanger(King(p, p.turn), Mover(p))
KnightCheck(p) == {k \in Knights(p) : King(p, p.turn) \in KnightAttack[k]}

StepAttack(p) ==
  PawnAttack(p) \cup KingAttack[King(p, Other(p.turn))] \cup UNION {KnightAttack[k] : k \in Knights(p)}

\* As if the pieces between were looked at one by one.
pinUpdateOneByOne(p, between) ==
  LET own == between \cap Mover(p)
  IN IF own = {} THEN "screened" ELSE IF Cardinality(between) = 1 THEN "pin" ELSE "several"

\* pinUpdate: what stands between the king and a slider, when something does.
\* The last case is the pair of pawns that an en passant capture removes from
\* the row of the king at once.
pinUpdate(p, between) ==
  LET own == between \cap Mover(p)
  IN CASE own = {} -> "screened"
       [] own # {} /\ Cardinality(between) = 1 -> "pin"
       [] /\ own # {} /\ Cardinality(between) = 2
          /\ p.ep # 0 /\ p.ep \in between
          /\ own \subseteq p.piece[Piece(S_PAWN, p.turn)]
          /\ \A s \in own : Row(s) = Row(p.ep) -> "ep pin"
       [] OTHER -> "several"

\* One pass over the sliders of one kind, whose visible squares are given: the lanes of
\* the checks and of the pins, how many there are, and the squares the sliders attack.
Lanes(p, king, danger, attack, visible) ==
  LET between(t) == AttackLanes[king][t] \cap Occupied(p)
      kind(t, on_lane) == IF king \notin attack[t] THEN "aside"
                          ELSE IF on_lane = {} THEN "check" ELSE pinUpdate(p, on_lane)
      Of(kinds) == {t \in danger : kind(t, between(t)) \in kinds}
      Lane(t) == AttackLanes[king][t] \cup {t}
  IN [check |-> UNION {Lane(t) : t \in Of({"check"})}, checks |-> Cardinality(Of({"check"})),
      pin |-> UNION {Lane(t) : t \in Of({"pin", "ep pin"})},
      pins |-> Cardinality(Of({"pin"})), epPins |-> Cardinality(Of({"ep pin"})),
      attack |-> UNION {attack[t] : t \in Of({"check"})}
                   \cup UNION {visible[t] : t \in Of({"aside", "screened"})}]

SliderPass(p, sliders, attack, visible) ==
  Lanes(p, King(p, p.turn), InDanger(King(p, p.turn), Mover(p), attack, sliders), attack, visible)

BishopPass(p) ==
  SliderPass(p, Bishops(p), DiagonalAttack,
             [t \in Bishops(p) |-> DiagonalVisible(t, Occupied(p))])

RookPass(p) ==
  SliderPass(p, Rooks(p), UdlrAttack, [t \in Rooks(p) |-> UdlrVisible(t, Occupied(p))])

\* The squares two columns aside that castling adds to the king's squares.
CastleSquares(p, attacked) ==
  LET row == IF p.turn = White THEN 0 ELSE 7
      Castle(right, between, path, to) ==
        IF right \notin p.barred /\ Occupied(p) \cap {Sq(row, c) : c \in between} = {}
                                 /\ attacked \cap {Sq(row, c) : c \in path} = {}
        THEN {Sq(row, to)} ELSE {}
  IN Castle(IF p.turn = White THEN "ws" ELSE "bs", {5, 6}, {4, 5, 6}, 6)
       \cup Castle(IF p.turn = White THEN "wl" ELSE "bl", {3, 2, 1}, {4, 3, 2}, 2)

\* The flag for testing each move is set by a check found after another one, a
\* second pin, or a pin that only an en passant capture can break.
Pins(p, contact, b, r, attacked) ==
  [in_check |-> contact \cup b.check \cup r.check,
   pin |-> b.pin \cup r.pin,
   test |-> \/ b.checks + r.checks > 1
            \/ b.checks + r.checks = 1 /\ contact # {}
            \/ b.pins + r.pins > 1
            \/ b.epPins + r.epPins > 0,
   king |-> ((KingAttack[King(p, p.turn)] \ Mover(p)) \ attacked) \cup CastleSquares(p, attacked)]

SlidersFound(p, b, r) ==
  Pins(p, PawnCheck(p) \cup KnightCheck(p), b, r, StepAttack(p) \cup b.attack \cup r.attack)

pinCompute(p) ==
  IF NothingToFind(p) THEN [in_check |-> {}, pin |-> {}, test |-> FALSE, king |-> {}]
  ELSE SlidersFound(p, BishopPass(p), RookPass(p))

(***************************************************************************)
(* What a move does.  pieceTypeGet finds the captured piece; capturing     *)
(* anything but a pawn spoils the opponent's standard set of pieces.       *)
(***************************************************************************)
pieceTypeGet(p, s) ==
  LET found == {type \in S_PAWN .. S_QUEEN : s \in Enemy(p, type)}
  IN Piece(IF found = {} THEN S_KING ELSE Min(found), Other(p.turn))

ComplementKept(p, captured) == p.compl
ComplementAfter(p, captured) ==
  IF TypeOf(captured) = S_PAWN THEN p.compl ELSE p.compl \ {Other(p.turn)}

\* A rook that leaves its corner gives up the castle on that side.
castleEligibilityRookTemplateSet(w, from, barred) ==
  barred \cup (IF w = White THEN (IF from = 0 THEN {"wl"} ELSE IF from = 7 THEN {"ws"} ELSE {})
               ELSE (IF from = 56 THEN {"bl"} ELSE IF from = 63 THEN {"bs"} ELSE {}))

\* So does the side whose rook is captured in its corner.
castleEligibilityRookCaptureCheck(w, to, barred) ==
  barred \cup (IF w = White THEN (IF to = 56 THEN {"bl"} ELSE IF to = 63 THEN {"bs"} ELSE {})
               ELSE (IF to = 0 THEN {"wl"} ELSE IF to = 7 THEN {"ws"} ELSE {}))

Mask(p, type, squares) == [p |-> Piece(type, p.turn), mask |-> squares]
Taken(code, s) == [p |-> code, mask |-> {s}]

\* A piece other than a pawn goes to a square, free or held by the opponent.
PieceMove(p, type, from, to, barred) ==
  LET captured == pieceTypeGet(p, to)
      step == Mask(p, type, {from, to})
  IN IF to \notin Opponent(p)
     THEN [from |-> from, to |-> to, flips |-> <<step>>, barred |-> barred, ep |-> 0,
           compl |-> p.compl]
     ELSE [from |-> from, to |-> to, flips |-> <<step, Taken(captured, to)>>,
           barred |-> IF TypeOf(captured) = S_ROOK
                      THEN castleEligibilityRookCaptureCheck(p.turn, to, barred) ELSE barred,
           ep |-> 0, compl |-> ComplementAfter(p, captured)]

\* The position the next ply is called with.
MOVE_APPLY(p, m) ==
  [moveDo(p, m.flips) EXCEPT !.turn = Other(@), !.ep = m.ep, !.barred = m.barred,
                             !.compl = m.compl]

\* Does the move leave the mover's own king, which is not the piece that moves, in check?
Exposed(p, m) ==
  LET after == moveDo(p, m.flips)
  IN kingInCheck(p.turn, after.piece, King(p, p.turn), Occupied(after))

TEST_NEEDED(h, from) == from \in h.pin \/ h.in_check # {}

(***************************************************************************)
(* The king: the squares pinCompute left it, then the castles among them.  *)
(***************************************************************************)
NoCastle(p) == p.barred \cup (IF p.turn = White THEN {"ws", "wl"} ELSE {"bs", "bl"})

KingSteps(p, h) ==
  LET from == King(p, p.turn)
  IN {PieceMove(p, S_KING, from, to, NoCastle(p)) : to \in h.king \cap KingAttack[from]}

CastleMoves(p, h) ==
  LET from == King(p, p.turn)
      row == IF p.turn = White THEN 0 ELSE 7
      CastleMove(to, rookFrom, rookTo) ==
        [from |-> Sq(row, 4), to |-> Sq(row, to),
         flips |-> <<Mask(p, S_KING, {from, Sq(row, to)}),
                     Mask(p, S_ROOK, {Sq(row, rookFrom), Sq(row, rookTo)})>>,
         barred |-> NoCastle(p), ep |-> 0, compl |-> p.compl]
      castles == h.king \ KingAttack[from]
  IN {CastleMove(c[1], c[2], c[3]) : c \in {k \in {<<6, 7, 5>>, <<2, 0, 3>>} : Sq(row, k[1]) \in castles}}

whiteKingSquaresFind(p, h) == KingSteps(p, h) \cup CastleMoves(p, h)
blackKingSquaresFind(p, h) == KingSteps(p, h) \cup CastleMoves(p, h)

(***************************************************************************)
(* Bishops, rooks, queens and knights: the squares a piece sees, cut by the*)
(* checks and its own pin, and each move tried out when more than one of   *)
(* those bears on it.                                                      *)
(***************************************************************************)
ValidSquares(p, h) == (IF h.in_check = {} THEN Squares ELSE h.in_check) \ Mover(p)

PinCut(h, from, targets) == IF from \in h.pin THEN targets \cap h.pin ELSE targets

\* barred and sees: the castles ruled out if the piece moves, and the squares it sees.
SliderMoves(p, h, type, barred, sees) ==
  UNION {{m \in {PieceMove(p, type, from, to, barred[from]) :
                   to \in PinCut(h, from, sees[from] \cap ValidSquares(p, h))} :
            ~(h.test /\ TEST_NEEDED(h, from) /\ Exposed(p, m))} :
           from \in p.piece[Piece(type, p.turn)]}

QueenSees(p, s) == DiagonalVisible(s, Occupied(p)) \cup UdlrVisible(s, Occupied(p))

BishopMoves(p, h) ==
  SliderMoves(p, h, S_BISHOP, [s \in Mover(p) |-> p.barred],
              [s \in Mover(p) |-> DiagonalVisible(s, Occupied(p))])

RookMoves(p, h) ==
  SliderMoves(p, h, S_ROOK,
              [s \in Mover(p) |-> castleEligibilityRookTemplateSet(p.turn, s, p.barred)],
              [s \in Mover(p) |-> UdlrVisible(s, Occupied(p))])

QueenMoves(p, h) ==
  SliderMoves(p, h, S_QUEEN, [s \in Mover(p) |-> p.barred], [s \in Mover(p) |-> QueenSees(p, s)])

\* A pinned knight has no move, so only a check is left to test.
allKnightSquaresFind(p, h) ==
  UNION {{m \in {PieceMove(p, S_KNIGHT, from, to, p.barred) :
                   to \in KnightAttack[from] \cap ValidSquares(p, h)} :
            ~(h.test /\ h.in_check # {} /\ Exposed(p, m))} :
           from \in p.piece[Piece(S_KNIGHT, p.turn)] \ h.pin}

(***************************************************************************)
(* Pawns.  The code for black is that for white turned round: a direction  *)
(* holds the shift of a push, the home and the last row, and the tables.   *)
(***************************************************************************)
Up == [step |-> 8, home |-> 1, last |-> 7, capture |-> WhitePawnCapture,
       passed |-> BlackPawnEnPassantAttack]
Down == [step |-> -8, home |-> 6, last |-> 0, capture |-> BlackPawnCapture,
         passed |-> WhitePawnEnPassantAttack]

\* The check or the pin mask rules the move out; with an en passant pawn about they do
\* not tell.
MasksBar(p, h, m) ==
  /\ p.ep = 0
  /\ \/ h.in_check # {} /\ m.to \notin h.in_check
     \/ m.from \in h.pin /\ m.to \notin h.pin

\* A push is made and looked at only where the masks leave it open.
PushBarred(p, h, m) == TEST_NEEDED(h, m.from) /\ (MasksBar(p, h, m) \/ Exposed(p, m))

PawnMove(p, from, to, taken) ==
  [from |-> from, to |-> to, flips |-> <<Mask(p, S_PAWN, {from, to})>> \o taken,
   barred |-> p.barred, ep |-> 0, compl |-> p.compl]

\* A pawn on the last row becomes one of four pieces; the own set is no longer standard.
\* The code tries the queen out and takes its answer for all four.
Promotions(p, h, from, to, taken, barred, compl) ==
  LET Promoted(type) ==
        [from |-> from, to |-> to,
         flips |-> <<Mask(p, S_PAWN, {from})>> \o taken \o <<Mask(p, type, {to})>>,
         barred |-> barred, ep |-> 0, compl |-> compl \ {p.turn}]
  IN IF TEST_NEEDED(h, from) /\ Exposed(p, Promoted(S_QUEEN)) THEN {}
     ELSE {Promoted(type) : type \in S_KNIGHT .. S_QUEEN}

Push(p, h, s, d) ==
  LET to == s + d.step
  IN IF to \in Occupied(p) THEN {}
     ELSE IF Row(to) = d.last THEN Promotions(p, h, s, to, <<>>, p.barred, p.compl)
     ELSE {m \in {PawnMove(p, s, to, <<>>)} : ~PushBarred(p, h, m)}

\* The next ply has an en passant pawn only if there is a pawn to capture it.
DoublePush(p, h, s, d) ==
  LET to == s + 2 * d.step
      ep == IF d.passed[to] \cap Enemy(p, S_PAWN) # {} THEN to ELSE 0
  IN IF Row(s) # d.home \/ {s + d.step, to} \cap Occupied(p) # {} THEN {}
     ELSE {m \in {[PawnMove(p, s, to, <<>>) EXCEPT !.ep = ep]} : ~PushBarred(p, h, m)}

Capture(p, h, s, d, side) ==
  LET to == s + d.step + side
      captured == pieceTypeGet(p, to)
      enPassant == PawnMove(p, s, to, <<Taken(Piece(S_PAWN, Other(p.turn)), p.ep)>>)
      plain == [PawnMove(p, s, to, <<Taken(captured, to)>>)
                  EXCEPT !.compl = ComplementAfter(p, captured)]
  IN IF Opponent(p) \cap d.capture[s] = {} \/ Col(s) + side \notin 0 .. 7 THEN {}
     ELSE IF p.ep = s + side
     THEN {m \in {enPassant} : ~(TEST_NEEDED(h, s) /\ Exposed(p, m))}
     ELSE IF to \notin Opponent(p) THEN {}
     ELSE IF Row(to) = d.last
     THEN Promotions(p, h, s, to, <<Taken(captured, to)>>,
                     IF TypeOf(captured) = S_ROOK
                     THEN castleEligibilityRookCaptureCheck(p.turn, to, p.barred) ELSE p.barred,
                     ComplementAfter(p, captured))
     ELSE {m \in {plain} : ~(TEST_NEEDED(h, s) /\ Exposed(p, m))}

CaptureWest(p, h, s, d) == Capture(p, h, s, d, -1)
CaptureEast(p, h, s, d) == Capture(p, h, s, d, 1)

allWhitePawnSquaresFind(p, h) ==
  UNION {Push(p, h, s, Up) \cup DoublePush(p, h, s, Up)
           \cup CaptureWest(p, h, s, Up) \cup CaptureEast(p, h, s, Up) :
           s \in p.piece[Piece(S_PAWN, White)]}

BlackPush(p, h, s) == Push(p, h, s, Down)
BlackDoublePush(p, h, s) == DoublePush(p, h, s, Down)
BlackCaptureWest(p, h, s) == Capture(p, h, s, Down, -1)
BlackCaptureEast(p, h, s) == Capture(p, h, s, Down, 1)

allBlackPawnSquaresFind(p, h) ==
  UNION {BlackPush(p, h, s) \cup BlackDoublePush(p, h, s)
           \cup BlackCaptureWest(p, h, s) \cup BlackCaptureEast(p, h, s) :
           s \in p.piece[Piece(S_PAWN, Black)]}

(***************************************************************************)
(* allMoveCandidatesFind, and one ply of the two perft functions.          *)
(***************************************************************************)
PieceMoves(p, h) ==
  allKnightSquaresFind(p, h) \cup BishopMoves(p, h) \cup RookMoves(p, h) \cup QueenMoves(p, h)

WhiteMoves(p, h) == whiteKingSquaresFind(p, h) \cup allWhitePawnSquaresFind(p, h) \cup PieceMoves(p, h)
BlackMoves(p, h) == blackKingSquaresFind(p, h) \cup allBlackPawnSquaresFind(p, h) \cup PieceMoves(p, h)

MovesUnder(p, h) == IF p.turn = White THEN WhiteMoves(p, h) ELSE BlackMoves(p, h)
allMoveCandidatesFind(p) == MovesUnder(p, pinCompute(p))
=============================================================================
