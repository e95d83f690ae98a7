------------------------------ MODULE BitBoard ------------------------------
(***************************************************************************)
(* The bit board of movegen.h and the lookup tables that movegen.c builds  *)
(* once, in squareUnderAttackGenerate, before any move is generated.       *)
(*                                                                         *)
(* A 64 bit mask is the set of the squares whose bit is set, so & | ^ and  *)
(* & ~ are set operations, << and >> are Shift, and popcount is            *)
(* Cardinality.  A square is (row << 3) | column, a piece its type with    *)
(* the colour in bit 3, as in the code.                                    *)
(*                                                                         *)
(* A position is a record: the two arrays of bitBrd_t (piece, color), the  *)
(* side to move (turn), the square of the pawn that may be captured en     *)
(* passant (ep, 0 when there is none), the castles that are ruled out      *)
(* (barred), and the sides that still hold the standard pieces (compl).    *)
(***************************************************************************)
EXTENDS Integers, FiniteSets, Sequences

White == 0
Black == 1
Other(w) == 1 - w

S_PAWN == 1
S_KNIGHT == 2
S_BISHOP == 3
S_ROOK == 4
S_QUEEN == 5
S_KING == 6

Piece(type, w) == type + 8 * w
ColorOf(p) == p \div 8
TypeOf(p) == p % 8
PieceCodes == {Piece(type, w) : type \in 1 .. 6, w \in {White, Black}}

Squares == 0 .. 63
Row(s) == s \div 8
Col(s) == s % 8
Sq(r, c) == 8 * r + c
RowMask(r) == {s \in Squares : Row(s) = r}
ColMask(c) == {s \in Squares : Col(s) = c}

Castles == {"ws", "wl", "bs", "bl"}

Xor(A, B) == (A \cup B) \ (A \cap B)
Shift(A, n) == {s + n : s \in A} \cap Squares
Dist(a, b) == IF a < b THEN b - a ELSE a - b

Position == [piece : [PieceCodes -> SUBSET Squares],
             color : [{White, Black} -> SUBSET Squares],
             turn : {White, Black},
             ep : Squares,
             barred : SUBSET Castles,
             compl : SUBSET {White, Black}]

(***************************************************************************)
(* The tables.  Each is a constant, computed once from the geometry of the *)
(* board as squareUnderAttackGenerate does.                                *)
(***************************************************************************)
KnightAttack ==
  [s \in Squares |-> {t \in Squares : {Dist(Row(s), Row(t)), Dist(Col(s), Col(t))} = {1, 2}}]

\* The squares d rows up, and one column to the left or right.
Aside(s, d) == {t \in Squares : Row(t) = Row(s) + d /\ Dist(Col(s), Col(t)) = 1}

\* The squares from which a black (white) pawn attacks s.
BlackPawnAttack == [s \in Squares |-> IF Row(s) <= 5 THEN Aside(s, 1) ELSE {}]
WhitePawnAttack == [s \in Squares |-> IF Row(s) >= 2 THEN Aside(s, -1) ELSE {}]

\* The squares from which a pawn can capture, en passant, a pawn on s.
BlackPawnEnPassantAttack == [s \in Squares |-> IF Row(s) = 3 THEN Aside(s, 0) ELSE {}]
WhitePawnEnPassantAttack == [s \in Squares |-> IF Row(s) = 4 THEN Aside(s, 0) ELSE {}]

\* The squares whose piece a pawn on s may capture, those beside it included.
WhitePawnCapture ==
  [s \in Squares |-> Aside(s, 1) \cup (IF Row(s) = 4 THEN Aside(s, 0) ELSE {})]
BlackPawnCapture ==
  [s \in Squares |-> Aside(s, -1) \cup (IF Row(s) = 3 THEN Aside(s, 0) ELSE {})]

KingAttack ==
  [s \in Squares |->
     {t \in Squares \ {s} : Dist(Row(s), Row(t)) <= 1 /\ Dist(Col(s), Col(t)) <= 1}]

DiagonalAttack ==
  [s \in Squares |-> {t \in Squares \ {s} : Dist(Row(s), Row(t)) = Dist(Col(s), Col(t))}]

\* A blocker is an attacked square with another one behind it, seen from s.
DiagonalBlocker ==
  [s \in Squares |-> {t \in DiagonalAttack[s] : Row(t) \in 1 .. 6 /\ Col(t) \in 1 .. 6}]

UdlrAttack ==
  [s \in Squares |-> {t \in Squares \ {s} : Row(s) = Row(t) \/ Col(s) = Col(t)}]

UdlrBlocker ==
  [s \in Squares |-> {t \in UdlrAttack[s] : IF Row(s) = Row(t) THEN Col(t) \in 1 .. 6
                                                              ELSE Row(t) \in 1 .. 6}]

\* The squares strictly between two squares of one line.
AttackLanes ==
  LET Within(x, a, b) == Dist(a, x) + Dist(x, b) = Dist(a, b)
  IN [s \in Squares |-> [t \in Squares |->
        UNION {{x \in line[s] \cap line[t] : /\ Within(Row(x), Row(s), Row(t))
                                            /\ Within(Col(x), Col(s), Col(t))} :
                 line \in {l \in {DiagonalAttack, UdlrAttack} : t \in l[s]}}]]

(***************************************************************************)
(* The visibility maps: what a bishop or a rook on s sees on a board with  *)
(* these occupied squares.  The code finds the entry under the occupied    *)
(* blocker squares (lookupKeyCompute), so the others cannot matter.        *)
(***************************************************************************)
lookupKeyCompute(occupied, blockers) == occupied \cap blockers

DiagonalVisible(s, occupied) ==
  LET key == lookupKeyCompute(occupied, DiagonalBlocker[s])
  IN {t \in DiagonalAttack[s] : AttackLanes[s][t] \cap key = {}}

UdlrVisible(s, occupied) ==
  LET key == lookupKeyCompute(occupied, UdlrBlocker[s])
  IN {t \in UdlrAttack[s] : AttackLanes[s][t] \cap key = {}}

(***************************************************************************)
(* The danger maps: the squares from which a piece can attack the king or  *)
(* a square it can step to, given the mover's pieces around the king.  For *)
(* a king on the first or last row twelve squares of its neighbourhood are *)
(* looked at, otherwise the eight around it.                               *)
(***************************************************************************)
KingNeighbourhood ==
  [c \in 0 .. 7 |->
     CASE c = 0 -> <<{1, 2}, {1, 2}, {1, 2}, {1, 2}, {1, 2}, {1, 2}>>
       [] c = 1 -> <<{2, 3}, {0, 1, 2, 3}, {0, 1, 2, 3}, {0, 2}>>
       [] c = 2 -> <<{1, 3}, {1, 2, 3, 4}, {1, 2, 3, 4}, {1, 3}>>
       [] c = 3 -> <<{2, 4}, {1, 2, 3, 4, 5}, {2, 3, 4}, {2, 4}>>
       [] c = 4 -> <<{3, 5}, {2, 3, 4, 5, 6}, {3, 4, 5}, {3, 5}>>
       [] c = 5 -> <<{4, 6}, {3, 4, 5, 6, 7}, {4, 5, 6}, {4, 6}>>
       [] c = 6 -> <<{4, 5}, {4, 5, 6, 7}, {4, 5, 6, 7}, {5, 7}>>
       [] c = 7 -> <<{5, 6}, {5, 6}, {5, 6}, {5, 6}, {5, 6}, {5, 6}>>]

\* The same squares for white, whose corner h1 has (6, 5) in place of (5, 6).
WhiteKingOccupancy(c) ==
  IF c = 7 THEN ({Sq(r, 5) : r \in 0 .. 6} \cup {Sq(r, 6) : r \in 0 .. 4})
  ELSE UNION {{Sq(i - 1, k) : k \in KingNeighbourhood[c][i]} :
                i \in DOMAIN KingNeighbourhood[c]}

BlackKingOccupancy(c) ==
  UNION {{Sq(8 - i, k) : k \in KingNeighbourhood[c][i]} : i \in DOMAIN KingNeighbourhood[c]}

KingOccupancy ==
  [s \in Squares |-> CASE Row(s) = 0 -> WhiteKingOccupancy(Col(s))
                       [] Row(s) = 7 -> BlackKingOccupancy(Col(s))
                       [] OTHER -> KingAttack[s]]

\* Where the king may go as far as its own pieces tell, castling included.
KingMovement ==
  [s \in Squares |-> KingAttack[s] \cup (IF s \in {Sq(0, 4), Sq(7, 4)} THEN {s - 2, s + 2} ELSE {})]

KnightDanger(s, mover) ==
  KnightAttack[s] \cup UNION {KnightAttack[t] :
                                t \in KingMovement[s] \ (mover \cap KingOccupancy[s])}

\* The sliders of one kind that stand in the danger map: those that see a square
\* the king can go to, and those that can check it or pin one of its pieces.
InDanger(s, mover, attack, sliders) ==
  LET occupied == mover \cap KingOccupancy[s]
      open == KingMovement[s] \ occupied
  IN {t \in sliders :
        \/ \E to \in open : t \in attack[to] /\ AttackLanes[to][t] \cap occupied = {}
        \/ /\ t \in attack[s]
           /\ Row(s) \in 1 .. 6 \/ Cardinality(AttackLanes[t][s] \cap occupied) < 2}

(***************************************************************************)
(* kingInCheck: is the king of side w on square s attacked?                *)
(***************************************************************************)
kingInCheck(w, piece, s, occupied) ==
  LET enemy(type) == piece[Piece(type, Other(w))]
      pawnAttack == IF w = White THEN BlackPawnAttack ELSE WhitePawnAttack
  IN \/ enemy(S_KNIGHT) \cap KnightAttack[s] # {}
     \/ enemy(S_PAWN) \cap pawnAttack[s] # {}
     \/ (enemy(S_ROOK) \cup enemy(S_QUEEN)) \cap UdlrVisible(s, occupied) # {}
     \/ (enemy(S_BISHOP) \cup enemy(S_QUEEN)) \cap DiagonalVisible(s, occupied) # {}

(***************************************************************************)
(* A move carries up to three masks and the pieces they belong to; making  *)
(* it flips each mask in the board of its piece and of its colour.  The    *)
(* code takes a move back with the very same operation.                    *)
(***************************************************************************)
Flip(b, f) ==
  [b EXCEPT !.piece[f.p] = Xor(@, f.mask), !.color[ColorOf(f.p)] = Xor(@, f.mask)]

moveDo(b, flips) ==
  LET Step(bits, i) == IF i > Len(flips) THEN bits ELSE Flip(bits, flips[i])
  IN Step(Step(Step(b, 1), 2), 3)

moveUndo(b, flips) == moveDo(b, flips)

\* The sides that hold exactly two knights, bishops and rooks and one queen.
pieceStandardComplement(piece) ==
  {w \in {White, Black} :
     /\ \A type \in {S_KNIGHT, S_BISHOP, S_ROOK} : Cardinality(piece[Piece(type, w)]) = 2
     /\ Cardinality(piece[Piece(S_QUEEN, w)]) = 1}
=============================================================================
