------------------------------ MODULE ChessRules ------------------------------
(***************************************************************************)
(* The rules of chess, written without the bit boards and their tables: a  *)
(* board that says what stands on each square, moves found by looking      *)
(* along lines, and a move legal when the own king is not attacked after   *)
(* it.  What the move generator and the perft programs promise is stated   *)
(* against this module.  Of the code it uses only the numbering of squares *)
(* and pieces.                                                             *)
(***************************************************************************)
EXTENDS BitBoard, FiniteSetsExt, TLC

Empty == 0

\* A position of the code as a position of the rules.
Meaning(p) ==
  [at |-> [s \in Squares |-> LET here == {code \in PieceCodes : s \in p.piece[code]}
                             IN IF here = {} THEN Empty ELSE CHOOSE code \in here : TRUE],
   turn |-> p.turn, ep |-> p.ep, rights |-> Castles \ p.barred]

Holds(g, s, type, w) == g.at[s] = Piece(type, w)
Owned(g, w) == {s \in Squares : g.at[s] # Empty /\ ColorOf(g.at[s]) = w}

\* The squares from a to b in a straight line, without both ends, are empty.
Sign(n) == IF n > 0 THEN 1 ELSE IF n < 0 THEN -1 ELSE 0
Clear(g, a, b) ==
  LET dr == Sign(Row(b) - Row(a))
      dc == Sign(Col(b) - Col(a))
      n == IF dr = 0 THEN Dist(Col(a), Col(b)) ELSE Dist(Row(a), Row(b))
  IN \A k \in 1 .. n - 1 : g.at[Sq(Row(a) + k * dr, Col(a) + k * dc)] = Empty

Ahead(w) == IF w = White THEN 1 ELSE -1

\* The piece on a attacks the square b.
Attacks(g, a, b) ==
  LET dr == Dist(Row(a), Row(b))
      dc == Dist(Col(a), Col(b))
      straight == (dr = 0) # (dc = 0)
      oblique == dr = dc /\ dr > 0
  IN CASE TypeOf(g.at[a]) = S_PAWN -> Row(b) - Row(a) = Ahead(ColorOf(g.at[a])) /\ dc = 1
       [] TypeOf(g.at[a]) = S_KNIGHT -> {dr, dc} = {1, 2}
       [] TypeOf(g.at[a]) = S_BISHOP -> oblique /\ Clear(g, a, b)
       [] TypeOf(g.at[a]) = S_ROOK -> straight /\ Clear(g, a, b)
       [] TypeOf(g.at[a]) = S_QUEEN -> (oblique \/ straight) /\ Clear(g, a, b)
       [] TypeOf(g.at[a]) = S_KING -> a # b /\ dr <= 1 /\ dc <= 1

AttackedBy(g, b, w) == \E a \in Owned(g, w) : Attacks(g, a, b)
InCheck(g, w) == \E s \in Squares : Holds(g, s, S_KING, w) /\ AttackedBy(g, s, Other(w))

\* A move as a person would write it: from, to, the piece a pawn turns into or 0.
Play(from, to, becomes) == [from |-> from, to |-> to, becomes |-> becomes]

PawnTargets(g, a) ==
  LET one == a + 8 * Ahead(g.turn)
      two == a + 16 * Ahead(g.turn)
      home == IF g.turn = White THEN 1 ELSE 6
  IN (IF g.at[one] = Empty THEN {one} ELSE {})
       \cup (IF Row(a) = home /\ g.at[one] = Empty /\ g.at[two] = Empty THEN {two} ELSE {})
       \cup {b \in Squares : /\ Attacks(g, a, b)
                             /\ \/ b \in Owned(g, Other(g.turn))
                                \/ g.ep # 0 /\ b = g.ep + 8 * Ahead(g.turn)}

\* King and rook at home, nothing between them, no attack on the king's way.
CastleTargets(g, a) ==
  LET row == IF g.turn = White THEN 0 ELSE 7
      May(right, rook, between, way) ==
        /\ right \in g.rights /\ a = Sq(row, 4) /\ Holds(g, Sq(row, rook), S_ROOK, g.turn)
        /\ \A c \in between : g.at[Sq(row, c)] = Empty
        /\ \A c \in way : ~AttackedBy(g, Sq(row, c), Other(g.turn))
  IN (IF May(IF g.turn = White THEN "ws" ELSE "bs", 7, {5, 6}, {4, 5, 6}) THEN {Sq(row, 6)} ELSE {})
       \cup (IF May(IF g.turn = White THEN "wl" ELSE "bl", 0, {1, 2, 3}, {4, 3, 2})
             THEN {Sq(row, 2)} ELSE {})

Plays(g, a) ==
  CASE TypeOf(g.at[a]) = S_PAWN ->
         {Play(a, b, becomes) : b \in {c \in PawnTargets(g, a) : Row(c) \in {0, 7}},
                                becomes \in S_KNIGHT .. S_QUEEN}
           \cup {Play(a, b, Empty) : b \in {c \in PawnTargets(g, a) : Row(c) \in 1 .. 6}}
    [] TypeOf(g.at[a]) = S_KING ->
         {Play(a, b, Empty) : b \in CastleTargets(g, a) \cup
                                    {c \in Squares \ Owned(g, g.turn) : Attacks(g, a, c)}}
    [] OTHER -> {Play(a, b, Empty) : b \in {c \in Squares \ Owned(g, g.turn) : Attacks(g, a, c)}}

\* A castle needs its king and rook unmoved: any move from or to their squares ends it.
Homes == [ws |-> {4, 7}, wl |-> {4, 0}, bs |-> {60, 63}, bl |-> {60, 56}]

\* The position after a move.  A pawn that went two squares can be captured en passant if
\* a pawn of the opponent stands beside it.
Played(g, m) ==
  LET moving == g.at[m.from]
      pawn == TypeOf(moving) = S_PAWN
      enPassant == pawn /\ Col(m.from) # Col(m.to) /\ g.at[m.to] = Empty
      castling == TypeOf(moving) = S_KING /\ Dist(Col(m.from), Col(m.to)) = 2
      rookFrom == Sq(Row(m.from), IF m.to > m.from THEN 7 ELSE 0)
      rookTo == (m.from + m.to) \div 2
      beside == {s \in Squares : Row(s) = Row(m.to) /\ Dist(Col(s), Col(m.to)) = 1}
  IN [at |-> (m.from :> Empty)
               @@ (m.to :> IF m.becomes = Empty THEN moving ELSE Piece(m.becomes, g.turn))
               @@ (IF castling THEN (rookFrom :> Empty) @@ (rookTo :> Piece(S_ROOK, g.turn)) ELSE <<>>)
               @@ (IF enPassant THEN g.ep :> Empty ELSE <<>>)
               @@ g.at,
      turn |-> Other(g.turn),
      ep |-> IF /\ pawn /\ Dist(Row(m.from), Row(m.to)) = 2
                /\ \E s \in beside : Holds(g, s, S_PAWN, Other(g.turn)) THEN m.to ELSE 0,
      rights |-> {r \in g.rights : {m.from, m.to} \cap Homes[r] = {}}]

Legal(g) == {m \in UNION {Plays(g, a) : a \in Owned(g, g.turn)} : ~InCheck(Played(g, m), g.turn)}

\* The number of games of that many moves.
RECURSIVE Games(_, _)
Games(g, depth) ==
  IF depth = 0 THEN 1
  ELSE IF depth = 1 THEN Cardinality(Legal(g))
  ELSE MapThenSumSet(LAMBDA m : Games(Played(g, m), depth - 1), Legal(g))
=============================================================================
