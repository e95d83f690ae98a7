--------------------------- MODULE OperatorProofs ----------------------------
(***************************************************************************)
(* Lemmas about the operators that the models are built from, none about a *)
(* behaviour.  First those of movegen.c: a move is made and taken back     *)
(* with the same operation, on one board for the whole game tree.  Then    *)
(* those of create-db: sequences of entries, and the boxes that they are   *)
(* in between qsort and the file, or between the file and the thread that  *)
(* takes them (the ranges of a block, files, buffers, messages).  A step   *)
(* of any thread moves an entry from one box to another, so that nothing   *)
(* gets lost or doubled and the order that is relied on is kept.           *)
(***************************************************************************)
EXTENDS BitBoard, MergeStreams, SequenceTheorems, FiniteSetTheorems, WellFoundedInduction, TLAPS

\* One mask of a move, and what a move carries: up to three of them.
Flips == [p : PieceCodes, mask : SUBSET Squares]
Carried == {flips \in Seq(Flips) : Len(flips) <= 3}

\* The colour is read off bit 3 of the piece.
LEMMA ColorOfPiece ==
  ASSUME NEW p \in PieceCodes
  PROVE  ColorOf(p) \in {White, Black}
<1>1. PICK type \in 1 .. 6, w \in {White, Black} : p = Piece(type, w)
  BY DEF PieceCodes
<1>2. CASE w = 0
  BY <1>1, <1>2 DEF Piece, ColorOf, White, Black
<1>3. CASE w = 1
  BY <1>1, <1>3 DEF Piece, ColorOf, White, Black
<1> QED BY <1>2, <1>3 DEF White, Black

\* A square map flipped twice with one mask is the old one.
LEMMA XorTwice == ASSUME NEW A, NEW B PROVE Xor(Xor(A, B), B) = A
BY DEF Xor

\* With two masks, the order does not matter.
LEMMA XorOrder == ASSUME NEW A, NEW B, NEW C PROVE Xor(Xor(A, B), C) = Xor(Xor(A, C), B)
BY DEF Xor

\* A flip keeps a position within the types of bitBrd_t.
LEMMA FlipKeeps ==
  ASSUME NEW b \in Position, NEW f \in Flips
  PROVE  Flip(b, f) \in Position
<1>1. ColorOf(f.p) \in {White, Black}
  BY ColorOfPiece DEF Flips
<1>2. \A A \in SUBSET Squares : Xor(A, f.mask) \in SUBSET Squares
  BY DEF Flips, Xor
<1> QED BY <1>1, <1>2 DEF Position, Flips, Flip

\* What a flip does to each part of a position.
LEMMA FlipParts ==
  ASSUME NEW b \in Position, NEW f \in Flips
  PROVE  /\ \A p \in PieceCodes :
              Flip(b, f).piece[p] = IF p = f.p THEN Xor(b.piece[p], f.mask) ELSE b.piece[p]
         /\ \A w \in {White, Black} :
              Flip(b, f).color[w] = IF w = ColorOf(f.p) THEN Xor(b.color[w], f.mask)
                                                        ELSE b.color[w]
         /\ Flip(b, f).turn = b.turn /\ Flip(b, f).ep = b.ep
         /\ Flip(b, f).barred = b.barred /\ Flip(b, f).compl = b.compl
<1>1. ColorOf(f.p) \in {White, Black} /\ f.p \in PieceCodes
  BY ColorOfPiece DEF Flips
<1> QED BY <1>1 DEF Position, Flip

\* Two positions that agree in every part are the same.
LEMMA SameParts ==
  ASSUME NEW a \in Position, NEW b \in Position,
         \A p \in PieceCodes : a.piece[p] = b.piece[p],
         \A w \in {White, Black} : a.color[w] = b.color[w],
         a.turn = b.turn, a.ep = b.ep, a.barred = b.barred, a.compl = b.compl
  PROVE  a = b
<1>1. a.piece = b.piece
  BY DEF Position
<1>2. a.color = b.color
  BY DEF Position
<1> QED BY <1>1, <1>2 DEF Position

\* A flip undoes itself.
LEMMA FlipTwice ==
  ASSUME NEW b \in Position, NEW f \in Flips
  PROVE  Flip(Flip(b, f), f) = b
<1> DEFINE c == Flip(b, f)
           d == Flip(c, f)
<1>1. c \in Position /\ d \in Position
  BY FlipKeeps
<1>2. ASSUME NEW p \in PieceCodes PROVE d.piece[p] = b.piece[p]
  <2> HIDE DEF c, d
  <2>1. c.piece[p] = IF p = f.p THEN Xor(b.piece[p], f.mask) ELSE b.piece[p]
    BY FlipParts DEF c
  <2>2. d.piece[p] = IF p = f.p THEN Xor(c.piece[p], f.mask) ELSE c.piece[p]
    BY <1>1, FlipParts DEF d
  <2> QED BY <2>1, <2>2, XorTwice
<1>3. ASSUME NEW w \in {White, Black} PROVE d.color[w] = b.color[w]
  <2> HIDE DEF c, d
  <2>1. c.color[w] = IF w = ColorOf(f.p) THEN Xor(b.color[w], f.mask) ELSE b.color[w]
    BY FlipParts DEF c
  <2>2. d.color[w] = IF w = ColorOf(f.p) THEN Xor(c.color[w], f.mask) ELSE c.color[w]
    BY <1>1, FlipParts DEF d
  <2> QED BY <2>1, <2>2, XorTwice
<1>4. d.turn = b.turn /\ d.ep = b.ep /\ d.barred = b.barred /\ d.compl = b.compl
  <2> HIDE DEF c, d
  <2>1. c.turn = b.turn /\ c.ep = b.ep /\ c.barred = b.barred /\ c.compl = b.compl
    BY FlipParts DEF c
  <2>2. d.turn = c.turn /\ d.ep = c.ep /\ d.barred = c.barred /\ d.compl = c.compl
    BY <1>1, FlipParts DEF d
  <2> QED BY <2>1, <2>2
<1> HIDE DEF d
<1> QED BY <1>1, <1>2, <1>3, <1>4, SameParts DEF d

\* Two masks may be flipped in either order, whatever pieces they belong to.
LEMMA FlipOrder ==
  ASSUME NEW b \in Position, NEW f \in Flips, NEW g \in Flips
  PROVE  Flip(Flip(b, f), g) = Flip(Flip(b, g), f)
<1> DEFINE bf == Flip(b, f)
           bg == Flip(b, g)
           l == Flip(bf, g)
           r == Flip(bg, f)
<1>1. bf \in Position /\ bg \in Position /\ l \in Position /\ r \in Position
  BY FlipKeeps
<1> HIDE DEF bf, bg, l, r
<1>2. ASSUME NEW p \in PieceCodes PROVE l.piece[p] = r.piece[p]
  <2>1. bf.piece[p] = IF p = f.p THEN Xor(b.piece[p], f.mask) ELSE b.piece[p]
    BY FlipParts DEF bf
  <2>2. bg.piece[p] = IF p = g.p THEN Xor(b.piece[p], g.mask) ELSE b.piece[p]
    BY FlipParts DEF bg
  <2>3. l.piece[p] = IF p = g.p THEN Xor(bf.piece[p], g.mask) ELSE bf.piece[p]
    BY <1>1, FlipParts DEF l
  <2>4. r.piece[p] = IF p = f.p THEN Xor(bg.piece[p], f.mask) ELSE bg.piece[p]
    BY <1>1, FlipParts DEF r
  <2> QED BY <2>1, <2>2, <2>3, <2>4, XorOrder
<1>3. ASSUME NEW w \in {White, Black} PROVE l.color[w] = r.color[w]
  <2>1. bf.color[w] = IF w = ColorOf(f.p) THEN Xor(b.color[w], f.mask) ELSE b.color[w]
    BY FlipParts DEF bf
  <2>2. bg.color[w] = IF w = ColorOf(g.p) THEN Xor(b.color[w], g.mask) ELSE b.color[w]
    BY FlipParts DEF bg
  <2>3. l.color[w] = IF w = ColorOf(g.p) THEN Xor(bf.color[w], g.mask) ELSE bf.color[w]
    BY <1>1, FlipParts DEF l
  <2>4. r.color[w] = IF w = ColorOf(f.p) THEN Xor(bg.color[w], f.mask) ELSE bg.color[w]
    BY <1>1, FlipParts DEF r
  <2> QED BY <2>1, <2>2, <2>3, <2>4, XorOrder
<1>4. l.turn = r.turn /\ l.ep = r.ep /\ l.barred = r.barred /\ l.compl = r.compl
  <2>1. /\ bf.turn = b.turn /\ bf.ep = b.ep /\ bf.barred = b.barred /\ bf.compl = b.compl
        /\ bg.turn = b.turn /\ bg.ep = b.ep /\ bg.barred = b.barred /\ bg.compl = b.compl
    BY FlipParts DEF bf, bg
  <2>2. /\ l.turn = bf.turn /\ l.ep = bf.ep /\ l.barred = bf.barred /\ l.compl = bf.compl
        /\ r.turn = bg.turn /\ r.ep = bg.ep /\ r.barred = bg.barred /\ r.compl = bg.compl
    BY <1>1, FlipParts DEF l, r
  <2> QED BY <2>1, <2>2
<1>5. l = r
  BY <1>1, <1>2, <1>3, <1>4, SameParts
<1> QED BY <1>5 DEF bf, bg, l, r

(***************************************************************************)
(* What moveUndo rests on (its body is that of moveDo): whatever a move    *)
(* carries, making it and then taking it back leaves every part of the     *)
(* board as it was, so the counts of one branch of the game tree never     *)
(* touch those of the next.  The masks may overlap and belong to any       *)
(* pieces, so castling and promotions need no argument of their own.       *)
(***************************************************************************)
THEOREM MoveUndone ==
  ASSUME NEW b \in Position, NEW flips \in Carried
  PROVE  moveUndo(moveDo(b, flips), flips) = b
<1>1. /\ Len(flips) \in 0 .. 3
      /\ \A i \in 1 .. 3 : i <= Len(flips) => flips[i] \in Flips
  <2>1. flips \in Seq(Flips) /\ Len(flips) <= 3
    BY DEF Carried
  <2>2. Len(flips) \in Nat
    BY <2>1, LenProperties
  <2>3. \A i \in 1 .. Len(flips) : flips[i] \in Flips
    BY <2>1, ElementOfSeq
  <2>4. ASSUME NEW i \in 1 .. 3, i <= Len(flips) PROVE flips[i] \in Flips
    <3>1. i \in 1 .. Len(flips)
      BY <2>2, <2>4
    <3> QED BY <2>3, <3>1
  <2>5. Len(flips) \in 0 .. 3
    <3> DEFINE n == Len(flips)
    <3>1. n \in Nat /\ n <= 3
      BY <2>1, <2>2
    <3> HIDE DEF n
    <3>2. n \in 0 .. 3
      BY <3>1
    <3> QED BY <3>2 DEF n
  <2> QED BY <2>4, <2>5
<1>2. CASE Len(flips) = 0
  BY <1>2 DEF moveDo, moveUndo
<1>3. CASE Len(flips) = 1
  <2>1. moveUndo(moveDo(b, flips), flips) = Flip(Flip(b, flips[1]), flips[1])
    BY <1>3 DEF moveDo, moveUndo
  <2> QED BY <1>1, <1>3, <2>1, FlipTwice
<1>4. CASE Len(flips) = 2
  <2> DEFINE f == flips[1]
             g == flips[2]
  <2>1. f \in Flips /\ g \in Flips
    BY <1>1, <1>4
  <2>2. moveUndo(moveDo(b, flips), flips) = Flip(Flip(Flip(Flip(b, f), g), f), g)
    BY <1>4 DEF moveDo, moveUndo
  <2> HIDE DEF f, g
  <2>3. Flip(Flip(Flip(b, f), g), f) = Flip(b, g)
    <3>1. Flip(b, f) \in Position
      BY <2>1, FlipKeeps
    <3>2. Flip(Flip(Flip(b, f), g), f) = Flip(Flip(Flip(b, f), f), g)
      BY <2>1, <3>1, FlipOrder
    <3> QED BY <2>1, <3>2, FlipTwice
  <2> QED BY <2>1, <2>2, <2>3, FlipTwice
<1>5. CASE Len(flips) = 3
  <2> DEFINE f == flips[1]
             g == flips[2]
             h == flips[3]
  <2>1. f \in Flips /\ g \in Flips /\ h \in Flips
    BY <1>1, <1>5
  <2>2. moveUndo(moveDo(b, flips), flips)
          = Flip(Flip(Flip(Flip(Flip(Flip(b, f), g), h), f), g), h)
    BY <1>5 DEF moveDo, moveUndo
  <2> HIDE DEF f, g, h
  <2>3. /\ Flip(b, f) \in Position /\ Flip(b, g) \in Position
        /\ Flip(Flip(b, f), g) \in Position
    BY <2>1, FlipKeeps
  <2>4. Flip(Flip(Flip(Flip(b, f), g), h), f) = Flip(Flip(b, g), h)
    <3>1. Flip(Flip(Flip(Flip(b, f), g), h), f) = Flip(Flip(Flip(Flip(b, f), g), f), h)
      BY <2>1, <2>3, FlipOrder
    <3>2. Flip(Flip(Flip(b, f), g), f) = Flip(Flip(Flip(b, f), f), g)
      BY <2>1, <2>3, FlipOrder
    <3> QED BY <2>1, <3>1, <3>2, FlipTwice
  <2>5. Flip(Flip(Flip(b, g), h), g) = Flip(b, h)
    <3>1. Flip(Flip(Flip(b, g), h), g) = Flip(Flip(Flip(b, g), g), h)
      BY <2>1, <2>3, FlipOrder
    <3> QED BY <2>1, <3>1, FlipTwice
  <2> QED BY <2>1, <2>2, <2>4, <2>5, FlipTwice
<1> QED BY <1>1, <1>2, <1>3, <1>4, <1>5

-----------------------------------------------------------------------------
(* Entries, in sequences and boxes.                                        *)

(* Entries, of numbers of any size.                                        *)
Items == [key : Nat, val : Nat]

(* Sorted by key.                                                          *)
Ascending(q) == \A k, l \in 1..Len(q) : k < l => q[k].key <= q[l].key

(* Boxes with entries in them: what is in all of them, and that nothing is *)
(* there twice.                                                            *)
Contents(B) == UNION {{B[c][k] : k \in 1..Len(B[c])} : c \in DOMAIN B}
Distinct(B) ==
  \A c, d \in DOMAIN B : \A k \in 1..Len(B[c]), l \in 1..Len(B[d]) :
    B[c][k] = B[d][l] => c = d /\ k = l

-----------------------------------------------------------------------------
(* Sequences.                                                              *)

LEMMA SubSeqIs ==
  ASSUME NEW S, NEW q \in Seq(S), NEW m \in Nat \ {0}, NEW n \in 0..Len(q)
  PROVE  /\ SubSeq(q, m, n) \in Seq(S)
         /\ Len(SubSeq(q, m, n)) = IF m <= n THEN n - m + 1 ELSE 0
         /\ \A i \in 1..Len(SubSeq(q, m, n)) : SubSeq(q, m, n)[i] = q[m + i - 1]
<1>1. \A i \in m..n : q[i] \in S
  BY ElementOfSeq
<1>. QED
  BY <1>1, SubSeqProperties

LEMMA EmptyIs ==
  ASSUME NEW S, NEW q \in Seq(S)
  PROVE  q = <<>> <=> Len(q) = 0
BY EmptySeq

LEMMA TailIs ==
  ASSUME NEW S, NEW q \in Seq(S), q # <<>>
  PROVE  /\ Head(q) = q[1] /\ Head(q) \in S
         /\ Tail(q) \in Seq(S) /\ Len(Tail(q)) = Len(q) - 1
         /\ \A i \in 1..Len(q) - 1 : Tail(q)[i] = q[i + 1]
         /\ Len(q) \in Nat \ {0}
BY HeadTailProperties, EmptyIs

LEMMA AppendIs ==
  ASSUME NEW S, NEW q \in Seq(S), NEW e \in S
  PROVE  /\ Append(q, e) \in Seq(S)
         /\ Len(Append(q, e)) = Len(q) + 1
         /\ \A i \in 1..Len(q) : Append(q, e)[i] = q[i]
         /\ Append(q, e)[Len(q) + 1] = e
         /\ Len(q) \in Nat
BY AppendProperties

(* q without its first entry is still sorted, and so is q with a largest   *)
(* entry added.                                                            *)
LEMMA AscendingTail ==
  ASSUME NEW q \in Seq(Items), q # <<>>, Ascending(q)
  PROVE  /\ Ascending(Tail(q))
         /\ \A k \in 1..Len(Tail(q)) : Head(q).key <= Tail(q)[k].key
BY TailIs DEF Ascending

LEMMA AscendingAppend ==
  ASSUME NEW q \in Seq(Items), NEW e \in Items, Ascending(q),
         \A k \in 1..Len(q) : q[k].key <= e.key
  PROVE  Ascending(Append(q, e))
<1>. DEFINE r == Append(q, e)
<1>1. /\ Len(r) = Len(q) + 1 /\ \A i \in 1..Len(q) : r[i] = q[i]
      /\ r[Len(q) + 1] = e /\ Len(q) \in Nat
  BY AppendIs
<1>2. ASSUME NEW k \in 1..Len(r), NEW l \in 1..Len(r), k < l PROVE r[k].key <= r[l].key
  <2>1. CASE l = Len(q) + 1
    BY <1>1, <1>2, <2>1
  <2>2. CASE l <= Len(q)
    BY <1>1, <1>2, <2>2 DEF Ascending
  <2>. QED
    BY <1>1, <2>1, <2>2
<1>. QED
  BY <1>2 DEF Ascending

LEMMA AscendingHead ==
  ASSUME NEW q \in Seq(Items), q # <<>>, Ascending(q), NEW k \in 1..Len(q)
  PROVE  Head(q).key <= q[k].key
<1>1. q[1] \in Items /\ Head(q) = q[1] /\ 1 \in 1..Len(q) /\ Len(q) \in Nat
  BY TailIs, LenProperties
<1>. QED
  BY <1>1 DEF Ascending, Items

-----------------------------------------------------------------------------
(* Boxes.                                                                  *)

LEMMA InContents ==
  ASSUME NEW B, NEW e
  PROVE  e \in Contents(B) <=> \E c \in DOMAIN B : \E k \in 1..Len(B[c]) : B[c][k] = e
BY DEF Contents

LEMMA SamePlace ==
  ASSUME NEW B, Distinct(B), NEW c, NEW d, NEW k, NEW l,
         c \in DOMAIN B, d \in DOMAIN B, k \in 1..Len(B[c]), l \in 1..Len(B[d]),
         B[c][k] = B[d][l]
  PROVE  c = d /\ k = l
BY DEF Distinct

(* Entries that change their places: the k-th of box d of C was the        *)
(* N[d][k]-th of box G[d][k] of B.                                         *)
Carries(B, C, G, N) ==
  \A d \in DOMAIN C : \A k \in 1..Len(C[d]) :
    /\ G[d][k] \in DOMAIN B /\ N[d][k] \in 1..Len(B[G[d][k]])
    /\ C[d][k] = B[G[d][k]][N[d][k]]

Injects(C, G, N) ==
  \A d, f \in DOMAIN C : \A k \in 1..Len(C[d]), l \in 1..Len(C[f]) :
    G[d][k] = G[f][l] /\ N[d][k] = N[f][l] => d = f /\ k = l

LEMMA CarriedContents ==
  ASSUME NEW B, NEW C, NEW G, NEW N, Carries(B, C, G, N)
  PROVE  Contents(C) \subseteq Contents(B)
<1>1. ASSUME NEW e \in Contents(C) PROVE e \in Contents(B)
  <2>1. PICK d \in DOMAIN C : \E k \in 1..Len(C[d]) : C[d][k] = e
    BY <1>1, InContents
  <2>2. PICK k \in 1..Len(C[d]) : C[d][k] = e
    BY <2>1
  <2>3. G[d][k] \in DOMAIN B /\ N[d][k] \in 1..Len(B[G[d][k]]) /\ e = B[G[d][k]][N[d][k]]
    BY <2>2 DEF Carries
  <2>. QED
    BY <2>3, InContents
<1>. QED
  BY <1>1

LEMMA CarriedDistinct ==
  ASSUME NEW B, NEW C, NEW G, NEW N, Carries(B, C, G, N), Injects(C, G, N), Distinct(B)
  PROVE  Distinct(C)
<1>1. SUFFICES ASSUME NEW d \in DOMAIN C, NEW f \in DOMAIN C,
                      NEW k \in 1..Len(C[d]), NEW l \in 1..Len(C[f]), C[d][k] = C[f][l]
               PROVE  d = f /\ k = l
  BY DEF Distinct
<1>. DEFINE x == G[d][k]  y == G[f][l]  i == N[d][k]  j == N[f][l]
<1>2. x \in DOMAIN B /\ i \in 1..Len(B[x]) /\ C[d][k] = B[x][i]
  BY DEF Carries
<1>3. y \in DOMAIN B /\ j \in 1..Len(B[y]) /\ C[f][l] = B[y][j]
  BY DEF Carries
<1>4. B[x][i] = B[y][j]
  BY <1>1, <1>2, <1>3
<1>5. x = y /\ i = j
  <2>. HIDE DEF x, y, i, j
  <2>. QED
    BY <1>2, <1>3, <1>4, SamePlace
<1>. QED
  BY <1>5 DEF Injects

Lens(B) == \A x \in DOMAIN B : Len(B[x]) \in Nat

(* Where the k-th entry of box x was before the first of box c became the  *)
(* K-th of box d, or was taken out.                                        *)
WasIn(c, d, K, x, k) == IF x = d /\ k = K THEN c ELSE x
WasAt(c, d, K, x, k) == IF x = c THEN k + 1 ELSE IF x = d /\ k = K THEN 1 ELSE k
WasLater(c, x, k) == IF x = c THEN k + 1 ELSE k

LEMMA WasOnce ==
  ASSUME NEW c, NEW d, NEW K, NEW x, NEW y, NEW k \in Nat \ {0}, NEW l \in Nat \ {0}, c # d,
         WasIn(c, d, K, x, k) = WasIn(c, d, K, y, l), WasAt(c, d, K, x, k) = WasAt(c, d, K, y, l)
  PROVE  x = y /\ k = l
BY DEF WasIn, WasAt

LEMMA WasLaterOnce ==
  ASSUME NEW c, NEW x, NEW k \in Nat \ {0}, NEW l \in Nat \ {0},
         WasLater(c, x, k) = WasLater(c, x, l)
  PROVE  k = l
BY DEF WasLater

(* The first entry of box c goes to the end of box d.                      *)
MovesHead(B, C, c, d) ==
  /\ DOMAIN C = DOMAIN B /\ c \in DOMAIN B /\ d \in DOMAIN B /\ c # d
  /\ Len(B[c]) # 0
  /\ Len(C[c]) = Len(B[c]) - 1 /\ \A i \in 1..Len(C[c]) : C[c][i] = B[c][i + 1]
  /\ Len(C[d]) = Len(B[d]) + 1 /\ C[d][Len(C[d])] = B[c][1]
  /\ \A i \in 1..Len(B[d]) : C[d][i] = B[d][i]
  /\ \A x \in DOMAIN B \ {c, d} : C[x] = B[x]

LEMMA HeadMoved ==
  ASSUME NEW B, NEW C, NEW c, NEW d, Lens(B), MovesHead(B, C, c, d)
  PROVE  Contents(C) = Contents(B) /\ (Distinct(B) => Distinct(C))
<1>. DEFINE G == [x \in DOMAIN C |-> [k \in 1..Len(C[x]) |-> WasIn(c, d, Len(C[d]), x, k)]]
            N == [x \in DOMAIN C |-> [k \in 1..Len(C[x]) |-> WasAt(c, d, Len(C[d]), x, k)]]
            H == [x \in DOMAIN B |-> [k \in 1..Len(B[x]) |-> IF x = c /\ k = 1 THEN d ELSE x]]
            M == [x \in DOMAIN B |-> [k \in 1..Len(B[x]) |->
                    IF x = c THEN (IF k = 1 THEN Len(C[d]) ELSE k - 1) ELSE k]]
<1>1. \A x \in DOMAIN C : \A k \in 1..Len(C[x]) :
        /\ G[x][k] = WasIn(c, d, Len(C[d]), x, k)
        /\ N[x][k] = WasAt(c, d, Len(C[d]), x, k)
  OBVIOUS
<1>2. \A x \in DOMAIN B : \A k \in 1..Len(B[x]) :
        /\ H[x][k] = IF x = c /\ k = 1 THEN d ELSE x
        /\ M[x][k] = IF x = c THEN (IF k = 1 THEN Len(C[d]) ELSE k - 1) ELSE k
  OBVIOUS
<1>. HIDE DEF G, N, H, M
<1>3. Carries(B, C, G, N)
  <2>1. ASSUME NEW x \in DOMAIN C, NEW k \in 1..Len(C[x])
        PROVE  G[x][k] \in DOMAIN B /\ N[x][k] \in 1..Len(B[G[x][k]]) /\ C[x][k] = B[G[x][k]][N[x][k]]
    <3>1. CASE x = c
      <4>1. G[x][k] = c /\ N[x][k] = k + 1
        BY <1>1, <3>1 DEF MovesHead, WasIn, WasAt
      <4>. QED
        BY <4>1, <3>1 DEF MovesHead, Lens
    <3>2. CASE x = d /\ k = Len(C[d])
      <4>1. G[x][k] = c /\ N[x][k] = 1
        BY <1>1, <3>2 DEF MovesHead, WasIn, WasAt
      <4>. QED
        BY <4>1, <3>2 DEF MovesHead, Lens
    <3>3. CASE x # c /\ ~(x = d /\ k = Len(C[d]))
      <4>1. G[x][k] = x /\ N[x][k] = k
        BY <1>1, <3>3 DEF WasIn, WasAt
      <4>. QED
        BY <4>1, <3>3 DEF MovesHead, Lens
    <3>. QED
      BY <3>1, <3>2, <3>3
  <2>. QED
    BY <2>1 DEF Carries
<1>4. Carries(C, B, H, M)
  <2>1. ASSUME NEW x \in DOMAIN B, NEW k \in 1..Len(B[x])
        PROVE  H[x][k] \in DOMAIN C /\ M[x][k] \in 1..Len(C[H[x][k]]) /\ B[x][k] = C[H[x][k]][M[x][k]]
    <3>1. CASE x = c /\ k = 1
      <4>1. H[x][k] = d /\ M[x][k] = Len(C[d])
        BY <1>2, <3>1
      <4>. QED
        BY <4>1, <3>1 DEF MovesHead, Lens
    <3>2. CASE x = c /\ k # 1
      <4>1. H[x][k] = c /\ M[x][k] = k - 1
        BY <1>2, <3>2
      <4>. QED
        BY <4>1, <3>2 DEF MovesHead, Lens
    <3>3. CASE x # c
      <4>1. H[x][k] = x /\ M[x][k] = k
        BY <1>2, <3>3
      <4>. QED
        BY <4>1, <3>3 DEF MovesHead, Lens
    <3>. QED
      BY <3>1, <3>2, <3>3
  <2>. QED
    BY <2>1 DEF Carries
<1>5. Injects(C, G, N)
  <2>1. SUFFICES ASSUME NEW x \in DOMAIN C, NEW y \in DOMAIN C,
                        NEW k \in 1..Len(C[x]), NEW l \in 1..Len(C[y]),
                        G[x][k] = G[y][l], N[x][k] = N[y][l]
                 PROVE  x = y /\ k = l
    BY DEF Injects
  <2>2. /\ G[x][k] = WasIn(c, d, Len(C[d]), x, k) /\ N[x][k] = WasAt(c, d, Len(C[d]), x, k)
        /\ G[y][l] = WasIn(c, d, Len(C[d]), y, l) /\ N[y][l] = WasAt(c, d, Len(C[d]), y, l)
    BY <1>1
  <2>3. k \in Nat \ {0} /\ l \in Nat \ {0} /\ c # d
    BY DEF MovesHead, Lens
  <2>4. /\ WasIn(c, d, Len(C[d]), x, k) = WasIn(c, d, Len(C[d]), y, l)
        /\ WasAt(c, d, Len(C[d]), x, k) = WasAt(c, d, Len(C[d]), y, l)
    BY <2>1, <2>2
  <2>. QED
    BY <2>3, <2>4, WasOnce
<1>. QED
  BY <1>3, <1>4, <1>5, CarriedContents, CarriedDistinct

(* The first entry of box c is taken out.                                  *)
TakesHead(B, C, c) ==
  /\ DOMAIN C = DOMAIN B /\ c \in DOMAIN B /\ Len(B[c]) # 0
  /\ Len(C[c]) = Len(B[c]) - 1 /\ \A i \in 1..Len(C[c]) : C[c][i] = B[c][i + 1]
  /\ \A x \in DOMAIN B \ {c} : C[x] = B[x]

LEMMA HeadTaken ==
  ASSUME NEW B, NEW C, NEW c, Lens(B), TakesHead(B, C, c)
  PROVE  /\ Contents(B) = Contents(C) \cup {B[c][1]}
         /\ Distinct(B) => Distinct(C) /\ B[c][1] \notin Contents(C)
<1>. DEFINE G == [x \in DOMAIN C |-> [k \in 1..Len(C[x]) |-> x]]
            N == [x \in DOMAIN C |-> [k \in 1..Len(C[x]) |-> WasLater(c, x, k)]]
<1>1. \A x \in DOMAIN C : \A k \in 1..Len(C[x]) :
        G[x][k] = x /\ N[x][k] = WasLater(c, x, k)
  OBVIOUS
<1>. HIDE DEF G, N
<1>2. Carries(B, C, G, N)
  <2>1. ASSUME NEW x \in DOMAIN C, NEW k \in 1..Len(C[x])
        PROVE  G[x][k] \in DOMAIN B /\ N[x][k] \in 1..Len(B[G[x][k]]) /\ C[x][k] = B[G[x][k]][N[x][k]]
    <3>1. G[x][k] = x /\ N[x][k] = WasLater(c, x, k)
      BY <1>1
    <3>2. CASE x = c
      BY <3>1, <3>2 DEF TakesHead, Lens, WasLater
    <3>3. CASE x # c
      BY <3>1, <3>3 DEF TakesHead, Lens, WasLater
    <3>. QED
      BY <3>2, <3>3
  <2>. QED
    BY <2>1 DEF Carries
<1>3. Injects(C, G, N)
  <2>1. SUFFICES ASSUME NEW x \in DOMAIN C, NEW y \in DOMAIN C,
                        NEW k \in 1..Len(C[x]), NEW l \in 1..Len(C[y]),
                        G[x][k] = G[y][l], N[x][k] = N[y][l]
                 PROVE  x = y /\ k = l
    BY DEF Injects
  <2>2. /\ G[x][k] = x /\ N[x][k] = WasLater(c, x, k)
        /\ G[y][l] = y /\ N[y][l] = WasLater(c, y, l)
    BY <1>1
  <2>3. k \in Nat \ {0} /\ l \in Nat \ {0}
    BY DEF TakesHead, Lens
  <2>4. x = y /\ WasLater(c, x, k) = WasLater(c, x, l)
    BY <2>1, <2>2
  <2>. QED
    BY <2>3, <2>4, WasLaterOnce
<1>4. c \in DOMAIN B /\ 1 \in 1..Len(B[c])
  BY DEF TakesHead, Lens
<1>5. B[c][1] \in Contents(B)
  BY <1>4, InContents
<1>6. ASSUME NEW e \in Contents(B), e # B[c][1] PROVE e \in Contents(C)
  <2>1. PICK x \in DOMAIN B : \E k \in 1..Len(B[x]) : B[x][k] = e
    BY <1>6, InContents
  <2>2. PICK k \in 1..Len(B[x]) : B[x][k] = e
    BY <2>1
  <2>3. CASE x = c
    <3>1. k - 1 \in 1..Len(C[c]) /\ C[c][k - 1] = e /\ c \in DOMAIN C
      BY <1>6, <2>2, <2>3 DEF TakesHead, Lens
    <3>. QED
      BY <3>1, InContents
  <2>4. CASE x # c
    <3>1. k \in 1..Len(C[x]) /\ C[x][k] = e /\ x \in DOMAIN C
      BY <2>2, <2>4 DEF TakesHead
    <3>. QED
      BY <3>1, InContents
  <2>. QED
    BY <2>3, <2>4
<1>7. ASSUME Distinct(B), B[c][1] \in Contents(C) PROVE FALSE
  <2>1. PICK x \in DOMAIN C : \E k \in 1..Len(C[x]) : C[x][k] = B[c][1]
    BY <1>7, InContents
  <2>2. PICK k \in 1..Len(C[x]) : C[x][k] = B[c][1]
    BY <2>1
  <2>3. CASE x = c
    <3>1. k + 1 \in 1..Len(B[c]) /\ B[c][k + 1] = B[c][1] /\ k + 1 # 1
      BY <2>2, <2>3 DEF TakesHead, Lens
    <3>. QED
      BY <1>4, <1>7, <3>1, SamePlace
  <2>4. CASE x # c
    <3>1. x \in DOMAIN B /\ k \in 1..Len(B[x]) /\ B[x][k] = B[c][1]
      BY <2>2, <2>4 DEF TakesHead
    <3>. QED
      BY <1>4, <1>7, <2>4, <3>1, SamePlace
  <2>. QED
    BY <2>3, <2>4
<1>. QED
  BY <1>2, <1>3, <1>5, <1>6, <1>7, CarriedContents, CarriedDistinct

(* The entries of q, which are not in any box, are added to box c.         *)
Adds(B, C, c, q) ==
  /\ DOMAIN C = DOMAIN B /\ c \in DOMAIN B /\ Len(q) \in Nat
  /\ Len(C[c]) = Len(B[c]) + Len(q)
  /\ \A i \in 1..Len(B[c]) : C[c][i] = B[c][i]
  /\ \A i \in 1..Len(q) : C[c][Len(B[c]) + i] = q[i]
  /\ \A x \in DOMAIN B \ {c} : C[x] = B[x]

LEMMA EntriesAdded ==
  ASSUME NEW B, NEW C, NEW c, NEW q, Lens(B), Adds(B, C, c, q)
  PROVE  /\ Contents(C) = Contents(B) \cup {q[i] : i \in 1..Len(q)}
         /\ /\ Distinct(B)
            /\ \A i \in 1..Len(q) : q[i] \notin Contents(B)
            /\ \A i, j \in 1..Len(q) : q[i] = q[j] => i = j
            => Distinct(C)
<1>1. c \in DOMAIN B /\ Len(B[c]) \in Nat /\ Len(q) \in Nat /\ DOMAIN C = DOMAIN B
  BY DEF Adds, Lens
<1>2. ASSUME NEW x \in DOMAIN C, NEW k \in 1..Len(C[x])
      PROVE  \/ x \in DOMAIN B /\ k \in 1..Len(B[x]) /\ C[x][k] = B[x][k]
             \/ x = c /\ k - Len(B[c]) \in 1..Len(q) /\ C[x][k] = q[k - Len(B[c])]
  <2>1. CASE x = c /\ k <= Len(B[c])
    BY <1>1, <2>1 DEF Adds
  <2>2. CASE x = c /\ k > Len(B[c])
    <3>. DEFINE i == k - Len(B[c])
    <3>1. i \in 1..Len(q) /\ k = Len(B[c]) + i
      BY <1>1, <2>2 DEF Adds
    <3>2. C[c][Len(B[c]) + i] = q[i]
      BY <3>1 DEF Adds
    <3>. QED
      BY <2>2, <3>1, <3>2
  <2>3. CASE x # c
    BY <2>3 DEF Adds
  <2>. QED
    BY <1>1, <2>1, <2>2, <2>3 DEF Lens
<1>3. ASSUME NEW e \in Contents(C) PROVE e \in Contents(B) \cup {q[i] : i \in 1..Len(q)}
  <2>1. PICK x \in DOMAIN C : \E k \in 1..Len(C[x]) : C[x][k] = e
    BY <1>3, InContents
  <2>2. PICK k \in 1..Len(C[x]) : C[x][k] = e
    BY <2>1
  <2>3. CASE x \in DOMAIN B /\ k \in 1..Len(B[x]) /\ C[x][k] = B[x][k]
    BY <2>2, <2>3, InContents
  <2>4. CASE x = c /\ k - Len(B[c]) \in 1..Len(q) /\ C[x][k] = q[k - Len(B[c])]
    BY <2>2, <2>4
  <2>. QED
    BY <1>2, <2>3, <2>4
<1>4. ASSUME NEW e \in Contents(B) PROVE e \in Contents(C)
  <2>1. PICK x \in DOMAIN B : \E k \in 1..Len(B[x]) : B[x][k] = e
    BY <1>4, InContents
  <2>2. PICK k \in 1..Len(B[x]) : B[x][k] = e
    BY <2>1
  <2>3. x \in DOMAIN C /\ k \in 1..Len(C[x]) /\ C[x][k] = e
    BY <1>1, <2>2 DEF Adds
  <2>. QED
    BY <2>3, InContents
<1>5. ASSUME NEW i \in 1..Len(q) PROVE q[i] \in Contents(C)
  <2>. DEFINE k == Len(B[c]) + i
  <2>1. c \in DOMAIN C /\ k \in 1..Len(C[c]) /\ C[c][k] = q[i]
    BY <1>1 DEF Adds
  <2>. HIDE DEF k
  <2>. QED
    BY <2>1, InContents
<1>6. ASSUME Distinct(B),
             \A i \in 1..Len(q) : q[i] \notin Contents(B),
             \A i, j \in 1..Len(q) : q[i] = q[j] => i = j
      PROVE  Distinct(C)
  <2>1. SUFFICES ASSUME NEW x \in DOMAIN C, NEW y \in DOMAIN C,
                        NEW k \in 1..Len(C[x]), NEW l \in 1..Len(C[y]), C[x][k] = C[y][l]
                 PROVE  x = y /\ k = l
    BY DEF Distinct
  <2>. DEFINE Old(v, j) == v \in DOMAIN B /\ j \in 1..Len(B[v]) /\ C[v][j] = B[v][j]
              New(v, j) == v = c /\ j - Len(B[c]) \in 1..Len(q) /\ C[v][j] = q[j - Len(B[c])]
  <2>2. (Old(x, k) \/ New(x, k)) /\ (Old(y, l) \/ New(y, l))
    BY <1>2
  <2>3. CASE Old(x, k) /\ Old(y, l)
    BY <1>6, <2>1, <2>3, SamePlace
  <2>4. CASE New(x, k) /\ New(y, l)
    <3>1. k - Len(B[c]) = l - Len(B[c])
      BY <1>6, <2>1, <2>4
    <3>2. k \in Int /\ l \in Int
      BY <1>1, <2>4 DEF Adds
    <3>. QED
      BY <1>1, <2>4, <3>1, <3>2
  <2>5. CASE Old(x, k) /\ New(y, l)
    <3>1. C[x][k] \in Contents(B)
      BY <2>5, InContents
    <3>. QED
      BY <1>6, <2>1, <2>5, <3>1
  <2>6. CASE New(x, k) /\ Old(y, l)
    <3>1. C[y][l] \in Contents(B)
      BY <2>6, InContents
    <3>. QED
      BY <1>6, <2>1, <2>6, <3>1
  <2>. QED
    BY <2>2, <2>3, <2>4, <2>5, <2>6
<1>. QED
  BY <1>3, <1>4, <1>5, <1>6

(* The entries of box c change their order.                                *)
Rearranges(B, C, c, p) ==
  /\ DOMAIN C = DOMAIN B /\ c \in DOMAIN B
  /\ Len(C[c]) = Len(B[c])
  /\ p \in Bijection(1..Len(B[c]), 1..Len(B[c]))
  /\ \A i \in 1..Len(B[c]) : C[c][i] = B[c][p[i]]
  /\ \A x \in DOMAIN B \ {c} : C[x] = B[x]

LEMMA BijectionIs ==
  ASSUME NEW S, NEW T, NEW p \in Bijection(S, T)
  PROVE  /\ p \in [S -> T]
         /\ \A i, j \in S : p[i] = p[j] => i = j
         /\ \A t \in T : \E i \in S : p[i] = t
BY DEF Bijection, Injection, Surjection, IsInjective

LEMMA EntriesRearranged ==
  ASSUME NEW B, NEW C, NEW c, NEW p, Rearranges(B, C, c, p)
  PROVE  Contents(C) = Contents(B) /\ (Distinct(B) => Distinct(C))
<1>1. /\ p \in [1..Len(B[c]) -> 1..Len(B[c])]
      /\ \A i, j \in 1..Len(B[c]) : p[i] = p[j] => i = j
      /\ \A t \in 1..Len(B[c]) : \E i \in 1..Len(B[c]) : p[i] = t
  <2>. DEFINE D == 1..Len(B[c])
  <2>1. p \in Bijection(D, D)
    BY DEF Rearranges
  <2>. HIDE DEF D
  <2>2. /\ p \in [D -> D]
        /\ \A i, j \in D : p[i] = p[j] => i = j
        /\ \A t \in D : \E i \in D : p[i] = t
    BY <2>1, BijectionIs
  <2>. QED
    BY <2>2 DEF D
<1>. DEFINE G == [x \in DOMAIN C |-> [k \in 1..Len(C[x]) |-> x]]
            N == [x \in DOMAIN C |-> [k \in 1..Len(C[x]) |-> IF x = c THEN p[k] ELSE k]]
<1>2. \A x \in DOMAIN C : \A k \in 1..Len(C[x]) :
        G[x][k] = x /\ N[x][k] = IF x = c THEN p[k] ELSE k
  OBVIOUS
<1>. HIDE DEF G, N
<1>3. Carries(B, C, G, N)
  <2>1. ASSUME NEW x \in DOMAIN C, NEW k \in 1..Len(C[x])
        PROVE  G[x][k] \in DOMAIN B /\ N[x][k] \in 1..Len(B[G[x][k]]) /\ C[x][k] = B[G[x][k]][N[x][k]]
    <3>1. G[x][k] = x /\ N[x][k] = IF x = c THEN p[k] ELSE k
      BY <1>2
    <3>2. CASE x = c
      BY <1>1, <3>1, <3>2 DEF Rearranges
    <3>3. CASE x # c
      BY <3>1, <3>3 DEF Rearranges
    <3>. QED
      BY <3>2, <3>3
  <2>. QED
    BY <2>1 DEF Carries
<1>4. Injects(C, G, N)
  <2>1. SUFFICES ASSUME NEW x \in DOMAIN C, NEW y \in DOMAIN C,
                        NEW k \in 1..Len(C[x]), NEW l \in 1..Len(C[y]),
                        G[x][k] = G[y][l], N[x][k] = N[y][l]
                 PROVE  x = y /\ k = l
    BY DEF Injects
  <2>2. /\ G[x][k] = x /\ N[x][k] = IF x = c THEN p[k] ELSE k
        /\ G[y][l] = y /\ N[y][l] = IF y = c THEN p[l] ELSE l
    BY <1>2
  <2>3. Len(C[c]) = Len(B[c])
    BY DEF Rearranges
  <2>. QED
    BY <1>1, <2>1, <2>2, <2>3
<1>5. ASSUME NEW e \in Contents(B) PROVE e \in Contents(C)
  <2>1. PICK x \in DOMAIN B : \E k \in 1..Len(B[x]) : B[x][k] = e
    BY <1>5, InContents
  <2>2. PICK k \in 1..Len(B[x]) : B[x][k] = e
    BY <2>1
  <2>3. CASE x = c
    <3>1. PICK i \in 1..Len(B[c]) : p[i] = k
      BY <1>1, <2>2, <2>3
    <3>2. c \in DOMAIN C /\ i \in 1..Len(C[c]) /\ C[c][i] = e
      BY <2>2, <2>3, <3>1 DEF Rearranges
    <3>. QED
      BY <3>2, InContents
  <2>4. CASE x # c
    <3>1. x \in DOMAIN C /\ k \in 1..Len(C[x]) /\ C[x][k] = e
      BY <2>2, <2>4 DEF Rearranges
    <3>. QED
      BY <3>1, InContents
  <2>. QED
    BY <2>3, <2>4
<1>. QED
  BY <1>3, <1>4, <1>5, CarriedContents, CarriedDistinct

(* The boxes are others: what is in box d of C was in box f[d] of B.       *)
Renames(B, C, f) ==
  /\ \A d \in DOMAIN C : Len(C[d]) # 0 => f[d] \in DOMAIN B /\ C[d] = B[f[d]]
  /\ \A d, e \in DOMAIN C : Len(C[d]) # 0 /\ Len(C[e]) # 0 /\ f[d] = f[e] => d = e
  /\ \A c \in DOMAIN B : Len(B[c]) # 0 => \E d \in DOMAIN C : C[d] = B[c]

LEMMA BoxesRenamed ==
  ASSUME NEW B, NEW C, NEW f, Lens(B), Lens(C), Renames(B, C, f)
  PROVE  Contents(C) = Contents(B) /\ (Distinct(B) => Distinct(C))
<1>1. ASSUME NEW d \in DOMAIN C, NEW k \in 1..Len(C[d])
      PROVE  /\ Len(C[d]) # 0 /\ f[d] \in DOMAIN B
             /\ k \in 1..Len(B[f[d]]) /\ C[d][k] = B[f[d]][k]
  <2>1. Len(C[d]) # 0
    BY DEF Lens
  <2>. QED
    BY <2>1 DEF Renames
<1>. DEFINE G == [x \in DOMAIN C |-> [k \in 1..Len(C[x]) |-> f[x]]]
            N == [x \in DOMAIN C |-> [k \in 1..Len(C[x]) |-> k]]
<1>2. \A x \in DOMAIN C : \A k \in 1..Len(C[x]) : G[x][k] = f[x] /\ N[x][k] = k
  OBVIOUS
<1>. HIDE DEF G, N
<1>3. Carries(B, C, G, N)
  BY <1>1, <1>2 DEF Carries
<1>4. Injects(C, G, N)
  <2>1. SUFFICES ASSUME NEW x \in DOMAIN C, NEW y \in DOMAIN C,
                        NEW k \in 1..Len(C[x]), NEW l \in 1..Len(C[y]),
                        G[x][k] = G[y][l], N[x][k] = N[y][l]
                 PROVE  x = y /\ k = l
    BY DEF Injects
  <2>2. f[x] = f[y] /\ k = l
    BY <1>2, <2>1
  <2>3. Len(C[x]) # 0 /\ Len(C[y]) # 0
    BY <1>1
  <2>. QED
    BY <2>2, <2>3 DEF Renames
<1>5. ASSUME NEW e \in Contents(B) PROVE e \in Contents(C)
  <2>1. PICK x \in DOMAIN B : \E k \in 1..Len(B[x]) : B[x][k] = e
    BY <1>5, InContents
  <2>2. PICK k \in 1..Len(B[x]) : B[x][k] = e
    BY <2>1
  <2>3. Len(B[x]) # 0
    BY DEF Lens
  <2>4. PICK d \in DOMAIN C : C[d] = B[x]
    BY <2>3 DEF Renames
  <2>. QED
    BY <2>2, <2>4, InContents
<1>. QED
  BY <1>3, <1>4, <1>5, CarriedContents, CarriedDistinct

(* The range of n entries in m that thread j sorts, after the first k.     *)
RangeOf(m, n, j, k) == SubSeq(m, StartOf(n, j) + k + 1, StartOf(n, j) + Share(n, j))
Unwritten(b, w, j) == RangeOf(b[w.from], w.n, j, w.used[j])

(* Where the entries of a sort are: 0 is the block that is filled, -j what *)
(* the writer still has to take from the j-th range, i the i-th file.      *)
SortBoxes(b, a, n, w, F) == [c \in Int |->
  IF c = 0 THEN SubSeq(b[a], 1, n)
  ELSE IF c \in 1..Len(F) THEN F[c]
  ELSE IF -c \in Threads /\ w.state # "idle" THEN Unwritten(b, w, -c)
  ELSE <<>>]

(* What a reader still has to deliver.                                     *)
Rest(r) == IF r.empty THEN <<>> ELSE r.buffer \o SubSeq(r.file, r.at + 1, Len(r.file))

(* Where the entries of a merge are: <<s, 0>> is what stream s received,   *)
(* <<s, -k>> its k-th message on the way, the one that is put together     *)
(* being the last, and <<s, i>> what the i-th reader still has.            *)
MergeBoxes(S, q, h) == [c \in Nat \X Int |->
  IF c[1] \notin 1..Len(S) THEN <<>>
  ELSE IF c[2] = 0 THEN h[c[1]]
  ELSE IF c[2] < 0
  THEN IF -c[2] <= Len(q[c[1]]) THEN q[c[1]][-c[2]]
       ELSE IF -c[2] = Len(q[c[1]]) + 1 THEN S[c[1]].msg ELSE <<>>
  ELSE IF c[2] <= Len(S[c[1]].readers) THEN Rest(S[c[1]].readers[c[2]]) ELSE <<>>]

(* The entries of q do not come after those of r.                          *)
Below(q, r) == \A k \in 1..Len(q), l \in 1..Len(r) : q[k].key <= r[l].key

(* What is merged comes in order.                                          *)
StreamRow(B, s) == [i \in Int |-> B[<<s, i>>]]
OrderedIn(b) ==
  \A i \in Int : /\ Ascending(b[i])
                 /\ i <= 0 => \A k \in Int : k < i \/ 0 < k => Below(b[i], b[k])
Ordered(B) == \A s \in Nat : OrderedIn(StreamRow(B, s))

Memory == [1..Slots -> Items]
WriterRec == [state : {"idle", "sort", "write"}, type : Types, n : 0..Slots, from : {0, 1},
              used : [Threads -> 0..Slots]]
Reader == [file : Seq(Items), at : Nat, read : Nat, trims : BOOLEAN,
           buffer : Seq(Items), empty : BOOLEAN]
ReaderOK(r) ==
  /\ r \in Reader
  /\ r.empty => r.buffer = <<>>
  /\ ~r.empty => r.at <= Len(r.file) /\ (r.trims => r.read = r.at \/ r.at = Len(r.file))

ThreadRec == [at : {"pick", "same", "send", "done"}, then : {"same", "end", "done"},
              readers : Seq(Reader), from : Nat, last : Items \cup {<<>>}, msg : Seq(Items)]

WriterOK(w) ==
  w.state # "idle" => /\ \A j \in Threads : w.used[j] <= Share(w.n, j)
                      /\ \E j \in Threads : w.used[j] < Share(w.n, j)

Sending(t) == t.at = "same" \/ (t.at = "send" /\ t.then = "same")
Ending(t) == t.at = "done" \/ (t.at = "send" /\ t.then # "same")

ThreadOK(t, q, h, f, type) ==
  /\ \A i \in 1..Len(t.readers) : ReaderOK(t.readers[i])
  /\ Sending(t) =>
       /\ t.from \in 1..Len(t.readers) /\ t.last \in Items
       /\ \A i \in 1..Len(t.readers) : \A l \in 1..Len(Rest(t.readers[i])) :
            /\ t.last.key <= Rest(t.readers[i])[l].key
            /\ type = "moves" => t.last.key < Rest(t.readers[i])[l].key
  /\ Ending(t) => \A i \in 1..Len(t.readers) : Rest(t.readers[i]) = <<>>
  /\ t.at = "done" \/ (t.at = "send" /\ t.then = "done") => t.msg = <<>>
  /\ t.at = "send" /\ t.then # "done" => t.msg # <<>>
  /\ \A j \in 1..Len(q) : q[j] = <<>> => j = Len(q) /\ t.at = "done"
  /\ f => q = <<>> /\ h = <<>> /\ t.at = "done"


-----------------------------------------------------------------------------
(* Induction.  The theorems of the library that take a predicate cannot be *)
(* instantiated; that every set of naturals has a smallest member can, and *)
(* the set may be that of the numbers with some property.                  *)
LEMMA LeastNumber ==
  ASSUME NEW T, T \subseteq Nat, T # {}
  PROVE  \E m \in T : \A k \in T : m <= k
<1>. DEFINE R == {ss \in Nat \X Nat : ss[1] < ss[2]}
<1>1. IsWellFoundedOn(R, Nat)
  BY NatLessThanWellFounded DEF OpToRel
<1>2. \A k, m \in Nat : <<k, m>> \in R <=> k < m
  OBVIOUS
<1>. HIDE DEF R
<1>3. PICK m \in T : \A k \in T : ~ (<<k, m>> \in R)
  BY <1>1, WFMin
<1>4. ASSUME NEW k \in T PROVE m <= k
  <2>1. k \in Nat /\ m \in Nat
    OBVIOUS
  <2>2. ~(k < m)
    BY <1>2, <1>3, <2>1
  <2>. QED
    BY <2>1, <2>2
<1>. QED
  BY <1>4

LEMMA Induction ==
  ASSUME NEW T, 0 \in T, \A n \in Nat : n \in T => n + 1 \in T
  PROVE  \A n \in Nat : n \in T
<1>1. SUFFICES ASSUME Nat \ T # {} PROVE FALSE
  OBVIOUS
<1>2. PICK m \in Nat \ T : \A k \in Nat \ T : m <= k
  BY <1>1, LeastNumber
<1>3. m - 1 \in Nat \ T
  BY <1>2
<1>. QED
  BY <1>2, <1>3

-----------------------------------------------------------------------------
(* The ranges of a sort: those of n entries follow each other, and every   *)
(* entry is in one of them.                                                *)
LEMMA Division ==
  ASSUME NEW n \in Nat, NEW m \in Nat \ {0}
  PROVE  /\ n \div m \in Nat /\ n % m \in Nat /\ n % m < m
         /\ n = m * (n \div m) + (n % m)
OBVIOUS

LEMMA ShareIs ==
  ASSUME NEW n \in Nat
  PROVE  /\ SortThreads \in Nat \ {0}
         /\ \A j \in Threads : Share(n, j) \in Nat /\ StartOf(n, j) \in Nat
         /\ StartOf(n, 1) = 0
         /\ \A j \in Threads : j # SortThreads => StartOf(n, j + 1) = StartOf(n, j) + Share(n, j)
         /\ StartOf(n, SortThreads) + Share(n, SortThreads) = n
<1>. DEFINE m == SortThreads  q == n \div m  r == n % m
<1>1. m \in Nat \ {0}
  BY SortAssumption, MergeAssumption
<1>2. q \in Nat /\ r \in Nat /\ r < m /\ n = m * q + r
  BY <1>1, Division
<1>3. ASSUME NEW j \in 1..m
      PROVE  /\ Share(n, j) = q + IF j <= r THEN 1 ELSE 0
             /\ StartOf(n, j) = (j - 1) * q + IF j - 1 <= r THEN j - 1 ELSE r
             /\ (j - 1) * q \in Nat /\ j * q = (j - 1) * q + q
  <2>1. /\ Share(n, j) = q + IF j <= r THEN 1 ELSE 0
        /\ StartOf(n, j) = (j - 1) * q + IF j - 1 <= r THEN j - 1 ELSE r
    BY DEF Share, StartOf
  <2>. HIDE DEF q, r
  <2>2. j - 1 \in Nat /\ j = (j - 1) + 1
    BY <1>1
  <2>3. \A a \in Nat : a * q \in Nat /\ (a + 1) * q = a * q + q
    BY <1>2
  <2>4. (j - 1) * q \in Nat /\ j * q = (j - 1) * q + q
    BY <2>2, <2>3
  <2>. QED
    BY <2>1, <2>4
<1>. HIDE DEF m, q, r
<1>4. \A j \in 1..m : Share(n, j) \in Nat /\ StartOf(n, j) \in Nat
  BY <1>1, <1>2, <1>3
<1>5. StartOf(n, 1) = 0
  <2>1. 1 \in 1..m /\ (1 - 1) * q = 0
    BY <1>1, <1>2
  <2>. QED
    BY <1>2, <1>3, <2>1
<1>6. ASSUME NEW j \in 1..m, j # m
      PROVE  StartOf(n, j + 1) = StartOf(n, j) + Share(n, j)
  <2>1. j + 1 \in 1..m /\ (j + 1) - 1 = j
    BY <1>1, <1>6
  <2>2. StartOf(n, j + 1) = j * q + IF j <= r THEN j ELSE r
    BY <1>3, <2>1
  <2>. QED
    BY <1>2, <1>3, <2>2
<1>7. StartOf(n, m) + Share(n, m) = n
  <2>1. m \in 1..m
    BY <1>1
  <2>2. (m - 1) * q + q = n - r
    <3>1. m * q = (m - 1) * q + q /\ (m - 1) * q \in Nat
      BY <1>3, <2>1
    <3>. QED
      BY <1>2, <3>1
  <2>3. (m - 1) * q \in Nat
    BY <1>3, <2>1
  <2>. QED
    BY <1>1, <1>2, <1>3, <2>1, <2>2, <2>3
<1>. QED
  BY <1>1, <1>4, <1>5, <1>6, <1>7 DEF Threads, m

LEMMA RangesFollow ==
  ASSUME NEW n \in Nat, NEW i \in Threads, NEW j \in Threads, i < j
  PROVE  StartOf(n, i) + Share(n, i) <= StartOf(n, j)
<1>. DEFINE T == {d \in Nat : \A k \in Threads : i + 1 + d = k => StartOf(n, i) + Share(n, i) <= StartOf(n, k)}
<1>0. SortThreads \in Nat /\ Threads = 1..SortThreads
  BY ShareIs DEF Threads
<1>1. 0 \in T
  <2>1. ASSUME NEW k \in Threads, i + 1 + 0 = k
        PROVE  StartOf(n, i) + Share(n, i) <= StartOf(n, k)
    <3>1. k = i + 1 /\ i # SortThreads
      BY <1>0, <2>1
    <3>2. StartOf(n, k) = StartOf(n, i) + Share(n, i)
      BY <3>1, ShareIs
    <3>. QED
      BY <3>2, ShareIs
  <2>. QED
    BY <2>1
<1>2. ASSUME NEW d \in Nat, d \in T PROVE d + 1 \in T
  <2>1. ASSUME NEW k \in Threads, i + 1 + (d + 1) = k
        PROVE  StartOf(n, i) + Share(n, i) <= StartOf(n, k)
    <3>1. k - 1 \in Threads /\ i + 1 + d = k - 1 /\ k - 1 # SortThreads /\ (k - 1) + 1 = k
      BY <1>0, <2>1
    <3>2. StartOf(n, i) + Share(n, i) <= StartOf(n, k - 1)
      BY <1>2, <3>1
    <3>3. StartOf(n, k) = StartOf(n, k - 1) + Share(n, k - 1)
      BY <3>1, ShareIs
    <3>. QED
      BY <3>1, <3>2, <3>3, ShareIs
  <2>. QED
    BY <2>1
<1>. HIDE DEF T
<1>3. j - i - 1 \in T
  <2>1. j - i - 1 \in Nat
    BY DEF Threads
  <2>. QED
    BY <1>1, <1>2, <2>1, Induction
<1>. QED
  BY <1>3 DEF T, Threads

(* Every entry is in one range.                                            *)
LEMMA RangesCover ==
  ASSUME NEW n \in Nat, NEW k \in 1..n
  PROVE  \E j \in Threads : StartOf(n, j) < k /\ k <= StartOf(n, j) + Share(n, j)
<1>. DEFINE T == {j \in Threads : k <= StartOf(n, j) + Share(n, j)}
<1>1. SortThreads \in T /\ T \subseteq Nat
  BY ShareIs DEF Threads
<1>2. PICK j \in T : \A i \in T : j <= i
  BY <1>1, LeastNumber
<1>3. CASE j = 1
  BY <1>2, <1>3, ShareIs
<1>4. CASE j # 1
  <2>1. j - 1 \in Threads /\ (j - 1) + 1 = j /\ j - 1 # SortThreads
    BY <1>2, <1>4, ShareIs DEF Threads
  <2>2. j - 1 \notin T
    BY <1>2, <2>1 DEF Threads
  <2>3. StartOf(n, j) = StartOf(n, j - 1) + Share(n, j - 1)
    BY <2>1, ShareIs
  <2>4. StartOf(n, j - 1) + Share(n, j - 1) < k
    BY <2>1, <2>2, ShareIs
  <2>. QED
    BY <1>2, <2>3, <2>4
<1>. QED
  BY <1>3, <1>4

LEMMA RangeEnds ==
  ASSUME NEW n \in Nat, NEW j \in Threads
  PROVE  StartOf(n, j) + Share(n, j) <= n
<1>1. CASE j = SortThreads
  BY <1>1, ShareIs
<1>2. CASE j # SortThreads
  <2>1. SortThreads \in Threads /\ j < SortThreads
    BY <1>2, ShareIs DEF Threads
  <2>2. StartOf(n, j) + Share(n, j) <= StartOf(n, SortThreads)
    BY <2>1, RangesFollow
  <2>. QED
    BY <2>1, <2>2, ShareIs
<1>. QED
  BY <1>1, <1>2

(* An entry is in at most one.                                             *)
LEMMA RangesApart ==
  ASSUME NEW n \in Nat, NEW i \in Threads, NEW j \in Threads, NEW k \in Int,
         StartOf(n, i) < k, k <= StartOf(n, i) + Share(n, i),
         StartOf(n, j) < k, k <= StartOf(n, j) + Share(n, j)
  PROVE  i = j
<1>1. i \in Int /\ j \in Int
  BY DEF Threads
<1>2. ~(i < j)
  BY RangesFollow, ShareIs
<1>3. ~(j < i)
  BY RangesFollow, ShareIs
<1>. QED
  BY <1>1, <1>2, <1>3

-----------------------------------------------------------------------------
(* The boxes of a sort.                                                    *)
LEMMA MemoryIs ==
  ASSUME NEW m \in Memory
  PROVE  Slots \in Nat /\ m \in Seq(Items) /\ Len(m) = Slots /\ \A k \in 1..Slots : m[k] \in Items
<1>1. Slots \in Nat
  BY SortAssumption, MergeAssumption
<1>. QED
  BY <1>1 DEF Memory

LEMMA RangeIs ==
  ASSUME NEW m \in Memory, NEW n \in 0..Slots, NEW j \in Threads, NEW k \in 0..Share(n, j)
  PROVE  /\ RangeOf(m, n, j, k) \in Seq(Items)
         /\ Len(RangeOf(m, n, j, k)) = Share(n, j) - k
         /\ \A i \in 1..Share(n, j) - k : RangeOf(m, n, j, k)[i] = m[StartOf(n, j) + k + i]
<1>. DEFINE s == StartOf(n, j)  h == Share(n, j)
<1>1. Slots \in Nat /\ m \in Seq(Items) /\ Len(m) = Slots
  BY MemoryIs
<1>2. n \in Nat
  BY <1>1
<1>3. s \in Nat /\ h \in Nat /\ s + h <= n
  BY <1>2, ShareIs, RangeEnds
<1>4. RangeOf(m, n, j, k) = SubSeq(m, s + k + 1, s + h)
  BY DEF RangeOf
<1>. HIDE DEF s, h
<1>5. s + k + 1 \in Nat \ {0} /\ s + h \in 0..Len(m) /\ k \in 0..h
  BY <1>1, <1>2, <1>3 DEF h
<1>. DEFINE r == SubSeq(m, s + k + 1, s + h)
<1>6. /\ r \in Seq(Items)
      /\ Len(r) = IF s + k + 1 <= s + h THEN (s + h) - (s + k + 1) + 1 ELSE 0
      /\ \A i \in 1..Len(r) : r[i] = m[(s + k + 1) + i - 1]
  BY <1>1, <1>5, SubSeqIs
<1>. HIDE DEF r
<1>7. Len(r) = h - k
  BY <1>3, <1>5, <1>6
<1>8. ASSUME NEW i \in 1..h - k PROVE r[i] = m[s + k + i]
  <2>1. (s + k + 1) + i - 1 = s + k + i
    BY <1>3, <1>5
  <2>. QED
    BY <1>6, <1>7, <2>1
<1>. QED
  BY <1>4, <1>6, <1>7, <1>8 DEF s, h, r

SortOK(b, a, n, w, F) ==
  /\ b \in [{0, 1} -> Memory] /\ a \in {0, 1} /\ n \in 0..Slots
  /\ w \in WriterRec /\ WriterOK(w) /\ F \in Seq(Seq(Items))

LEMMA UnwrittenIs ==
  ASSUME NEW b \in [{0, 1} -> Memory], NEW w \in WriterRec, WriterOK(w), w.state # "idle",
         NEW j \in Threads
  PROVE  /\ Unwritten(b, w, j) \in Seq(Items)
         /\ w.used[j] \in Nat /\ w.n \in Nat /\ Share(w.n, j) \in Nat
         /\ Len(Unwritten(b, w, j)) = Share(w.n, j) - w.used[j]
         /\ \A i \in 1..Share(w.n, j) - w.used[j] :
              Unwritten(b, w, j)[i] = b[w.from][StartOf(w.n, j) + w.used[j] + i]
<1>1. w.n \in 0..Slots /\ w.from \in {0, 1} /\ w.used[j] \in 0..Slots
  BY DEF WriterRec
<1>2. b[w.from] \in Memory
  BY <1>1
<1>3. w.n \in Nat /\ w.used[j] \in Nat
  BY <1>1
<1>4. Share(w.n, j) \in Nat /\ w.used[j] <= Share(w.n, j)
  BY <1>3, ShareIs DEF WriterOK
<1>5. w.used[j] \in 0..Share(w.n, j)
  BY <1>3, <1>4
<1>. QED
  BY <1>1, <1>2, <1>3, <1>4, <1>5, RangeIs DEF Unwritten

Pending(b, w, j) == IF w.state = "idle" THEN <<>> ELSE Unwritten(b, w, j)

AreBoxes(B, b, a, n, w, F) ==
  /\ DOMAIN B = Int /\ Lens(B) /\ \A c \in Int : B[c] \in Seq(Items)
  /\ Len(B[0]) = n /\ n \in Nat /\ \A k \in 1..n : B[0][k] = b[a][k]
  /\ \A i \in 1..Len(F) : B[i] = F[i]
  /\ \A i \in Nat : i > Len(F) => B[i] = <<>>
  /\ \A j \in Threads : B[-j] = Pending(b, w, j)
  /\ \A i \in Nat \ {0} : i \notin Threads => B[-i] = <<>>
  /\ Len(F) \in Nat

LEMMA SortBoxesAre ==
  ASSUME NEW b, NEW a, NEW n, NEW w, NEW F, SortOK(b, a, n, w, F)
  PROVE  AreBoxes(SortBoxes(b, a, n, w, F), b, a, n, w, F)
<1>. DEFINE B == SortBoxes(b, a, n, w, F)
<1>1. Slots \in Nat /\ b[a] \in Memory /\ b[a] \in Seq(Items) /\ Len(b[a]) = Slots
  <2>1. b[a] \in Memory
    BY DEF SortOK
  <2>. QED
    BY <2>1, MemoryIs
<1>2. n \in Nat /\ n \in 0..Len(b[a])
  BY <1>1 DEF SortOK
<1>. DEFINE q == SubSeq(b[a], 1, n)
<1>3. /\ q \in Seq(Items) /\ Len(q) = n
      /\ \A k \in 1..n : q[k] = b[a][k]
  <2>1. 1 \in Nat \ {0}
    OBVIOUS
  <2>2. /\ q \in Seq(Items)
        /\ Len(q) = IF 1 <= n THEN n - 1 + 1 ELSE 0
        /\ \A i \in 1..Len(q) : q[i] = b[a][1 + i - 1]
    BY <1>1, <1>2, <2>1, SubSeqIs
  <2>. HIDE DEF q
  <2>3. Len(q) = n
    BY <1>2, <2>2
  <2>4. ASSUME NEW k \in 1..n PROVE q[k] = b[a][k]
    <3>1. 1 + k - 1 = k
      BY <1>2
    <3>. QED
      BY <2>2, <2>3, <3>1
  <2>. QED
    BY <2>2, <2>3, <2>4
<1>. HIDE DEF q
<1>4. Len(F) \in Nat /\ \A i \in 1..Len(F) : F[i] \in Seq(Items)
  BY DEF SortOK
<1>5. /\ DOMAIN B = Int
      /\ \A c \in Int : B[c] = IF c = 0 THEN q
                               ELSE IF c \in 1..Len(F) THEN F[c]
                               ELSE IF -c \in Threads /\ w.state # "idle" THEN Unwritten(b, w, -c)
                               ELSE <<>>
  BY DEF SortBoxes, q
<1>. HIDE DEF B
<1>6. B[0] = q
  BY <1>5
<1>7. ASSUME NEW i \in 1..Len(F) PROVE B[i] = F[i]
  BY <1>4, <1>5
<1>8. ASSUME NEW i \in Nat, i > Len(F) PROVE B[i] = <<>>
  <2>1. i # 0 /\ i \notin 1..Len(F) /\ -i \notin Threads
    BY <1>4, <1>8, ShareIs DEF Threads
  <2>. QED
    BY <1>5, <2>1
<1>9. ASSUME NEW j \in Threads PROVE B[-j] = IF w.state = "idle" THEN <<>> ELSE Unwritten(b, w, j)
  <2>1. -j \in Int /\ -j # 0 /\ -j \notin 1..Len(F) /\ -(-j) = j
    BY <1>4, ShareIs DEF Threads
  <2>. QED
    BY <1>5, <2>1
<1>10. ASSUME NEW i \in Nat \ {0}, i \notin Threads PROVE B[-i] = <<>>
  <2>1. -i \in Int /\ -i # 0 /\ -i \notin 1..Len(F) /\ -(-i) = i
    BY <1>4
  <2>. QED
    BY <1>5, <1>10, <2>1
<1>11. ASSUME NEW c \in Int PROVE B[c] \in Seq(Items)
  <2>1. CASE c = 0
    BY <1>3, <1>6, <2>1
  <2>2. CASE c \in 1..Len(F)
    BY <1>4, <1>7, <2>2
  <2>3. CASE -c \in Threads /\ w.state # "idle"
    <3>1. Unwritten(b, w, -c) \in Seq(Items)
      BY <2>3, UnwrittenIs DEF SortOK
    <3>2. c # 0 /\ c \notin 1..Len(F)
      BY <1>4, <2>3, ShareIs DEF Threads
    <3>. QED
      BY <1>5, <2>3, <3>1, <3>2
  <2>4. CASE c # 0 /\ c \notin 1..Len(F) /\ ~(-c \in Threads /\ w.state # "idle")
    <3>1. B[c] = <<>>
      BY <1>5, <2>4
    <3>. QED
      BY <3>1
  <2>. QED
    BY <2>1, <2>2, <2>3, <2>4
<1>12. Lens(B)
  BY <1>5, <1>11 DEF Lens
<1>13. AreBoxes(B, b, a, n, w, F)
  BY <1>2, <1>3, <1>4, <1>5, <1>6, <1>7, <1>8, <1>9, <1>10, <1>11, <1>12 DEF AreBoxes, Pending
<1>. QED
  BY <1>13 DEF B

LEMMA BlockBox ==
  ASSUME NEW B, NEW b, NEW a, NEW n, NEW w, NEW F, AreBoxes(B, b, a, n, w, F)
  PROVE  /\ 0 \in DOMAIN B /\ B[0] \in Seq(Items) /\ Len(B[0]) = n /\ n \in Nat
         /\ \A k \in 1..n : B[0][k] = b[a][k]
BY DEF AreBoxes

LEMMA FileBox ==
  ASSUME NEW B, NEW b, NEW a, NEW n, NEW w, NEW F, AreBoxes(B, b, a, n, w, F), NEW i \in Nat \ {0}
  PROVE  B[i] = IF i \in 1..Len(F) THEN F[i] ELSE <<>>
BY DEF AreBoxes

LEMMA PendingBox ==
  ASSUME NEW B, NEW b, NEW a, NEW n, NEW w, NEW F, AreBoxes(B, b, a, n, w, F), NEW i \in Nat \ {0}
  PROVE  B[-i] = IF i \in Threads THEN Pending(b, w, i) ELSE <<>>
BY DEF AreBoxes

LEMMA Signs ==
  ASSUME NEW x \in Int
  PROVE  x = 0 \/ x \in Nat \ {0} \/ \E i \in Nat \ {0} : x = -i
<1>1. CASE x < 0
  <2>1. -x \in Nat \ {0} /\ x = -(-x)
    BY <1>1
  <2>. QED
    BY <2>1
<1>. QED
  BY <1>1

-----------------------------------------------------------------------------
(* A range of a block is sorted: the entries of q, which is what b has     *)
(* after the first f, change places.                                       *)
SortsRange(m, f, h, r) ==
  [k \in 1..Slots |-> IF k \in f + 1..f + h THEN r[k - f] ELSE m[k]]

LEMMA SortsAre ==
  ASSUME NEW h \in Nat, NEW q \in [1..h -> Items], NEW r \in Sorts(q)
  PROVE  /\ r \in Seq(Items) /\ Len(r) = h /\ Ascending(r)
         /\ \E p \in Bijection(1..h, 1..h) : \A k \in 1..h : r[k] = q[p[k]]
<1>1. DOMAIN q = 1..h
  OBVIOUS
<1>2. PICK p \in Bijection(1..h, 1..h) : r = [k \in 1..h |-> q[p[k]]]
  BY <1>1 DEF Sorts
<1>3. \A k, l \in 1..h : k < l => r[k].key <= r[l].key
  BY <1>1 DEF Sorts
<1>4. \A k \in 1..h : p[k] \in 1..h
  <2>. DEFINE D == 1..h
  <2>. HIDE DEF D
  <2>1. p \in [D -> D]
    BY <1>2, BijectionIs DEF D
  <2>2. \A k \in D : p[k] \in D
    BY <2>1
  <2>. QED
    BY <2>2 DEF D
<1>5. r \in Seq(Items) /\ Len(r) = h
  BY <1>2, <1>4
<1>. QED
  BY <1>2, <1>3, <1>5 DEF Ascending

(* f + 1 to f + h of 1 to N change places.                                 *)
Shifted(N, f, h, p) == [k \in 1..N |-> IF k \in f + 1..f + h THEN f + p[k - f] ELSE k]

LEMMA ShiftedIs ==
  ASSUME NEW N \in Nat, NEW f \in Nat, NEW h \in Nat, f + h <= N, NEW p \in Bijection(1..h, 1..h)
  PROVE  Shifted(N, f, h, p) \in Bijection(1..N, 1..N)
<1>. DEFINE D == 1..h
            g == Shifted(N, f, h, p)
<1>1. /\ p \in [D -> D]
      /\ \A i, j \in D : p[i] = p[j] => i = j
      /\ \A t \in D : \E i \in D : p[i] = t
  <2>1. p \in Bijection(D, D)
    OBVIOUS
  <2>. HIDE DEF D
  <2>. QED
    BY <2>1, BijectionIs
<1>2. ASSUME NEW k \in 1..N PROVE g[k] = IF k \in f + 1..f + h THEN f + p[k - f] ELSE k
  BY DEF Shifted
<1>3. ASSUME NEW k \in f + 1..f + h
      PROVE  /\ k \in 1..N /\ k - f \in D /\ p[k - f] \in D
             /\ p[k - f] \in 1..h /\ g[k] = f + p[k - f] /\ g[k] \in f + 1..f + h
  <2>1. k \in 1..N /\ k - f \in D
    OBVIOUS
  <2>2. p[k - f] \in D
    BY <1>1, <2>1
  <2>3. g[k] = f + p[k - f]
    BY <1>2, <2>1
  <2>. QED
    BY <2>1, <2>2, <2>3
<1>4. ASSUME NEW k \in 1..N, k \notin f + 1..f + h PROVE g[k] = k
  BY <1>2, <1>4
<1>5. g = [k \in 1..N |-> g[k]]
  BY DEF Shifted
<1>. HIDE DEF g
<1>6. ASSUME NEW k \in 1..N PROVE g[k] \in 1..N
  <2>1. CASE k \in f + 1..f + h
    <3>1. g[k] \in f + 1..f + h
      BY <1>3, <2>1
    <3>. QED
      BY <3>1
  <2>2. CASE k \notin f + 1..f + h
    BY <1>4, <2>2
  <2>. QED
    BY <2>1, <2>2
<1>7. ASSUME NEW i \in 1..N, NEW j \in 1..N, g[i] = g[j] PROVE i = j
  <2>1. CASE i \in f + 1..f + h /\ j \in f + 1..f + h
    <3>1. p[i - f] = p[j - f]
      <4>. DEFINE u == p[i - f]  v == p[j - f]
      <4>1. u \in 1..h /\ v \in 1..h /\ g[i] = f + u /\ g[j] = f + v
        BY <1>3, <2>1
      <4>. HIDE DEF u, v
      <4>2. f + u = f + v
        BY <1>7, <4>1
      <4>3. u = v
        BY <4>1, <4>2
      <4>. QED
        BY <4>3 DEF u, v
    <3>2. i - f = j - f
      BY <1>1, <1>3, <2>1, <3>1
    <3>. QED
      BY <3>2
  <2>2. CASE i \in f + 1..f + h /\ j \notin f + 1..f + h
    BY <1>3, <1>4, <1>7, <2>2
  <2>3. CASE i \notin f + 1..f + h /\ j \in f + 1..f + h
    BY <1>3, <1>4, <1>7, <2>3
  <2>4. CASE i \notin f + 1..f + h /\ j \notin f + 1..f + h
    BY <1>4, <1>7, <2>4
  <2>. QED
    BY <2>1, <2>2, <2>3, <2>4
<1>8. ASSUME NEW t \in 1..N PROVE \E i \in 1..N : g[i] = t
  <2>1. CASE t \in f + 1..f + h
    <3>0. t - f \in D
      BY <2>1
    <3>1. PICK i \in D : p[i] = t - f
      BY <1>1, <3>0
    <3>2. f + i \in f + 1..f + h /\ (f + i) - f = i /\ f + (t - f) = t
      OBVIOUS
    <3>3. f + i \in 1..N /\ g[f + i] = t
      BY <1>3, <3>1, <3>2
    <3>. QED
      BY <3>3
  <2>2. CASE t \notin f + 1..f + h
    BY <1>4, <2>2
  <2>. QED
    BY <2>1, <2>2
<1>9. g \in [1..N -> 1..N]
  BY <1>5, <1>6
<1>10. g \in Bijection(1..N, 1..N)
  BY <1>7, <1>8, <1>9 DEF Bijection, Injection, Surjection, IsInjective
<1>. QED
  BY <1>10 DEF g

(* The same of a box: its entries from f + 1 to f + h are rearranged.      *)
RearrangesRange(B, C, c, N, f, h, p) ==
  /\ c \in DOMAIN B /\ DOMAIN C = DOMAIN B
  /\ N \in Nat /\ f \in Nat /\ h \in Nat /\ f + h <= N
  /\ Len(B[c]) = N /\ Len(C[c]) = N
  /\ p \in Bijection(1..h, 1..h)
  /\ \A k \in 1..N : C[c][k] = IF k \in f + 1..f + h THEN B[c][f + p[k - f]] ELSE B[c][k]
  /\ \A x \in DOMAIN B \ {c} : C[x] = B[x]

LEMMA RangeRearranged ==
  ASSUME NEW B, NEW C, NEW c, NEW N, NEW f, NEW h, NEW p, RearrangesRange(B, C, c, N, f, h, p)
  PROVE  Contents(C) = Contents(B) /\ (Distinct(B) => Distinct(C))
<1>. DEFINE g == Shifted(N, f, h, p)
<1>1. \A k \in 1..N : C[c][k] = B[c][g[k]]
  BY DEF Shifted, RearrangesRange
<1>2. g \in Bijection(1..N, 1..N)
  <2>1. N \in Nat /\ f \in Nat /\ h \in Nat /\ f + h <= N /\ p \in Bijection(1..h, 1..h)
    BY DEF RearrangesRange
  <2>. QED
    BY <2>1, ShiftedIs
<1>. HIDE DEF g
<1>3. Rearranges(B, C, c, g)
  BY <1>1, <1>2 DEF Rearranges, RearrangesRange
<1>. QED
  BY <1>3, EntriesRearranged

(* A block m of n entries whose j-th range was sorted.                     *)
Sorting(m, n, j, m2) ==
  \E r \in Sorts([k \in 1..Share(n, j) |-> m[StartOf(n, j) + k]]) :
    m2 = SortsRange(m, StartOf(n, j), Share(n, j), r)

Permutes(m, m2, f, h, p) ==
  \A k \in 1..Slots : m2[k] = IF k \in f + 1..f + h THEN m[f + p[k - f]] ELSE m[k]

LEMMA RangeSorted ==
  ASSUME NEW m \in Memory, NEW n \in 0..Slots, NEW j \in Threads,
         NEW m2, Sorting(m, n, j, m2)
  PROVE  /\ m2 \in Memory
         /\ \A i \in Threads \ {j} : RangeOf(m2, n, i, 0) = RangeOf(m, n, i, 0)
         /\ Ascending(RangeOf(m2, n, j, 0))
         /\ \E p \in Bijection(1..Share(n, j), 1..Share(n, j)) :
              Permutes(m, m2, StartOf(n, j), Share(n, j), p)
<1>. DEFINE f == StartOf(n, j)  h == Share(n, j)
<1>0. PICK r \in Sorts([k \in 1..h |-> m[f + k]]) : m2 = SortsRange(m, f, h, r)
  BY DEF Sorting
<1>1. /\ Slots \in Nat /\ m \in Seq(Items) /\ Len(m) = Slots
      /\ \A k \in 1..Slots : m[k] \in Items
  BY MemoryIs
<1>2. n \in Nat
  BY <1>1
<1>3. f \in Nat /\ h \in Nat /\ f + h <= n /\ n <= Slots /\ n \in Nat /\ Slots \in Nat
  BY <1>1, <1>2, ShareIs, RangeEnds
<1>. HIDE DEF f, h
<1>. DEFINE q == [k \in 1..h |-> m[f + k]]
<1>4. q \in [1..h -> Items]
  BY <1>1, <1>3
<1>5. r \in Sorts(q)
  BY <1>0
<1>6. /\ r \in Seq(Items) /\ Len(r) = h /\ Ascending(r)
      /\ \E p \in Bijection(1..h, 1..h) : \A k \in 1..h : r[k] = q[p[k]]
  <2>. HIDE DEF q
  <2>. QED
    BY <1>3, <1>4, <1>5, SortsAre
<1>7. \A k \in 1..h : r[k] \in Items
  BY <1>6, ElementOfSeq
<1>8. ASSUME NEW k \in 1..Slots
      PROVE  /\ m2[k] = IF k \in f + 1..f + h THEN r[k - f] ELSE m[k]
             /\ m2[k] \in Items
  <2>1. m2[k] = IF k \in f + 1..f + h THEN r[k - f] ELSE m[k]
    BY <1>0 DEF SortsRange
  <2>2. k \in f + 1..f + h => k - f \in 1..h
    BY <1>3
  <2>. QED
    BY <1>1, <1>7, <2>1, <2>2
<1>9. m2 \in Memory
  <2>1. m2 = [k \in 1..Slots |-> m2[k]]
    BY <1>0 DEF SortsRange
  <2>. QED
    BY <1>8, <2>1 DEF Memory
<1>10. ASSUME NEW i \in Threads \ {j} PROVE RangeOf(m2, n, i, 0) = RangeOf(m, n, i, 0)
  <2>. DEFINE u == RangeOf(m2, n, i, 0)  v == RangeOf(m, n, i, 0)
  <2>0. Share(n, i) \in Nat /\ StartOf(n, i) \in Nat /\ StartOf(n, i) + Share(n, i) <= n
    BY <1>2, ShareIs, RangeEnds
  <2>1. 0 \in 0..Share(n, i)
    BY <2>0
  <2>2. /\ v \in Seq(Items) /\ Len(v) = Share(n, i) - 0
        /\ \A k \in 1..Share(n, i) - 0 : v[k] = m[StartOf(n, i) + 0 + k]
    BY <2>1, RangeIs
  <2>3. /\ u \in Seq(Items) /\ Len(u) = Share(n, i) - 0
        /\ \A k \in 1..Share(n, i) - 0 : u[k] = m2[StartOf(n, i) + 0 + k]
    BY <1>9, <2>1, RangeIs
  <2>. HIDE DEF u, v
  <2>4. Len(u) = Len(v)
    BY <2>2, <2>3
  <2>5. ASSUME NEW k \in 1..Len(u) PROVE u[k] = v[k]
    <3>. DEFINE l == StartOf(n, i) + k
    <3>0. k \in 1..Share(n, i) - 0 /\ StartOf(n, i) + 0 + k = l
      BY <2>0, <2>3
    <3>1. l \in 1..Slots /\ l \in Int /\ StartOf(n, i) < l /\ l <= StartOf(n, i) + Share(n, i)
      BY <1>3, <2>0, <3>0
    <3>2. u[k] = m2[l] /\ v[k] = m[l]
      BY <2>2, <2>3, <3>0
    <3>. HIDE DEF l
    <3>3. l \notin f + 1..f + h
      <4>1. SUFFICES ASSUME l \in f + 1..f + h PROVE FALSE
        OBVIOUS
      <4>2. StartOf(n, j) < l /\ l <= StartOf(n, j) + Share(n, j)
        BY <1>3, <4>1 DEF f, h
      <4>3. i = j
        BY <1>2, <3>1, <4>2, RangesApart
      <4>. QED
        BY <4>3
    <3>. QED
      BY <1>8, <3>1, <3>2, <3>3
  <2>. QED
    BY <2>2, <2>3, <2>4, <2>5, SeqEqual DEF u, v
<1>11. Ascending(RangeOf(m2, n, j, 0))
  <2>. DEFINE u == RangeOf(m2, n, j, 0)
  <2>1. 0 \in 0..h
    BY <1>3
  <2>2. /\ u \in Seq(Items) /\ Len(u) = h - 0
        /\ \A k \in 1..h - 0 : u[k] = m2[f + 0 + k]
    BY <1>9, <2>1, RangeIs DEF f, h
  <2>. HIDE DEF u
  <2>3. Len(u) = h
    BY <1>3, <2>2
  <2>4. ASSUME NEW k \in 1..h PROVE u[k] = r[k]
    <3>1. f + 0 + k = f + k /\ f + k \in f + 1..f + h /\ (f + k) - f = k /\ f + k \in 1..Slots
          /\ k \in 1..h - 0
      BY <1>3
    <3>2. m2[f + k] = r[k]
      BY <1>8, <3>1
    <3>. QED
      BY <2>2, <3>1, <3>2
  <2>5. Ascending(u)
    BY <1>6, <2>3, <2>4 DEF Ascending
  <2>. QED
    BY <2>5 DEF u
<1>12. PICK p \in Bijection(1..h, 1..h) : \A k \in 1..h : r[k] = q[p[k]]
  BY <1>6
<1>13. ASSUME NEW k \in 1..Slots
       PROVE  m2[k] = IF k \in f + 1..f + h THEN m[f + p[k - f]] ELSE m[k]
  <2>1. CASE k \in f + 1..f + h
    <3>. DEFINE D == 1..h
    <3>1. k - f \in D
      BY <1>3, <2>1
    <3>2. p[k - f] \in D
      <4>1. p \in Bijection(D, D)
        OBVIOUS
      <4>. HIDE DEF D
      <4>2. p \in [D -> D]
        BY <4>1, BijectionIs
      <4>. QED
        BY <3>1, <4>2
    <3>3. r[k - f] = q[p[k - f]] /\ q[p[k - f]] = m[f + p[k - f]]
      BY <1>12, <3>1, <3>2
    <3>. QED
      BY <1>8, <2>1, <3>3
  <2>2. CASE k \notin f + 1..f + h
    BY <1>8, <2>2
  <2>. QED
    BY <2>1, <2>2
<1>14. Permutes(m, m2, f, h, p)
  BY <1>13 DEF Permutes
<1>. QED
  BY <1>9, <1>10, <1>11, <1>14 DEF f, h

(* One of the two blocks is replaced, and nothing is lost by it.           *)
Put(b, a, m) == [b EXCEPT ![a] = m]
AfterActive(b, b2, a, n, w, F, j) ==
  /\ SortOK(b2, a, n, w, F)
  /\ Contents(SortBoxes(b2, a, n, w, F)) = Contents(SortBoxes(b, a, n, w, F))
  /\ Distinct(SortBoxes(b, a, n, w, F)) => Distinct(SortBoxes(b2, a, n, w, F))
  /\ \A i \in Threads \ {j} : RangeOf(b2[a], n, i, 0) = RangeOf(b[a], n, i, 0)
  /\ Ascending(RangeOf(b2[a], n, j, 0))
  /\ w.state # "idle" => \A i \in Threads : Unwritten(b2, w, i) = Unwritten(b, w, i)
AfterWriter(b, b2, a, n, w, F, j) ==
  /\ SortOK(b2, a, n, w, F)
  /\ Contents(SortBoxes(b2, a, n, w, F)) = Contents(SortBoxes(b, a, n, w, F))
  /\ Distinct(SortBoxes(b, a, n, w, F)) => Distinct(SortBoxes(b2, a, n, w, F))
  /\ \A i \in Threads \ {j} : Unwritten(b2, w, i) = Unwritten(b, w, i)
  /\ Ascending(Unwritten(b2, w, j))
WritesOther(w, a) == w.state # "idle" => w.from = 1 - a
UnusedYet(w, a) == w.state # "idle" /\ w.from = 1 - a /\ \A i \in Threads : w.used[i] = 0

(* A range of the block that is filled is sorted.                          *)
LEMMA ActiveRangeSorted ==
  ASSUME NEW b, NEW a, NEW n, NEW w, NEW F, SortOK(b, a, n, w, F),
         WritesOther(w, a),
         NEW j \in Threads, NEW m2, Sorting(b[a], n, j, m2),
         NEW b2, b2 = Put(b, a, m2)
  PROVE  AfterActive(b, b2, a, n, w, F, j)
<1>. DEFINE m == b[a]  f == StartOf(n, j)  h == Share(n, j)
            B == SortBoxes(b, a, n, w, F)  C == SortBoxes(b2, a, n, w, F)
<1>1. /\ b \in [{0, 1} -> Memory] /\ a \in {0, 1} /\ n \in 0..Slots /\ w \in WriterRec
      /\ m \in Memory
  BY DEF SortOK
<1>14. w.state # "idle" => w.from = 1 - a
  BY DEF WritesOther
<1>2. /\ m2 \in Memory
      /\ \A i \in Threads \ {j} : RangeOf(m2, n, i, 0) = RangeOf(m, n, i, 0)
      /\ Ascending(RangeOf(m2, n, j, 0))
      /\ \E p \in Bijection(1..h, 1..h) : Permutes(m, m2, f, h, p)
  BY <1>1, RangeSorted
<1>3. /\ b2 \in [{0, 1} -> Memory] /\ b2[a] = m2 /\ \A x \in {0, 1} \ {a} : b2[x] = b[x]
  BY <1>1, <1>2 DEF Put
<1>4. SortOK(b2, a, n, w, F)
  BY <1>1, <1>3 DEF SortOK
<1>5. ASSUME w.state # "idle", NEW i \in Threads PROVE Unwritten(b2, w, i) = Unwritten(b, w, i)
  <2>1. w.from \in {0, 1} \ {a}
    BY <1>1, <1>5, <1>14 DEF WriterRec
  <2>. QED
    BY <1>3, <2>1 DEF Unwritten
<1>6. PICK p \in Bijection(1..h, 1..h) : Permutes(m, m2, f, h, p)
  BY <1>2
<1>0. f \in Nat /\ h \in Nat /\ f + h <= n /\ n \in Nat /\ Slots \in Nat /\ n <= Slots
  <2>1. n \in Nat /\ Slots \in Nat /\ n <= Slots
    BY <1>1, MemoryIs
  <2>. QED
    BY <2>1, ShareIs, RangeEnds
<1>. HIDE DEF f, h
<1>7. AreBoxes(B, b, a, n, w, F)
  BY SortBoxesAre
<1>8. AreBoxes(C, b2, a, n, w, F)
  BY <1>4, SortBoxesAre
<1>. HIDE DEF B, C, m
<1>9. ASSUME NEW x \in Int \ {0} PROVE C[x] = B[x]
  <2>1. CASE x \in Nat \ {0}
    BY <1>7, <1>8, <2>1, FileBox
  <2>2. ASSUME NEW i \in Nat \ {0}, x = -i PROVE C[x] = B[x]
    <3>1. i \in Threads => Pending(b2, w, i) = Pending(b, w, i)
      BY <1>5 DEF Pending
    <3>2. /\ B[-i] = IF i \in Threads THEN Pending(b, w, i) ELSE <<>>
          /\ C[-i] = IF i \in Threads THEN Pending(b2, w, i) ELSE <<>>
      BY <1>7, <1>8, PendingBox
    <3>. QED
      BY <2>2, <3>1, <3>2
  <2>. QED
    BY <2>1, <2>2, Signs
<1>10. ASSUME NEW k \in 1..n
       PROVE  C[0][k] = IF k \in f + 1..f + h THEN B[0][f + p[k - f]] ELSE B[0][k]
  <2>1. k \in 1..Slots
    BY <1>0
  <2>2. CASE k \in f + 1..f + h
    <3>. DEFINE D == 1..h
    <3>1. k - f \in D
      BY <1>0, <2>2
    <3>2. p \in Bijection(D, D)
      OBVIOUS
    <3>3. p[k - f] \in D
      <4>. HIDE DEF D
      <4>1. p \in [D -> D]
        BY <3>2, BijectionIs
      <4>. QED
        BY <3>1, <4>1
    <3>4. f + p[k - f] \in 1..n
      BY <1>0, <3>3
    <3>5. B[0][f + p[k - f]] = m[f + p[k - f]]
      BY <1>7, <3>4, BlockBox DEF m
    <3>6. C[0][k] = m[f + p[k - f]]
      BY <1>3, <1>6, <1>8, <2>1, <2>2 DEF Permutes, AreBoxes
    <3>. QED
      BY <2>2, <3>5, <3>6
  <2>3. CASE k \notin f + 1..f + h
    <3>1. C[0][k] = m[k]
      BY <1>3, <1>6, <1>8, <2>1, <2>3 DEF Permutes, AreBoxes
    <3>2. B[0][k] = m[k]
      BY <1>7, BlockBox DEF m
    <3>. QED
      BY <2>3, <3>1, <3>2
  <2>. QED
    BY <2>2, <2>3
<1>11. /\ 0 \in DOMAIN B /\ DOMAIN C = DOMAIN B
       /\ \A x \in DOMAIN B \ {0} : C[x] = B[x]
  BY <1>7, <1>8, <1>9 DEF AreBoxes
<1>12. RearrangesRange(B, C, 0, n, f, h, p)
  BY <1>0, <1>7, <1>8, <1>10, <1>11 DEF RearrangesRange, AreBoxes
<1>13. Contents(C) = Contents(B) /\ (Distinct(B) => Distinct(C))
  BY <1>12, RangeRearranged
<1>. QED
  BY <1>2, <1>3, <1>4, <1>5, <1>13 DEF AfterActive, B, C, m

(* A range of the block that is written is.                                *)
LEMMA WrittenRangeSorted ==
  ASSUME NEW b, NEW a, NEW n, NEW w, NEW F, SortOK(b, a, n, w, F),
         UnusedYet(w, a),
         NEW j \in Threads, NEW m2, Sorting(b[w.from], w.n, j, m2),
         NEW b2, b2 = Put(b, w.from, m2)
  PROVE  AfterWriter(b, b2, a, n, w, F, j)
<1>. DEFINE m == b[w.from]  f == StartOf(w.n, j)  h == Share(w.n, j)
            B == SortBoxes(b, a, n, w, F)  C == SortBoxes(b2, a, n, w, F)
<1>16. w.state # "idle" /\ w.from = 1 - a /\ \A i \in Threads : w.used[i] = 0
  BY DEF UnusedYet
<1>1. /\ b \in [{0, 1} -> Memory] /\ a \in {0, 1} /\ n \in 0..Slots /\ w \in WriterRec
      /\ w.from \in {0, 1} /\ w.from # a /\ w.n \in 0..Slots /\ WriterOK(w)
      /\ m \in Memory
  BY <1>16 DEF SortOK, WriterRec
<1>2. /\ m2 \in Memory
      /\ \A i \in Threads \ {j} : RangeOf(m2, w.n, i, 0) = RangeOf(m, w.n, i, 0)
      /\ Ascending(RangeOf(m2, w.n, j, 0))
      /\ \E p \in Bijection(1..h, 1..h) : Permutes(m, m2, f, h, p)
  BY <1>1, RangeSorted
<1>0. f \in Nat /\ h \in Nat /\ f + h <= w.n /\ w.n \in Nat /\ Slots \in Nat /\ w.n <= Slots
  <2>1. w.n \in Nat /\ Slots \in Nat /\ w.n <= Slots
    BY <1>1, MemoryIs
  <2>. QED
    BY <2>1, ShareIs, RangeEnds
<1>. HIDE DEF f, h
<1>3. /\ b2 \in [{0, 1} -> Memory] /\ b2[w.from] = m2 /\ b2[a] = b[a]
  BY <1>1, <1>2 DEF Put
<1>4. SortOK(b2, a, n, w, F)
  BY <1>1, <1>3 DEF SortOK
<1>5. ASSUME NEW i \in Threads
      PROVE  /\ Unwritten(b2, w, i) = RangeOf(m2, w.n, i, 0)
             /\ Unwritten(b, w, i) = RangeOf(m, w.n, i, 0)
  BY <1>3, <1>16 DEF Unwritten
<1>6. PICK p \in Bijection(1..h, 1..h) : Permutes(m, m2, f, h, p)
  BY <1>2
<1>7. AreBoxes(B, b, a, n, w, F)
  BY SortBoxesAre
<1>8. AreBoxes(C, b2, a, n, w, F)
  BY <1>4, SortBoxesAre
<1>. HIDE DEF B, C
<1>9. -j \in Int /\ -j # 0
  BY ShareIs DEF Threads
<1>10. ASSUME NEW x \in Int \ {-j} PROVE C[x] = B[x]
  <2>1. CASE x \in Nat \ {0}
    BY <1>7, <1>8, <2>1, FileBox
  <2>2. ASSUME NEW i \in Nat \ {0}, x = -i PROVE C[x] = B[x]
    <3>1. i \in Threads => Pending(b2, w, i) = Pending(b, w, i)
      <4>1. i # j
        BY <2>2
      <4>2. i \in Threads => Unwritten(b2, w, i) = Unwritten(b, w, i)
        BY <1>2, <1>5, <4>1
      <4>. QED
        BY <4>2 DEF Pending
    <3>2. /\ B[-i] = IF i \in Threads THEN Pending(b, w, i) ELSE <<>>
          /\ C[-i] = IF i \in Threads THEN Pending(b2, w, i) ELSE <<>>
      BY <1>7, <1>8, PendingBox
    <3>. QED
      BY <2>2, <3>1, <3>2
  <2>3. CASE x = 0
    <3>1. /\ B[0] \in Seq(Items) /\ Len(B[0]) = n /\ n \in Nat
          /\ C[0] \in Seq(Items) /\ Len(C[0]) = n
      BY <1>7, <1>8, BlockBox
    <3>2. \A k \in 1..n : B[0][k] = b[a][k]
      BY <1>7, BlockBox
    <3>3. \A k \in 1..n : C[0][k] = b2[a][k]
      BY <1>8, BlockBox
    <3>4. Len(C[0]) = Len(B[0]) /\ \A k \in 1..Len(C[0]) : C[0][k] = B[0][k]
      BY <1>3, <3>1, <3>2, <3>3
    <3>5. C[0] = B[0]
      BY <3>1, <3>4, SeqEqual
    <3>. QED
      BY <2>3, <3>5
  <2>. QED
    BY <2>1, <2>2, <2>3, Signs
<1>11. /\ Len(B[-j]) = h /\ \A k \in 1..h : B[-j][k] = m[f + k]
       /\ Len(C[-j]) = h /\ \A k \in 1..h : C[-j][k] = m2[f + k]
  <2>1. 0 \in 0..Share(w.n, j)
    BY <1>0 DEF h
  <2>2. /\ Len(RangeOf(m, w.n, j, 0)) = h - 0
        /\ \A i \in 1..h - 0 : RangeOf(m, w.n, j, 0)[i] = m[f + 0 + i]
    BY <1>1, <2>1, RangeIs DEF f, h
  <2>3. /\ Len(RangeOf(m2, w.n, j, 0)) = h - 0
        /\ \A i \in 1..h - 0 : RangeOf(m2, w.n, j, 0)[i] = m2[f + 0 + i]
    BY <1>1, <1>2, <2>1, RangeIs DEF f, h
  <2>4. B[-j] = RangeOf(m, w.n, j, 0) /\ C[-j] = RangeOf(m2, w.n, j, 0)
    <3>1. j \in Nat \ {0} /\ w.state # "idle"
      BY <1>16, ShareIs DEF Threads
    <3>2. B[-j] = Pending(b, w, j) /\ C[-j] = Pending(b2, w, j)
      BY <1>7, <1>8, <3>1, PendingBox
    <3>. QED
      BY <1>5, <3>1, <3>2 DEF Pending
  <2>5. h - 0 = h /\ f + 0 = f
    BY <1>0
  <2>. QED
    BY <2>2, <2>3, <2>4, <2>5
<1>. HIDE DEF m
<1>12. ASSUME NEW k \in 1..h
       PROVE  C[-j][k] = IF k \in 0 + 1..0 + h THEN B[-j][0 + p[k - 0]] ELSE B[-j][k]
  <2>1. f + k \in 1..Slots /\ f + k \in f + 1..f + h /\ (f + k) - f = k /\ k - 0 = k /\ k \in 0 + 1..0 + h
    BY <1>0
  <2>2. C[-j][k] = m[f + p[k]]
    BY <1>6, <1>11, <2>1 DEF Permutes
  <2>. DEFINE D == 1..h
  <2>3. p[k] \in D
    <3>1. p \in Bijection(D, D) /\ k \in D
      OBVIOUS
    <3>. HIDE DEF D
    <3>2. p \in [D -> D]
      BY <3>1, BijectionIs
    <3>. QED
      BY <3>1, <3>2
  <2>4. B[-j][p[k]] = m[f + p[k]] /\ 0 + p[k] = p[k]
    BY <1>11, <2>3
  <2>. QED
    BY <2>1, <2>2, <2>4
<1>13. /\ -j \in DOMAIN B /\ DOMAIN C = DOMAIN B
       /\ \A x \in DOMAIN B \ {-j} : C[x] = B[x]
  BY <1>7, <1>8, <1>9, <1>10 DEF AreBoxes
<1>14. RearrangesRange(B, C, -j, h, 0, h, p)
  <2>1. 0 \in Nat /\ 0 + h <= h /\ h \in Nat
    BY <1>0
  <2>. QED
    BY <2>1, <1>11, <1>12, <1>13 DEF RearrangesRange
<1>15. Contents(C) = Contents(B) /\ (Distinct(B) => Distinct(C))
  BY <1>14, RangeRearranged
<1>. QED
  BY <1>2, <1>4, <1>5, <1>15 DEF AfterWriter, B, C, m

-----------------------------------------------------------------------------
(* Of some entries, numbered by S, one with the smallest key comes first.  *)
LEMMA FirstSmallest ==
  ASSUME NEW S, S \subseteq Nat, S # {}, NEW front, \A i \in S : front[i].key \in Nat
  PROVE  \E j \in S : \A i \in S :
           front[j].key < front[i].key \/ (front[j].key = front[i].key /\ j <= i)
<1>. DEFINE K == {front[i].key : i \in S}
<1>1. K \subseteq Nat /\ K # {}
  OBVIOUS
<1>2. PICK m \in K : \A k \in K : m <= k
  BY <1>1, LeastNumber
<1>. DEFINE T == {i \in S : front[i].key = m}
<1>3. T \subseteq Nat /\ T # {}
  OBVIOUS
<1>4. PICK j \in T : \A i \in T : j <= i
  BY <1>3, LeastNumber
<1>5. ASSUME NEW i \in S
      PROVE  front[j].key < front[i].key \/ (front[j].key = front[i].key /\ j <= i)
  <2>1. front[j].key = m /\ front[i].key \in K /\ m \in Nat /\ front[i].key \in Nat
    BY <1>1
  <2>2. m <= front[i].key
    BY <1>2, <2>1
  <2>3. CASE front[i].key = m
    BY <1>4, <2>1, <2>3
  <2>4. CASE front[i].key # m
    BY <2>1, <2>2, <2>4
  <2>. QED
    BY <2>3, <2>4
<1>. QED
  BY <1>5

(* The next entry of range j goes to the end of the last file.             *)
NextItem(b, w, j) == b[w.from][StartOf(w.n, j) + w.used[j] + 1]

Writes(b, w, F, j, w2, F2) ==
  LET used == [w.used EXCEPT ![j] = @ + 1]
  IN  /\ w.state = "write" /\ j \in Threads /\ w.used[j] < Share(w.n, j) /\ Len(F) # 0
      /\ F2 = [F EXCEPT ![Len(F)] = Append(@, NextItem(b, w, j))]
      /\ w2 = IF \A i \in Threads : used[i] = Share(w.n, i) THEN Idle ELSE [w EXCEPT !.used = used]

LEMMA PendingIs ==
  ASSUME NEW b \in [{0, 1} -> Memory], NEW w \in WriterRec, WriterOK(w), w.state # "idle",
         NEW j \in Threads
  PROVE  /\ Pending(b, w, j) = Unwritten(b, w, j) /\ Pending(b, w, j) \in Seq(Items)
         /\ Len(Pending(b, w, j)) = Share(w.n, j) - w.used[j]
         /\ w.used[j] \in Nat /\ Share(w.n, j) \in Nat
         /\ \A i \in 1..Share(w.n, j) - w.used[j] :
              Pending(b, w, j)[i] = b[w.from][StartOf(w.n, j) + w.used[j] + i]
BY UnwrittenIs DEF Pending

LEMMA NextPlace ==
  ASSUME NEW s \in Nat, NEW u \in Nat, NEW v, NEW h \in Nat, NEW k, v = u + 1, k \in 1..h - v
  PROVE  k + 1 \in 1..h - u /\ s + v + k = s + u + (k + 1)
OBVIOUS

LEMMA WriterAfter ==
  ASSUME NEW b \in [{0, 1} -> Memory], NEW w \in WriterRec, WriterOK(w), NEW F \in Seq(Seq(Items)),
         NEW j, NEW w2, NEW F2, Writes(b, w, F, j, w2, F2)
  PROVE  /\ w2 \in WriterRec /\ WriterOK(w2) /\ w2.state \in {"idle", "write"}
         /\ w2.state = "write" => w2 = [w EXCEPT !.used = w2.used]
         /\ j \in Threads
         /\ \A i \in Threads :
              Len(Pending(b, w2, i)) = Len(Pending(b, w, i)) - IF i = j THEN 1 ELSE 0
         /\ \A i \in Threads \ {j} : Pending(b, w2, i) = Pending(b, w, i)
         /\ Len(Pending(b, w, j)) \in Nat \ {0} /\ Pending(b, w, j)[1] = NextItem(b, w, j)
         /\ \A k \in 1..Len(Pending(b, w2, j)) : Pending(b, w2, j)[k] = Pending(b, w, j)[k + 1]
         /\ NextItem(b, w, j) \in Items
<1>. DEFINE used == [w.used EXCEPT ![j] = @ + 1]
            P(i) == Pending(b, w, i)  Q(i) == Pending(b, w2, i)
            S(i) == Share(w.n, i)
<1>1. /\ w.state = "write" /\ j \in Threads /\ w.used[j] < S(j) /\ Len(F) # 0
      /\ w2 = IF \A i \in Threads : used[i] = S(i) THEN Idle ELSE [w EXCEPT !.used = used]
  BY DEF Writes
<1>2. ASSUME NEW i \in Threads
      PROVE  /\ P(i) \in Seq(Items) /\ Len(P(i)) = S(i) - w.used[i]
             /\ w.used[i] \in Nat /\ S(i) \in Nat /\ w.used[i] <= S(i)
             /\ w.used[i] \in Int /\ S(i) \in Int
  <2>1. w.state # "idle"
    BY <1>1
  <2>. QED
    BY <2>1, PendingIs DEF WriterOK
<1>20. ASSUME NEW i \in Threads
       PROVE  \A k \in 1..S(i) - w.used[i] : P(i)[k] = b[w.from][StartOf(w.n, i) + w.used[i] + k]
  <2>1. w.state # "idle"
    BY <1>1
  <2>. QED
    BY <2>1, PendingIs
<1>3. /\ Slots \in Nat /\ w.n \in 0..Slots /\ w.used \in [Threads -> 0..Slots]
      /\ w.n \in Nat
  BY SortAssumption, MergeAssumption DEF WriterRec
<1>4. ASSUME NEW i \in Threads
      PROVE  used[i] \in 0..Slots /\ used[i] <= S(i) /\ used[i] = IF i = j THEN w.used[i] + 1 ELSE w.used[i]
  <2>1. used[i] = IF i = j THEN w.used[i] + 1 ELSE w.used[i]
    BY <1>3
  <2>2. S(i) <= Slots
    <3>1. S(i) \in Nat /\ StartOf(w.n, i) \in Nat
      BY <1>3, ShareIs
    <3>2. StartOf(w.n, i) + S(i) <= w.n
      BY <1>3, RangeEnds
    <3>. QED
      BY <1>3, <3>1, <3>2
  <2>3. w.used[i] \in Nat /\ S(i) \in Nat /\ w.used[i] <= S(i) /\ (i = j => w.used[i] < S(i))
    BY <1>1, <1>2
  <2>. HIDE DEF used, S
  <2>. QED
    BY <1>3, <2>1, <2>2, <2>3
<1>5. used \in [Threads -> 0..Slots]
  BY <1>3, <1>4
<1>. HIDE DEF used, P, Q, S
<1>6. CASE \A i \in Threads : used[i] = S(i)
  <2>1. w2 = Idle /\ w2.state = "idle"
    BY <1>1, <1>6 DEF Idle
  <2>2. w2 \in WriterRec /\ WriterOK(w2)
    <3>1. 0 \in 0..Slots
      BY <1>3
    <3>. QED
      BY <2>1, <3>1 DEF Idle, WriterRec, WriterOK, Types
  <2>3. ASSUME NEW i \in Threads
        PROVE  Q(i) = <<>> /\ Len(Q(i)) = 0 /\ Len(P(i)) = IF i = j THEN 1 ELSE 0
    <3>1. Q(i) = <<>> /\ Len(Q(i)) = 0
      BY <2>1 DEF Pending, Q
    <3>2. used[i] = S(i)
      BY <1>6
    <3>3. Len(P(i)) = S(i) - w.used[i] /\ w.used[i] \in Int /\ S(i) \in Int
      BY <1>2
    <3>4. used[i] = IF i = j THEN w.used[i] + 1 ELSE w.used[i]
      BY <1>4
    <3>5. Len(P(i)) = IF i = j THEN 1 ELSE 0
      BY <3>2, <3>3, <3>4
    <3>. QED
      BY <3>1, <3>5
  <2>4. ASSUME NEW i \in Threads \ {j} PROVE Q(i) = P(i)
    <3>1. P(i) \in Seq(Items) /\ Len(P(i)) = 0
      BY <1>2, <2>3
    <3>2. P(i) = <<>>
      BY <3>1, EmptyIs
    <3>. QED
      BY <2>3, <3>2
  <2>5. /\ P(j)[1] = NextItem(b, w, j)
    <3>1. 1 \in 1..S(j) - w.used[j]
      BY <1>1, <1>2
    <3>. QED
      BY <1>1, <1>20, <3>1 DEF NextItem
  <2>6. NextItem(b, w, j) \in Items
    <3>1. 1 \in 1..Len(P(j)) /\ P(j) \in Seq(Items)
      BY <1>1, <1>2
    <3>. QED
      BY <2>5, <3>1, ElementOfSeq
  <2>7. \A k \in 1..Len(Q(j)) : Q(j)[k] = P(j)[k + 1]
    BY <1>1, <2>3
  <2>8. ASSUME NEW i \in Threads PROVE Len(Q(i)) = Len(P(i)) - IF i = j THEN 1 ELSE 0
    <3>1. Len(Q(i)) = 0 /\ Len(P(i)) = IF i = j THEN 1 ELSE 0
      BY <2>3
    <3>. QED
      BY <3>1
  <2>9. Len(P(j)) \in Nat \ {0}
    <3>1. Len(P(j)) = 1
      BY <1>1, <2>3
    <3>. QED
      BY <3>1
  <2>. QED
    BY <1>1, <2>1, <2>2, <2>4, <2>5, <2>6, <2>7, <2>8, <2>9 DEF P, Q
<1>7. CASE ~ \A i \in Threads : used[i] = S(i)
  <2>1. w2 = [w EXCEPT !.used = used]
    BY <1>1, <1>7
  <2>2. /\ w2 \in WriterRec /\ w2.state = "write" /\ w2.used = used /\ w2.n = w.n /\ w2.from = w.from
    BY <1>1, <1>5, <2>1 DEF WriterRec
  <2>3. WriterOK(w2)
    <3>1. PICK i \in Threads : used[i] # S(i)
      BY <1>7
    <3>2. used[i] \in Int /\ used[i] < S(i)
      BY <1>2, <1>3, <1>4, <3>1
    <3>3. w2.used[i] < Share(w2.n, i)
      BY <2>2, <3>2 DEF S
    <3>4. \A k \in Threads : w2.used[k] <= Share(w2.n, k)
      BY <1>4, <2>2 DEF S
    <3>. QED
      BY <3>3, <3>4 DEF WriterOK
  <2>4. ASSUME NEW i \in Threads
        PROVE  /\ Q(i) \in Seq(Items) /\ Len(Q(i)) = S(i) - used[i]
               /\ \A k \in 1..S(i) - used[i] : Q(i)[k] = b[w.from][StartOf(w.n, i) + used[i] + k]
    <3>1. w2.state # "idle"
      BY <2>2
    <3>2. /\ Q(i) \in Seq(Items) /\ Len(Q(i)) = Share(w2.n, i) - w2.used[i]
          /\ \A k \in 1..Share(w2.n, i) - w2.used[i] :
               Q(i)[k] = b[w2.from][StartOf(w2.n, i) + w2.used[i] + k]
      BY <2>2, <2>3, <3>1, PendingIs DEF Q
    <3>. QED
      BY <2>2, <3>2 DEF S
  <2>5. ASSUME NEW i \in Threads \ {j} PROVE Q(i) = P(i)
    <3>1. used[i] = w.used[i]
      BY <1>4
    <3>2. Len(P(i)) = S(i) - w.used[i] /\ Len(Q(i)) = S(i) - w.used[i]
      BY <1>2, <2>4, <3>1
    <3>3. \A k \in 1..S(i) - w.used[i] : P(i)[k] = b[w.from][StartOf(w.n, i) + w.used[i] + k]
      BY <1>20
    <3>4. \A k \in 1..S(i) - w.used[i] : Q(i)[k] = b[w.from][StartOf(w.n, i) + w.used[i] + k]
      BY <2>4, <3>1
    <3>5. Len(Q(i)) = Len(P(i)) /\ \A k \in 1..Len(Q(i)) : Q(i)[k] = P(i)[k]
      BY <3>2, <3>3, <3>4
    <3>6. P(i) \in Seq(Items) /\ Q(i) \in Seq(Items)
      BY <1>2, <2>4
    <3>. QED
      BY <3>5, <3>6, SeqEqual
  <2>6. used[j] = w.used[j] + 1 /\ w.used[j] \in Nat /\ S(j) \in Nat /\ StartOf(w.n, j) \in Nat
    BY <1>1, <1>2, <1>3, <1>4, ShareIs DEF S
  <2>7. Len(Q(j)) = Len(P(j)) - 1 /\ Len(P(j)) \in Nat \ {0}
    <3>1. Len(P(j)) = S(j) - w.used[j] /\ w.used[j] < S(j)
      BY <1>1, <1>2
    <3>2. Len(Q(j)) = S(j) - used[j]
      BY <1>1, <2>4
    <3>. QED
      BY <2>6, <3>1, <3>2
  <2>8. ASSUME NEW k \in 1..Len(Q(j)) PROVE Q(j)[k] = P(j)[k + 1]
    <3>1. /\ k \in 1..S(j) - used[j] /\ k + 1 \in 1..S(j) - w.used[j]
          /\ StartOf(w.n, j) + used[j] + k = StartOf(w.n, j) + w.used[j] + (k + 1)
      <4>1. Len(Q(j)) = S(j) - used[j]
        BY <1>1, <2>4
      <4>2. k \in 1..S(j) - used[j]
        BY <4>1
      <4>. DEFINE s == StartOf(w.n, j)  u == w.used[j]  v == used[j]  h == S(j)
      <4>3. s \in Nat /\ u \in Nat /\ v = u + 1 /\ h \in Nat /\ k \in 1..h - v
        BY <2>6, <4>2
      <4>. HIDE DEF s, u, v, h
      <4>4. k + 1 \in 1..h - u /\ s + v + k = s + u + (k + 1)
        BY <4>3, NextPlace
      <4>. QED
        BY <4>3, <4>4 DEF s, u, v, h
    <3>2. Q(j)[k] = b[w.from][StartOf(w.n, j) + used[j] + k]
      BY <1>1, <2>4, <3>1
    <3>3. P(j)[k + 1] = b[w.from][StartOf(w.n, j) + w.used[j] + (k + 1)]
      BY <1>1, <1>20, <3>1
    <3>. QED
      BY <3>1, <3>2, <3>3
  <2>9. P(j)[1] = NextItem(b, w, j) /\ NextItem(b, w, j) \in Items
    <3>1. 1 \in 1..S(j) - w.used[j] /\ 1 \in 1..Len(P(j))
      BY <1>1, <1>2
    <3>2. P(j)[1] = NextItem(b, w, j)
      BY <1>1, <1>20, <3>1 DEF NextItem
    <3>3. P(j)[1] \in Items
      BY <1>1, <1>2, <3>1, ElementOfSeq
    <3>. QED
      BY <3>2, <3>3
  <2>10. ASSUME NEW i \in Threads PROVE Len(Q(i)) = Len(P(i)) - IF i = j THEN 1 ELSE 0
    <3>1. CASE i = j
      BY <2>7, <3>1
    <3>2. CASE i # j
      BY <1>2, <2>5, <3>2
    <3>. QED
      BY <3>1, <3>2
  <2>. QED
    BY <1>1, <2>1, <2>2, <2>3, <2>5, <2>7, <2>8, <2>9, <2>10 DEF P, Q
<1>. QED
  BY <1>6, <1>7

LEMMA EntryWritten ==
  ASSUME NEW b, NEW a, NEW n, NEW w, NEW F, SortOK(b, a, n, w, F),
         NEW j, NEW w2, NEW F2, Writes(b, w, F, j, w2, F2)
  PROVE  /\ SortOK(b, a, n, w2, F2) /\ Len(F2) = Len(F)
         /\ Contents(SortBoxes(b, a, n, w2, F2)) = Contents(SortBoxes(b, a, n, w, F))
         /\ Distinct(SortBoxes(b, a, n, w, F)) => Distinct(SortBoxes(b, a, n, w2, F2))
<1>. DEFINE B == SortBoxes(b, a, n, w, F)  C == SortBoxes(b, a, n, w2, F2)
            e == NextItem(b, w, j)  d == Len(F)
<1>1. /\ b \in [{0, 1} -> Memory] /\ w \in WriterRec /\ WriterOK(w) /\ F \in Seq(Seq(Items))
      /\ a \in {0, 1} /\ n \in 0..Slots
  BY DEF SortOK
<1>2. /\ w2 \in WriterRec /\ WriterOK(w2)
      /\ j \in Threads
      /\ \A i \in Threads \ {j} : Pending(b, w2, i) = Pending(b, w, i)
      /\ Len(Pending(b, w, j)) \in Nat \ {0} /\ Pending(b, w, j)[1] = e
      /\ Len(Pending(b, w2, j)) = Len(Pending(b, w, j)) - 1
      /\ \A k \in 1..Len(Pending(b, w2, j)) : Pending(b, w2, j)[k] = Pending(b, w, j)[k + 1]
      /\ e \in Items
  BY <1>1, WriterAfter
<1>3. F2 = [F EXCEPT ![d] = Append(@, e)] /\ Len(F) # 0
  BY DEF Writes
<1>4. d \in 1..Len(F) /\ F[d] \in Seq(Items) /\ Len(F) \in Nat
  <2>1. Len(F) \in Nat
    BY <1>1
  <2>. QED
    BY <1>1, <1>3, <2>1, ElementOfSeq
<1>5. /\ Append(F[d], e) \in Seq(Items) /\ Len(Append(F[d], e)) = Len(F[d]) + 1
      /\ \A i \in 1..Len(F[d]) : Append(F[d], e)[i] = F[d][i]
      /\ Append(F[d], e)[Len(F[d]) + 1] = e /\ Len(F[d]) \in Nat
  BY <1>2, <1>4, AppendIs
<1>6. /\ F2 \in Seq(Seq(Items)) /\ Len(F2) = Len(F)
      /\ F2[d] = Append(F[d], e) /\ \A i \in 1..Len(F) \ {d} : F2[i] = F[i]
  <2>. HIDE DEF e, d
  <2>. QED
    BY <1>1, <1>3, <1>4, <1>5
<1>7. SortOK(b, a, n, w2, F2)
  BY <1>1, <1>2, <1>6 DEF SortOK
<1>8. AreBoxes(B, b, a, n, w, F) /\ AreBoxes(C, b, a, n, w2, F2)
  BY <1>7, SortBoxesAre
<1>. HIDE DEF B, C, e, d
<1>9. d \in Nat \ {0} /\ j \in Nat \ {0} /\ -j \in Int /\ -j # d /\ d \in Int
  <2>1. j \in Nat \ {0} /\ -j \in Int /\ -j < 0
    BY <1>2 DEF Threads
  <2>2. d \in Nat \ {0}
    BY <1>4
  <2>. QED
    BY <2>1, <2>2
<1>10. ASSUME NEW x \in Int \ {-j, d} PROVE C[x] = B[x]
  <2>1. CASE x \in Nat \ {0}
    <3>1. x \in 1..Len(F) => F2[x] = F[x]
      BY <1>6, <1>10
    <3>. QED
      BY <1>6, <1>8, <2>1, <3>1, FileBox
  <2>2. ASSUME NEW i \in Nat \ {0}, x = -i PROVE C[x] = B[x]
    <3>1. i \in Threads => Pending(b, w2, i) = Pending(b, w, i)
      BY <1>2, <1>10, <2>2
    <3>2. /\ B[-i] = IF i \in Threads THEN Pending(b, w, i) ELSE <<>>
          /\ C[-i] = IF i \in Threads THEN Pending(b, w2, i) ELSE <<>>
      BY <1>8, PendingBox
    <3>. QED
      BY <2>2, <3>1, <3>2
  <2>3. CASE x = 0
    <3>1. /\ B[0] \in Seq(Items) /\ Len(B[0]) = n /\ n \in Nat
          /\ C[0] \in Seq(Items) /\ Len(C[0]) = n
      BY <1>8, BlockBox
    <3>2. \A k \in 1..n : B[0][k] = b[a][k]
      BY <1>8, BlockBox
    <3>3. \A k \in 1..n : C[0][k] = b[a][k]
      BY <1>8, BlockBox
    <3>4. Len(C[0]) = Len(B[0]) /\ \A k \in 1..Len(C[0]) : C[0][k] = B[0][k]
      BY <3>1, <3>2, <3>3
    <3>5. C[0] = B[0]
      BY <3>1, <3>4, SeqEqual
    <3>. QED
      BY <2>3, <3>5
  <2>. QED
    BY <2>1, <2>2, <2>3, Signs
<1>11. B[-j] = Pending(b, w, j) /\ C[-j] = Pending(b, w2, j)
  BY <1>2, <1>8, <1>9, PendingBox
<1>12. B[d] = F[d] /\ C[d] = F2[d]
  <2>1. d \in 1..Len(F) /\ d \in 1..Len(F2)
    BY <1>4, <1>6
  <2>. QED
    BY <1>8, <1>9, <2>1, FileBox
<1>13. DOMAIN B = Int /\ DOMAIN C = Int /\ Lens(B)
  BY <1>8 DEF AreBoxes
<1>14. MovesHead(B, C, -j, d)
  <2>1. /\ Len(B[-j]) # 0 /\ Len(C[-j]) = Len(B[-j]) - 1
        /\ \A i \in 1..Len(C[-j]) : C[-j][i] = B[-j][i + 1]
    BY <1>2, <1>11
  <2>2. /\ Len(C[d]) = Len(B[d]) + 1 /\ C[d][Len(C[d])] = e
        /\ \A i \in 1..Len(B[d]) : C[d][i] = B[d][i]
    BY <1>5, <1>6, <1>12
  <2>3. B[-j][1] = e
    BY <1>2, <1>11
  <2>. QED
    BY <1>9, <1>10, <1>13, <2>1, <2>2, <2>3 DEF MovesHead
<1>15. Contents(C) = Contents(B) /\ (Distinct(B) => Distinct(C))
  BY <1>13, <1>14, HeadMoved
<1>. QED
  BY <1>6, <1>7, <1>15 DEF B, C

(* Then the last file is still sorted, and before what follows.            *)
RunsOK(b, w, q) ==
  /\ Ascending(q)
  /\ \A j \in Threads : Ascending(Pending(b, w, j)) /\ Below(q, Pending(b, w, j))

Smallest1(b, w, j) ==
  /\ j \in Threads /\ w.used[j] < Share(w.n, j)
  /\ \A i \in Threads : w.used[i] < Share(w.n, i) => NextItem(b, w, j).key <= NextItem(b, w, i).key

LEMMA RunsStayOK ==
  ASSUME NEW b, NEW a, NEW n, NEW w, NEW F, SortOK(b, a, n, w, F),
         NEW j, NEW w2, NEW F2, Writes(b, w, F, j, w2, F2), Smallest1(b, w, j),
         RunsOK(b, w, F[Len(F)])
  PROVE  RunsOK(b, w2, F2[Len(F2)])
<1>. DEFINE e == NextItem(b, w, j)  d == Len(F)  q == F[d]  q2 == F2[Len(F2)]
            P(i) == Pending(b, w, i)  Q(i) == Pending(b, w2, i)
<1>1. /\ b \in [{0, 1} -> Memory] /\ w \in WriterRec /\ WriterOK(w) /\ F \in Seq(Seq(Items))
  BY DEF SortOK
<1>2. /\ j \in Threads
      /\ \A i \in Threads \ {j} : Pending(b, w2, i) = Pending(b, w, i)
      /\ Len(Pending(b, w, j)) \in Nat \ {0} /\ Pending(b, w, j)[1] = e
      /\ Len(Pending(b, w2, j)) = Len(Pending(b, w, j)) - 1
      /\ \A k \in 1..Len(Pending(b, w2, j)) : Pending(b, w2, j)[k] = Pending(b, w, j)[k + 1]
      /\ e \in Items
  BY <1>1, WriterAfter
<1>3. F2 = [F EXCEPT ![d] = Append(@, e)] /\ Len(F) # 0
  BY DEF Writes
<1>4. d \in 1..Len(F) /\ q \in Seq(Items) /\ Len(F) \in Nat
  <2>1. Len(F) \in Nat
    BY <1>1
  <2>. QED
    BY <1>1, <1>3, <2>1, ElementOfSeq
<1>5. q2 = Append(q, e)
  <2>1. Len(F2) = Len(F)
    BY <1>1, <1>3, <1>4
  <2>2. F2[d] = Append(F[d], e)
    BY <1>1, <1>3, <1>4
  <2>. QED
    BY <2>1, <2>2
<1>6. ASSUME NEW i \in Threads
      PROVE  /\ P(i) \in Seq(Items) /\ Len(P(i)) = Share(w.n, i) - w.used[i]
             /\ w.used[i] \in Nat /\ Share(w.n, i) \in Nat /\ Len(P(i)) \in Nat
             /\ w.used[i] < Share(w.n, i) => P(i)[1] = NextItem(b, w, i)
  <2>1. w.state # "idle"
    BY DEF Writes
  <2>2. /\ P(i) \in Seq(Items) /\ Len(P(i)) = Share(w.n, i) - w.used[i]
        /\ w.used[i] \in Nat /\ Share(w.n, i) \in Nat
        /\ \A k \in 1..Share(w.n, i) - w.used[i] : P(i)[k] = b[w.from][StartOf(w.n, i) + w.used[i] + k]
    BY <1>1, <2>1, PendingIs
  <2>3. w.used[i] < Share(w.n, i) => P(i)[1] = NextItem(b, w, i)
    <3>1. w.used[i] < Share(w.n, i) => 1 \in 1..Share(w.n, i) - w.used[i]
      BY <2>2
    <3>. QED
      BY <2>2, <3>1 DEF NextItem
  <2>4. Len(P(i)) \in Nat
    BY <2>2, LenProperties
  <2>. QED
    BY <2>2, <2>3, <2>4
<1>7. \A i \in Threads : Ascending(P(i)) /\ Below(q, P(i))
  BY DEF RunsOK
<1>. HIDE DEF P, Q, e, q, q2
<1>8. ASSUME NEW i \in Threads, NEW k \in 1..Len(P(i)) PROVE e.key <= P(i)[k].key
  <2>1. w.used[i] < Share(w.n, i) /\ P(i) # <<>>
    BY <1>6, EmptyIs
  <2>2. e.key <= NextItem(b, w, i).key
    BY <2>1 DEF Smallest1, e
  <2>3. Head(P(i)) = P(i)[1] /\ P(i)[1] \in Items /\ P(i)[1].key <= P(i)[k].key
    BY <1>6, <1>7, <2>1, AscendingHead, TailIs
  <2>4. P(i)[1].key \in Nat /\ P(i)[k].key \in Nat /\ e.key \in Nat
    <3>1. P(i)[k] \in Items
      BY <1>6, ElementOfSeq
    <3>2. e \in Items /\ P(i)[1] \in Items
      BY <1>2, <2>3 DEF e
    <3>. QED
      BY <3>1, <3>2 DEF Items
  <2>5. P(i)[1] = NextItem(b, w, i)
    BY <1>6, <2>1
  <2>. QED
    BY <2>2, <2>3, <2>4, <2>5
<1>9. ASSUME NEW i \in Threads PROVE /\ Len(Q(i)) \in Nat
                                     /\ \A k \in 1..Len(Q(i)) : \E l \in 1..Len(P(i)) : Q(i)[k] = P(i)[l]
                                     /\ Ascending(Q(i))
  <2>1. CASE i = j
    <3>1. /\ Len(Q(j)) = Len(P(j)) - 1 /\ Len(P(j)) \in Nat \ {0}
          /\ \A k \in 1..Len(Q(j)) : Q(j)[k] = P(j)[k + 1]
      BY <1>2 DEF P, Q
    <3>2. \A k \in 1..Len(Q(j)) : k + 1 \in 1..Len(P(j))
      BY <3>1
    <3>3. Ascending(Q(j))
      <4>1. Ascending(P(j))
        BY <1>2, <1>7
      <4>. QED
        BY <3>1, <3>2, <4>1 DEF Ascending
    <3>. QED
      BY <2>1, <3>1, <3>2, <3>3
  <2>2. CASE i # j
    <3>1. Q(i) = P(i)
      BY <1>2, <2>2 DEF P, Q
    <3>. QED
      BY <1>6, <1>7, <3>1
  <2>. QED
    BY <2>1, <2>2
<1>10. /\ Len(q2) = Len(q) + 1 /\ \A k \in 1..Len(q) : q2[k] = q[k]
       /\ q2[Len(q) + 1] = e /\ Len(q) \in Nat
  BY <1>2, <1>4, <1>5, AppendIs
<1>11. ASSUME NEW k \in 1..Len(q) PROVE q[k].key <= e.key
  <2>1. Below(q, P(j)) /\ P(j)[1] = e /\ 1 \in 1..Len(P(j))
    BY <1>2, <1>7 DEF P
  <2>. QED
    BY <2>1 DEF Below
<1>12. Ascending(q2)
  <2>1. Ascending(q)
    BY DEF RunsOK, q
  <2>. QED
    BY <1>2, <1>4, <1>5, <1>11, <2>1, AscendingAppend
<1>13. ASSUME NEW i \in Threads PROVE Below(q2, Q(i))
  <2>1. ASSUME NEW k \in 1..Len(q2), NEW l \in 1..Len(Q(i)) PROVE q2[k].key <= Q(i)[l].key
    <3>1. PICK m \in 1..Len(P(i)) : Q(i)[l] = P(i)[m]
      BY <1>9
    <3>2. CASE k = Len(q) + 1
      BY <1>8, <1>10, <3>1, <3>2
    <3>3. CASE k \in 1..Len(q)
      <4>1. q[k].key <= P(i)[m].key
        BY <1>7, <3>3 DEF Below
      <4>. QED
        BY <1>10, <3>1, <3>3, <4>1
    <3>. QED
      BY <1>10, <3>2, <3>3
  <2>. QED
    BY <2>1 DEF Below
<1>. QED
  BY <1>9, <1>12, <1>13 DEF RunsOK, Q, q2

-----------------------------------------------------------------------------
(* The blocks change places: what was in the full one is what the writer   *)
(* still has to take.                                                      *)
Starting(w2, t, n, a) ==
  w2 = [Idle EXCEPT !.type = t, !.n = n, !.from = a, !.state = IF t = "moves" THEN "sort" ELSE "write"]

LEMMA StartingIs ==
  ASSUME NEW t \in Types, NEW n \in 0..Slots, n # 0, NEW a \in {0, 1}, NEW w2, Starting(w2, t, n, a)
  PROVE  /\ w2 \in WriterRec /\ WriterOK(w2) /\ w2.n = n /\ w2.from = a /\ w2.type = t
         /\ w2.state = IF t = "moves" THEN "sort" ELSE "write"
         /\ \A j \in Threads : w2.used[j] = 0
<1>1. Slots \in Nat /\ n \in Nat
  BY SortAssumption, MergeAssumption
<1>2. 0 \in 0..Slots
  BY <1>1
<1>3. /\ w2.n = n /\ w2.from = a /\ w2.type = t /\ w2.used = [j \in Threads |-> 0]
      /\ w2.state = IF t = "moves" THEN "sort" ELSE "write"
      /\ w2 \in WriterRec
  BY <1>2 DEF Starting, Idle, WriterRec, Types
<1>4. \A j \in Threads : w2.used[j] = 0
  BY <1>3
<1>5. \A j \in Threads : w2.used[j] <= Share(w2.n, j)
  BY <1>1, <1>3, <1>4, ShareIs
<1>6. \E j \in Threads : w2.used[j] < Share(w2.n, j)
  <2>1. 1 \in 1..n
    BY <1>1
  <2>2. PICK j \in Threads : StartOf(n, j) < 1 /\ 1 <= StartOf(n, j) + Share(n, j)
    BY <1>1, <2>1, RangesCover
  <2>3. StartOf(n, j) \in Nat /\ Share(n, j) \in Nat
    BY <1>1, ShareIs
  <2>4. 0 < Share(n, j)
    BY <2>2, <2>3
  <2>. QED
    BY <1>3, <1>4, <2>4
<1>. QED
  BY <1>3, <1>4, <1>5, <1>6 DEF WriterOK

LEMMA BlocksSwapped ==
  ASSUME NEW b, NEW a, NEW n, NEW w, NEW F, SortOK(b, a, n, w, F), n # 0, w.state = "idle",
         NEW t \in Types, NEW w2, Starting(w2, t, n, a)
  PROVE  /\ SortOK(b, 1 - a, 0, w2, Append(F, <<>>))
         /\ Contents(SortBoxes(b, 1 - a, 0, w2, Append(F, <<>>))) = Contents(SortBoxes(b, a, n, w, F))
         /\ Distinct(SortBoxes(b, a, n, w, F)) => Distinct(SortBoxes(b, 1 - a, 0, w2, Append(F, <<>>)))
         /\ \A j \in Threads : Unwritten(b, w2, j) = RangeOf(b[a], n, j, 0)
<1>. DEFINE F2 == Append(F, <<>>)  a2 == 1 - a
            B == SortBoxes(b, a, n, w, F)  C == SortBoxes(b, a2, 0, w2, F2)
<1>1. /\ b \in [{0, 1} -> Memory] /\ a \in {0, 1} /\ n \in 0..Slots /\ F \in Seq(Seq(Items))
      /\ a2 \in {0, 1} /\ 0 \in 0..Slots /\ n \in Nat
  BY SortAssumption, MergeAssumption DEF SortOK
<1>2. /\ w2 \in WriterRec /\ WriterOK(w2) /\ w2.n = n /\ w2.from = a /\ w2.state # "idle"
      /\ \A j \in Threads : w2.used[j] = 0
  BY <1>1, StartingIs
<1>3. /\ F2 \in Seq(Seq(Items)) /\ Len(F2) = Len(F) + 1 /\ Len(F) \in Nat
      /\ \A i \in 1..Len(F) : F2[i] = F[i]
      /\ F2[Len(F) + 1] = <<>>
  <2>1. <<>> \in Seq(Items)
    OBVIOUS
  <2>. QED
    BY <1>1, <2>1, AppendIs
<1>. HIDE DEF F2, a2
<1>4. SortOK(b, a2, 0, w2, F2)
  BY <1>1, <1>2, <1>3 DEF SortOK
<1>5. AreBoxes(B, b, a, n, w, F)
  BY SortBoxesAre
<1>6. AreBoxes(C, b, a2, 0, w2, F2)
  BY <1>4, SortBoxesAre
<1>. HIDE DEF B, C
<1>7. ASSUME NEW j \in Threads PROVE Unwritten(b, w2, j) = RangeOf(b[a], n, j, 0)
  BY <1>2 DEF Unwritten
<1>8. ASSUME NEW i \in Nat \ {0} PROVE C[i] = B[i]
  <2>1. /\ B[i] = IF i \in 1..Len(F) THEN F[i] ELSE <<>>
        /\ C[i] = IF i \in 1..Len(F2) THEN F2[i] ELSE <<>>
    BY <1>5, <1>6, FileBox
  <2>2. i \in 1..Len(F2) <=> i \in 1..Len(F) \/ i = Len(F) + 1
    BY <1>3
  <2>. QED
    BY <1>3, <2>1, <2>2
<1>9. ASSUME NEW i \in Nat \ {0} PROVE B[-i] = <<>>
  BY <1>5, PendingBox DEF Pending
<1>10. ASSUME NEW i \in Nat \ {0}, i \notin Threads PROVE C[-i] = <<>>
  BY <1>6, <1>10, PendingBox
<1>11. ASSUME NEW j \in Threads
       PROVE  /\ Len(C[-j]) = Share(n, j) /\ Share(n, j) \in Nat /\ StartOf(n, j) \in Nat
              /\ \A k \in 1..Share(n, j) : C[-j][k] = B[0][StartOf(n, j) + k]
              /\ \A k \in 1..Share(n, j) : StartOf(n, j) + k \in 1..n
  <2>1. j \in Nat \ {0}
    BY DEF Threads
  <2>2. C[-j] = RangeOf(b[a], n, j, 0)
    BY <1>2, <1>6, <1>7, <2>1, PendingBox DEF Pending
  <2>3. b[a] \in Memory
    BY <1>1
  <2>4. Share(n, j) \in Nat /\ StartOf(n, j) \in Nat /\ StartOf(n, j) + Share(n, j) <= n
    BY <1>1, ShareIs, RangeEnds
  <2>5. 0 \in 0..Share(n, j)
    BY <2>4
  <2>6. /\ Len(RangeOf(b[a], n, j, 0)) = Share(n, j) - 0
        /\ \A i \in 1..Share(n, j) - 0 : RangeOf(b[a], n, j, 0)[i] = b[a][StartOf(n, j) + 0 + i]
    BY <1>1, <2>3, <2>5, RangeIs
  <2>7. Share(n, j) - 0 = Share(n, j) /\ StartOf(n, j) + 0 = StartOf(n, j)
    BY <2>4
  <2>8. \A k \in 1..Share(n, j) : StartOf(n, j) + k \in 1..n
    BY <1>1, <2>4
  <2>9. \A k \in 1..n : B[0][k] = b[a][k]
    BY <1>5, BlockBox
  <2>. QED
    BY <2>2, <2>4, <2>6, <2>7, <2>8, <2>9
<1>12. Len(C[0]) = 0 /\ Len(B[0]) = n /\ DOMAIN B = Int /\ DOMAIN C = Int /\ Lens(B) /\ Lens(C)
  BY <1>5, <1>6 DEF AreBoxes
<1>. DEFINE G == [x \in Int |-> [k \in 1..Len(C[x]) |-> IF x < 0 THEN 0 ELSE x]]
            N == [x \in Int |-> [k \in 1..Len(C[x]) |-> IF x < 0 THEN StartOf(n, -x) + k ELSE k]]
<1>13. ASSUME NEW x \in Int, NEW k \in 1..Len(C[x])
       PROVE  /\ G[x][k] = IF x < 0 THEN 0 ELSE x
              /\ N[x][k] = IF x < 0 THEN StartOf(n, -x) + k ELSE k
  OBVIOUS
<1>. HIDE DEF G, N
<1>14. ASSUME NEW x \in Int, NEW k \in 1..Len(C[x]), ~(x \in Nat \ {0})
       PROVE  -x \in Threads /\ x < 0 /\ k \in 1..Share(n, -x) /\ -(-x) = x
  <2>1. x # 0
    BY <1>12
  <2>2. PICK i \in Nat \ {0} : x = -i
    BY <1>14, <2>1, Signs
  <2>3. i \in Threads
    <3>1. SUFFICES ASSUME i \notin Threads PROVE FALSE
      OBVIOUS
    <3>2. C[x] = <<>>
      BY <1>10, <2>2, <3>1
    <3>. QED
      BY <3>2
  <2>4. -x = i /\ x < 0 /\ -(-x) = x
    BY <2>2
  <2>5. Len(C[-i]) = Share(n, i)
    BY <1>11, <2>3
  <2>. QED
    BY <2>2, <2>3, <2>4, <2>5
<1>15. Carries(B, C, G, N)
  <2>1. ASSUME NEW x \in Int, NEW k \in 1..Len(C[x])
        PROVE  G[x][k] \in Int /\ N[x][k] \in 1..Len(B[G[x][k]]) /\ C[x][k] = B[G[x][k]][N[x][k]]
    <3>1. CASE x \in Nat \ {0}
      <4>1. G[x][k] = x /\ N[x][k] = k
        BY <1>13, <3>1
      <4>. QED
        BY <1>8, <3>1, <4>1
    <3>2. CASE ~(x \in Nat \ {0})
      <4>1. -x \in Threads /\ x < 0 /\ k \in 1..Share(n, -x) /\ -(-x) = x
        BY <1>14, <3>2
      <4>2. G[x][k] = 0 /\ N[x][k] = StartOf(n, -x) + k
        BY <1>13, <4>1
      <4>3. C[x][k] = B[0][StartOf(n, -x) + k] /\ StartOf(n, -x) + k \in 1..n
        BY <1>11, <4>1
      <4>. QED
        BY <1>12, <4>2, <4>3
    <3>. QED
      BY <3>1, <3>2
  <2>. QED
    BY <1>12, <2>1 DEF Carries
<1>16. Injects(C, G, N)
  <2>1. ASSUME NEW x \in Int, NEW y \in Int, NEW k \in 1..Len(C[x]), NEW l \in 1..Len(C[y]),
               G[x][k] = G[y][l], N[x][k] = N[y][l]
        PROVE  x = y /\ k = l
    <3>. DEFINE g == G[x][k]  h == G[y][l]  u == N[x][k]  v == N[y][l]
    <3>1. /\ g = IF x < 0 THEN 0 ELSE x
          /\ u = IF x < 0 THEN StartOf(n, -x) + k ELSE k
          /\ h = IF y < 0 THEN 0 ELSE y
          /\ v = IF y < 0 THEN StartOf(n, -y) + l ELSE l
      BY <1>13
    <3>2. g = h /\ u = v
      BY <2>1
    <3>. HIDE DEF g, h, u, v
    <3>3. CASE x \in Nat \ {0} /\ y \in Nat \ {0}
      <4>1. g = x /\ u = k /\ h = y /\ v = l
        BY <3>1, <3>3
      <4>. QED
        BY <3>2, <4>1
    <3>4. CASE ~(x \in Nat \ {0}) /\ ~(y \in Nat \ {0})
      <4>1. /\ -x \in Threads /\ x < 0 /\ k \in 1..Share(n, -x)
            /\ -y \in Threads /\ y < 0 /\ l \in 1..Share(n, -y)
        BY <1>14, <3>4
      <4>2. StartOf(n, -x) + k = StartOf(n, -y) + l
        BY <3>1, <3>2, <4>1
      <4>3. /\ StartOf(n, -x) \in Nat /\ StartOf(n, -y) \in Nat
            /\ Share(n, -x) \in Nat /\ Share(n, -y) \in Nat
        BY <1>1, <4>1, ShareIs
      <4>. DEFINE p == StartOf(n, -x) + k
      <4>4. /\ p \in Int /\ StartOf(n, -x) < p /\ p <= StartOf(n, -x) + Share(n, -x)
            /\ StartOf(n, -y) < p /\ p <= StartOf(n, -y) + Share(n, -y)
        BY <4>1, <4>2, <4>3
      <4>. HIDE DEF p
      <4>5. -x = -y
        BY <1>1, <4>1, <4>4, RangesApart
      <4>6. x = y
        BY <4>5
      <4>. QED
        BY <4>1, <4>2, <4>3, <4>6
    <3>5. CASE x \in Nat \ {0} /\ ~(y \in Nat \ {0})
      <4>1. y < 0
        BY <1>14, <3>5
      <4>2. h = 0 /\ g = x
        BY <3>1, <3>5, <4>1
      <4>. QED
        BY <3>2, <3>5, <4>2
    <3>6. CASE ~(x \in Nat \ {0}) /\ y \in Nat \ {0}
      <4>1. x < 0
        BY <1>14, <3>6
      <4>2. g = 0 /\ h = y
        BY <3>1, <3>6, <4>1
      <4>. QED
        BY <3>2, <3>6, <4>2
    <3>. QED
      BY <3>3, <3>4, <3>5, <3>6
  <2>2. DOMAIN C = Int
    BY <1>12
  <2>. QED
    <3>1. SUFFICES ASSUME NEW x \in DOMAIN C, NEW y \in DOMAIN C,
                          NEW k \in 1..Len(C[x]), NEW l \in 1..Len(C[y]),
                          G[x][k] = G[y][l], N[x][k] = N[y][l]
                   PROVE  x = y /\ k = l
      BY DEF Injects
    <3>2. x \in Int /\ y \in Int
      BY <2>2
    <3>. QED
      BY <2>1, <3>1, <3>2
<1>17. ASSUME NEW e \in Contents(B) PROVE e \in Contents(C)
  <2>1. PICK x \in Int : \E k \in 1..Len(B[x]) : B[x][k] = e
    BY <1>12, <1>17, InContents
  <2>2. PICK k \in 1..Len(B[x]) : B[x][k] = e
    BY <2>1
  <2>3. CASE x \in Nat \ {0}
    <3>1. k \in 1..Len(C[x]) /\ C[x][k] = e /\ x \in DOMAIN C
      BY <1>8, <1>12, <2>2, <2>3
    <3>. QED
      BY <3>1, InContents
  <2>4. CASE x = 0
    <3>1. k \in 1..n
      BY <1>12, <2>2, <2>4
    <3>2. PICK j \in Threads : StartOf(n, j) < k /\ k <= StartOf(n, j) + Share(n, j)
      BY <1>1, <3>1, RangesCover
    <3>3. StartOf(n, j) \in Nat /\ Share(n, j) \in Nat
      BY <1>1, ShareIs
    <3>. DEFINE l == k - StartOf(n, j)
    <3>4. l \in 1..Share(n, j) /\ StartOf(n, j) + l = k
      BY <3>1, <3>2, <3>3
    <3>. HIDE DEF l
    <3>5. C[-j][l] = B[0][k] /\ l \in 1..Len(C[-j])
      BY <1>11, <3>4
    <3>6. -j \in DOMAIN C
      BY <1>12 DEF Threads
    <3>. QED
      BY <2>2, <2>4, <3>5, <3>6, InContents
  <2>5. CASE ~(x \in Nat \ {0}) /\ x # 0
    <3>1. PICK i \in Nat \ {0} : x = -i
      BY <2>5, Signs
    <3>2. B[x] = <<>>
      BY <1>9, <3>1
    <3>. QED
      BY <2>2, <3>2
  <2>. QED
    BY <2>3, <2>4, <2>5
<1>18. Contents(C) = Contents(B)
  BY <1>15, <1>17, CarriedContents
<1>19. Distinct(B) => Distinct(C)
  BY <1>15, <1>16, CarriedDistinct
<1>. QED
  BY <1>4, <1>7, <1>18, <1>19 DEF B, C, F2, a2

(* There was nothing in the full block, and no writer is started.          *)
LEMMA EmptySwapped ==
  ASSUME NEW b, NEW a, NEW w, NEW F, SortOK(b, a, 0, w, F), w.state = "idle"
  PROVE  /\ SortOK(b, 1 - a, 0, w, F)
         /\ SortBoxes(b, 1 - a, 0, w, F) = SortBoxes(b, a, 0, w, F)
<1>. DEFINE a2 == 1 - a
<1>1. b \in [{0, 1} -> Memory] /\ a \in {0, 1} /\ a2 \in {0, 1}
  BY DEF SortOK
<1>2. SubSeq(b[a], 1, 0) = <<>> /\ SubSeq(b[a2], 1, 0) = <<>>
  OBVIOUS
<1>3. SortOK(b, a2, 0, w, F)
  BY <1>1 DEF SortOK
<1>. HIDE DEF a2
<1>4. SortBoxes(b, a2, 0, w, F) = SortBoxes(b, a, 0, w, F)
  BY <1>2 DEF SortBoxes
<1>. QED
  BY <1>3, <1>4 DEF a2

-----------------------------------------------------------------------------
(* The entries es are stored after the n of the block.                     *)
StoresIn(m, n, es) == [i \in 1..Slots |-> IF i \in n + 1..n + Len(es) THEN es[i - n] ELSE m[i]]

AddsNew(B, C, es) ==
  /\ Contents(C) = Contents(B) \cup {es[i] : i \in 1..Len(es)}
  /\ /\ Distinct(B)
     /\ \A i \in 1..Len(es) : es[i] \notin Contents(B)
     /\ \A i, j \in 1..Len(es) : es[i] = es[j] => i = j
     => Distinct(C)

AfterStore(b, b2, a, n, k, w, F, es) ==
  /\ SortOK(b2, a, k, w, F)
  /\ AddsNew(SortBoxes(b, a, n, w, F), SortBoxes(b2, a, k, w, F), es)
  /\ w.state # "idle" => \A i \in Threads : Unwritten(b2, w, i) = Unwritten(b, w, i)

LEMMA EntriesStored ==
  ASSUME NEW b, NEW a, NEW n, NEW w, NEW F, SortOK(b, a, n, w, F), WritesOther(w, a),
         NEW es \in Seq(Items), NEW n2, n2 = n + Len(es), n2 <= Slots,
         NEW b2, b2 = Put(b, a, StoresIn(b[a], n, es))
  PROVE  AfterStore(b, b2, a, n, n2, w, F, es)
<1>. DEFINE m == b[a]  m2 == StoresIn(m, n, es)
            B == SortBoxes(b, a, n, w, F)  C == SortBoxes(b2, a, n2, w, F)
<1>1. /\ b \in [{0, 1} -> Memory] /\ a \in {0, 1} /\ n \in 0..Slots /\ w \in WriterRec
      /\ m \in Memory /\ Slots \in Nat /\ Len(es) \in Nat /\ n \in Nat
      /\ \A k \in 1..Slots : m[k] \in Items
      /\ \A k \in 1..Len(es) : es[k] \in Items
  <2>1. b \in [{0, 1} -> Memory] /\ a \in {0, 1} /\ n \in 0..Slots /\ w \in WriterRec
    BY DEF SortOK
  <2>2. m \in Memory
    BY <2>1
  <2>3. Slots \in Nat /\ \A k \in 1..Slots : m[k] \in Items
    BY <2>2, MemoryIs
  <2>. QED
    BY <2>1, <2>2, <2>3, LenProperties, ElementOfSeq
<1>2. ASSUME NEW k \in 1..Slots
      PROVE  /\ m2[k] = IF k \in n + 1..n + Len(es) THEN es[k - n] ELSE m[k]
             /\ m2[k] \in Items
  <2>1. m2[k] = IF k \in n + 1..n + Len(es) THEN es[k - n] ELSE m[k]
    BY DEF StoresIn
  <2>2. k \in n + 1..n + Len(es) => k - n \in 1..Len(es)
    BY <1>1
  <2>. HIDE DEF m2
  <2>. QED
    BY <1>1, <2>1, <2>2
<1>3. m2 \in Memory
  <2>1. m2 = [k \in 1..Slots |-> m2[k]]
    BY DEF StoresIn
  <2>. HIDE DEF m2
  <2>. QED
    BY <1>2, <2>1 DEF Memory
<1>. HIDE DEF m2
<1>4. /\ b2 \in [{0, 1} -> Memory] /\ b2[a] = m2 /\ \A x \in {0, 1} \ {a} : b2[x] = b[x]
  BY <1>1, <1>3 DEF Put, m2
<1>5. n2 \in 0..Slots /\ n2 \in Nat /\ n <= n2
  BY <1>1
<1>6. SortOK(b2, a, n2, w, F)
  BY <1>1, <1>4, <1>5 DEF SortOK
<1>7. ASSUME w.state # "idle", NEW i \in Threads PROVE Unwritten(b2, w, i) = Unwritten(b, w, i)
  <2>1. w.from \in {0, 1} \ {a}
    BY <1>1, <1>7 DEF WriterRec, WritesOther
  <2>. QED
    BY <1>4, <2>1 DEF Unwritten
<1>8. AreBoxes(B, b, a, n, w, F)
  BY SortBoxesAre
<1>9. AreBoxes(C, b2, a, n2, w, F)
  BY <1>6, SortBoxesAre
<1>. HIDE DEF B, C, m
<1>10. ASSUME NEW x \in Int \ {0} PROVE C[x] = B[x]
  <2>1. CASE x \in Nat \ {0}
    BY <1>8, <1>9, <2>1, FileBox
  <2>2. ASSUME NEW i \in Nat \ {0}, x = -i PROVE C[x] = B[x]
    <3>1. i \in Threads => Pending(b2, w, i) = Pending(b, w, i)
      BY <1>7 DEF Pending
    <3>2. /\ B[-i] = IF i \in Threads THEN Pending(b, w, i) ELSE <<>>
          /\ C[-i] = IF i \in Threads THEN Pending(b2, w, i) ELSE <<>>
      BY <1>8, <1>9, PendingBox
    <3>. QED
      BY <2>2, <3>1, <3>2
  <2>. QED
    BY <2>1, <2>2, Signs
<1>11. /\ Len(B[0]) = n /\ Len(C[0]) = n2
       /\ \A k \in 1..n : B[0][k] = m[k]
       /\ \A k \in 1..n2 : C[0][k] = m2[k]
  <2>1. Len(B[0]) = n /\ \A k \in 1..n : B[0][k] = b[a][k]
    BY <1>8, BlockBox
  <2>2. Len(C[0]) = n2 /\ \A k \in 1..n2 : C[0][k] = b2[a][k]
    BY <1>9, Zenon DEF AreBoxes
  <2>. QED
    BY <1>4, <2>1, <2>2 DEF m
<1>12. ASSUME NEW k \in 1..n PROVE C[0][k] = B[0][k]
  <2>1. k \in 1..Slots /\ k \in 1..n2 /\ k \notin n + 1..n + Len(es)
    BY <1>1, <1>5
  <2>. QED
    BY <1>2, <1>11, <2>1
<1>13. ASSUME NEW i \in 1..Len(es) PROVE C[0][n + i] = es[i]
  <2>1. n + i \in 1..Slots /\ n + i \in 1..n2 /\ n + i \in n + 1..n + Len(es) /\ (n + i) - n = i
    BY <1>1, <1>5
  <2>. QED
    BY <1>2, <1>11, <2>1
<1>14. DOMAIN B = Int /\ DOMAIN C = Int /\ Lens(B)
  BY <1>8, <1>9 DEF AreBoxes
<1>15. Adds(B, C, 0, es)
  BY <1>1, <1>10, <1>11, <1>12, <1>13, <1>14 DEF Adds
<1>16. /\ Contents(C) = Contents(B) \cup {es[i] : i \in 1..Len(es)}
       /\ /\ Distinct(B)
          /\ \A i \in 1..Len(es) : es[i] \notin Contents(B)
          /\ \A i, j \in 1..Len(es) : es[i] = es[j] => i = j
          => Distinct(C)
  BY <1>14, <1>15, EntriesAdded
<1>. QED
  BY <1>6, <1>7, <1>16 DEF AfterStore, AddsNew, B, C

-----------------------------------------------------------------------------
(* Readers: what one still has to deliver stays the same when its buffer   *)
(* is filled and its file is trimmed.                                      *)
LEMMA RestIs ==
  ASSUME NEW r, ReaderOK(r)
  PROVE  Rest(r) \in Seq(Items)
<1>1. CASE r.empty
  BY <1>1 DEF Rest
<1>2. CASE ~r.empty
  <2>1. r.file \in Seq(Items) /\ r.buffer \in Seq(Items) /\ r.at \in Nat /\ r.at <= Len(r.file)
    BY <1>2 DEF ReaderOK, Reader
  <2>2. Len(r.file) \in 0..Len(r.file) /\ r.at + 1 \in Nat \ {0}
    BY <2>1, LenProperties
  <2>3. SubSeq(r.file, r.at + 1, Len(r.file)) \in Seq(Items)
    BY <2>1, <2>2, SubSeqIs
  <2>4. r.buffer \o SubSeq(r.file, r.at + 1, Len(r.file)) \in Seq(Items)
    BY <2>1, <2>3, ConcatProperties
  <2>. QED
    BY <1>2, <2>4 DEF Rest
<1>. QED
  BY <1>1, <1>2

LEMMA OpenedIs ==
  ASSUME NEW file \in Seq(Items), NEW works \in BOOLEAN
  PROVE  ReaderOK(Opened(file, works)) /\ Rest(Opened(file, works)) = file
<1>1. ReaderOK(Opened(file, works))
  BY LenProperties DEF Opened, ReaderOK, Reader
<1>2. Rest(Opened(file, works)) = <<>> \o SubSeq(file, 0 + 1, Len(file))
  BY DEF Opened, Rest
<1>3. 0 + 1 = 1
  OBVIOUS
<1>4. SubSeq(file, 1, Len(file)) = file /\ <<>> \o file = file
  BY SubSeqFull, ConcatEmptySeq
<1>. QED
  BY <1>1, <1>2, <1>3, <1>4

LEMMA TrimmedIs ==
  ASSUME NEW u \in Reader, ~u.empty, u.at <= Len(u.file), u.trims => u.read = u.at
  PROVE  /\ ReaderOK(Trimmed(u)) /\ Rest(Trimmed(u)) = Rest(u)
         /\ Trimmed(u).buffer = u.buffer /\ ~Trimmed(u).empty
<1>. DEFINE f == SubSeq(u.file, u.read + 1, Len(u.file))
<1>1. /\ u.file \in Seq(Items) /\ u.buffer \in Seq(Items) /\ u.at \in Nat /\ u.read \in Nat
      /\ u.trims \in BOOLEAN /\ u.empty \in BOOLEAN /\ Len(u.file) \in Nat
  BY LenProperties DEF Reader
<1>2. ReaderOK(u)
  BY DEF ReaderOK
<1>3. CASE u.trims /\ u.read < Len(u.file)
           /\ Trimmed(u) = [u EXCEPT !.file = SubSeq(@, u.read + 1, Len(@)), !.read = 0, !.at = 0]
  <2>1. f \in Seq(Items)
    <3>1. Len(u.file) \in 0..Len(u.file) /\ u.read + 1 \in Nat \ {0}
      BY <1>1
    <3>. QED
      BY <1>1, <3>1, SubSeqIs
  <2>2. u.read = u.at
    BY <1>3
  <2>. DEFINE v == Trimmed(u)
  <2>3. /\ v \in Reader /\ v.file = f /\ v.at = 0 /\ v.read = 0 /\ v.buffer = u.buffer
        /\ ~v.empty /\ v.trims = u.trims
    <3>1. v = [u EXCEPT !.file = f, !.read = 0, !.at = 0]
      BY <1>3
    <3>. HIDE DEF v, f
    <3>. QED
      BY <1>1, <2>1, <3>1 DEF Reader
  <2>. HIDE DEF v
  <2>4. Rest(v) = u.buffer \o SubSeq(f, 0 + 1, Len(f))
    BY <2>3 DEF Rest
  <2>5. 0 + 1 = 1 /\ SubSeq(f, 1, Len(f)) = f
    <3>. HIDE DEF f
    <3>1. SubSeq(f, 1, Len(f)) = f
      BY <2>1, SubSeqFull
    <3>. QED
      BY <3>1
  <2>6. Rest(u) = u.buffer \o f
    BY <2>2 DEF Rest
  <2>7. Len(f) \in Nat
    BY <2>1, LenProperties
  <2>8. ReaderOK(v)
    <3>. HIDE DEF f
    <3>. QED
      BY <2>3, <2>7 DEF ReaderOK
  <2>. QED
    BY <2>3, <2>4, <2>5, <2>6, <2>8 DEF v
<1>4. CASE ~(u.trims /\ u.read < Len(u.file)) /\ Trimmed(u) = [u EXCEPT !.read = 0]
  <2>. DEFINE v == Trimmed(u)
  <2>1. /\ v \in Reader /\ v.file = u.file /\ v.at = u.at /\ v.read = 0 /\ v.buffer = u.buffer
        /\ ~v.empty /\ v.trims = u.trims /\ v.empty = u.empty
    <3>1. v = [u EXCEPT !.read = 0]
      BY <1>4
    <3>. HIDE DEF v
    <3>. QED
      BY <1>1, <3>1 DEF Reader
  <2>. HIDE DEF v
  <2>2. Rest(v) = Rest(u)
    BY <2>1 DEF Rest
  <2>3. u.trims => u.at = Len(u.file)
    BY <1>1, <1>4
  <2>4. ReaderOK(v)
    BY <2>1, <2>3 DEF ReaderOK
  <2>. QED
    BY <2>1, <2>2, <2>4 DEF v
<1>5. CASE Trimmed(u) = u
  BY <1>2, <1>5
<1>. QED
  BY <1>3, <1>4, <1>5 DEF Trimmed

LEMMA PartsJoined ==
  ASSUME NEW q \in Seq(Items), NEW p \in 1..Len(q) + 1, NEW k \in p - 1..Len(q)
  PROVE  SubSeq(q, p, k) \o SubSeq(q, k + 1, Len(q)) = SubSeq(q, p, Len(q))
<1>1. Len(q) \in k..Len(q)
  BY LenProperties
<1>. QED
  BY <1>1, ConcatAdjacentSubSeq

LEMMA RefilledIs ==
  ASSUME NEW r, ReaderOK(r), ~r.empty, r.buffer = <<>>
  PROVE  /\ ReaderOK(Refilled(r)) /\ Rest(Refilled(r)) = Rest(r)
         /\ ~Refilled(r).empty => Refilled(r).buffer # <<>>
         /\ Refilled(r).empty => Rest(r) = <<>>
<1>. DEFINE end == IF r.at + ReadEntries < Len(r.file) THEN r.at + ReadEntries ELSE Len(r.file)
            got == SubSeq(r.file, r.at + 1, end)
            rest == SubSeq(r.file, r.at + 1, Len(r.file))
            u == [r EXCEPT !.buffer = got, !.at = end, !.read = @ + Len(got)]
<1>1. /\ r \in Reader /\ r.file \in Seq(Items) /\ r.at \in Nat /\ r.read \in Nat /\ r.trims \in BOOLEAN
      /\ r.at <= Len(r.file) /\ Len(r.file) \in Nat /\ ReadEntries \in Nat \ {0}
      /\ r.trims => r.read = r.at \/ r.at = Len(r.file)
  BY ReaderAssumption, LenProperties DEF ReaderOK, Reader
<1>2. end \in 0..Len(r.file) /\ r.at <= end /\ (r.at < Len(r.file) => r.at < end) /\ end \in Nat
  BY <1>1
<1>3. Refilled(r) = IF got = <<>> THEN [r EXCEPT !.empty = TRUE, !.file = <<>>] ELSE Trimmed(u)
  BY DEF Refilled
<1>4. Rest(r) = <<>> \o rest
  BY DEF Rest
<1>. HIDE DEF end
<1>5. /\ got \in Seq(Items) /\ Len(got) = IF r.at + 1 <= end THEN end - (r.at + 1) + 1 ELSE 0
      /\ rest \in Seq(Items)
      /\ Len(rest) = IF r.at + 1 <= Len(r.file) THEN Len(r.file) - (r.at + 1) + 1 ELSE 0
  <2>1. r.at + 1 \in Nat \ {0} /\ Len(r.file) \in 0..Len(r.file)
    BY <1>1
  <2>. QED
    BY <1>1, <1>2, <2>1, SubSeqIs
<1>6. Len(got) = end - r.at /\ Len(rest) = Len(r.file) - r.at
  BY <1>1, <1>2, <1>5
<1>7. Rest(r) = rest
  BY <1>4, <1>5, ConcatEmptySeq
<1>8. CASE got = <<>>
  <2>1. Len(got) = 0
    <3>. HIDE DEF got
    <3>. QED
      BY <1>8, EmptySeq
  <2>2. r.at = Len(r.file)
    BY <1>1, <1>2, <1>6, <2>1
  <2>3. Len(rest) = 0
    BY <1>1, <1>6, <2>2
  <2>4. rest = <<>>
    BY <1>5, <2>3, EmptyIs
  <2>. DEFINE v == Refilled(r)
  <2>5. v = [r EXCEPT !.empty = TRUE, !.file = <<>>]
    BY <1>3, <1>8
  <2>. HIDE DEF v, got, rest, u
  <2>6. v \in Reader /\ v.empty /\ v.buffer = <<>>
    BY <1>1, <2>5 DEF Reader
  <2>7. Rest(v) = <<>> /\ ReaderOK(v)
    BY <2>6 DEF Rest, ReaderOK
  <2>. QED
    BY <1>7, <2>4, <2>6, <2>7 DEF v
<1>9. CASE got # <<>>
  <2>1. r.at < Len(r.file)
    <3>1. Len(got) # 0
      BY <1>5, <1>9, EmptyIs
    <3>. QED
      BY <1>1, <1>2, <1>6, <3>1
  <2>2. Refilled(r) = Trimmed(u)
    BY <1>3, <1>9
  <2>3. /\ u \in Reader /\ u.file = r.file /\ u.at = end /\ u.read = r.read + Len(got)
        /\ u.buffer = got /\ ~u.empty /\ u.trims = r.trims
    <3>1. Len(got) \in Nat
      BY <1>5, LenProperties
    <3>. DEFINE k == r.read + Len(got)
    <3>2. k \in Nat /\ got \in Seq(Items) /\ end \in Nat
      BY <1>1, <1>2, <1>5, <3>1
    <3>3. u = [r EXCEPT !.buffer = got, !.at = end, !.read = k]
      BY <1>1 DEF Reader
    <3>. HIDE DEF got, k, u
    <3>4. /\ u \in Reader /\ u.file = r.file /\ u.at = end /\ u.read = k
          /\ u.buffer = got /\ ~u.empty /\ u.trims = r.trims
      BY <1>1, <3>2, <3>3 DEF Reader
    <3>. QED
      BY <3>4 DEF k
  <2>4. u.at <= Len(u.file)
    BY <1>1, <1>2, <2>3
  <2>5. u.trims => u.read = u.at
    <3>1. ASSUME r.trims PROVE r.read + Len(got) = end
      <4>1. r.read = r.at
        BY <1>1, <2>1, <3>1
      <4>. QED
        BY <1>1, <1>2, <1>6, <4>1
    <3>. QED
      BY <2>3, <3>1
  <2>6. Rest(u) = rest
    <3>1. Rest(u) = got \o SubSeq(r.file, end + 1, Len(r.file))
      <4>. HIDE DEF u
      <4>. QED
        BY <2>3 DEF Rest
    <3>. DEFINE p == r.at + 1
    <3>2. p \in 1..Len(r.file) + 1 /\ end \in p - 1..Len(r.file)
      BY <1>1, <1>2
    <3>3. SubSeq(r.file, p, end) \o SubSeq(r.file, end + 1, Len(r.file)) = SubSeq(r.file, p, Len(r.file))
      <4>. HIDE DEF p
      <4>. QED
        BY <1>1, <3>2, PartsJoined
    <3>. QED
      BY <3>1, <3>3
  <2>. HIDE DEF u, got, rest
  <2>7. /\ ReaderOK(Trimmed(u)) /\ Rest(Trimmed(u)) = Rest(u)
        /\ Trimmed(u).buffer = u.buffer /\ ~Trimmed(u).empty
    BY <2>3, <2>4, <2>5, TrimmedIs
  <2>. QED
    BY <1>7, <1>9, <2>2, <2>3, <2>6, <2>7
<1>. QED
  BY <1>8, <1>9

LEMMA ReadyIs ==
  ASSUME NEW r, ReaderOK(r)
  PROVE  /\ ReaderOK(Ready(r)) /\ Rest(Ready(r)) = Rest(r)
         /\ ~Ready(r).empty => Ready(r).buffer # <<>>
         /\ Ready(r).empty => Rest(r) = <<>>
<1>1. CASE r.empty
  BY <1>1 DEF Ready, Rest
<1>2. CASE ~r.empty /\ r.buffer # <<>>
  BY <1>2 DEF Ready
<1>3. CASE ~r.empty /\ r.buffer = <<>>
  BY <1>3, RefilledIs DEF Ready
<1>. QED
  BY <1>1, <1>2, <1>3

LEMMA RemovedIs ==
  ASSUME NEW r, ReaderOK(r), ~r.empty, r.buffer # <<>>
  PROVE  /\ ReaderOK(Removed(r))
         /\ Len(Rest(r)) \in Nat \ {0} /\ Head(r.buffer) = Rest(r)[1] /\ Head(r.buffer) \in Items
         /\ Len(Rest(Removed(r))) = Len(Rest(r)) - 1
         /\ \A i \in 1..Len(Rest(r)) - 1 : Rest(Removed(r))[i] = Rest(r)[i + 1]
<1>. DEFINE f == SubSeq(r.file, r.at + 1, Len(r.file))  v == Removed(r)
<1>1. r \in Reader /\ r.file \in Seq(Items) /\ r.buffer \in Seq(Items) /\ r.at \in Nat /\ r.at <= Len(r.file)
  BY DEF ReaderOK, Reader
<1>2. f \in Seq(Items) /\ Len(f) \in Nat
  <2>1. Len(r.file) \in 0..Len(r.file) /\ r.at + 1 \in Nat \ {0}
    BY <1>1, LenProperties
  <2>2. f \in Seq(Items)
    BY <1>1, <2>1, SubSeqIs
  <2>. QED
    BY <2>2, LenProperties
<1>3. /\ Head(r.buffer) = r.buffer[1] /\ Head(r.buffer) \in Items
      /\ Tail(r.buffer) \in Seq(Items) /\ Len(Tail(r.buffer)) = Len(r.buffer) - 1
      /\ \A i \in 1..Len(r.buffer) - 1 : Tail(r.buffer)[i] = r.buffer[i + 1]
      /\ Len(r.buffer) \in Nat \ {0}
  BY <1>1, TailIs
<1>4. /\ v \in Reader /\ v.buffer = Tail(r.buffer) /\ ~v.empty /\ v.file = r.file /\ v.at = r.at
      /\ v.read = r.read /\ v.trims = r.trims
  BY <1>1, <1>3 DEF Removed, Reader
<1>. HIDE DEF v
<1>5. ReaderOK(v)
  BY <1>4 DEF ReaderOK
<1>6. Rest(v) = Tail(r.buffer) \o f
  BY <1>4 DEF Rest
<1>7. Rest(r) = r.buffer \o f
  BY DEF Rest
<1>. HIDE DEF f
<1>8. /\ Len(Rest(r)) = Len(r.buffer) + Len(f)
      /\ \A i \in 1..Len(r.buffer) + Len(f) :
           Rest(r)[i] = IF i <= Len(r.buffer) THEN r.buffer[i] ELSE f[i - Len(r.buffer)]
  BY <1>1, <1>2, <1>7, ConcatProperties
<1>. DEFINE l == Len(r.buffer)  g == Tail(r.buffer)
<1>9. /\ Len(Rest(v)) = (l - 1) + Len(f)
      /\ \A i \in 1..(l - 1) + Len(f) : Rest(v)[i] = IF i <= l - 1 THEN g[i] ELSE f[i - (l - 1)]
  <2>1. Len(g) = l - 1
    BY <1>3
  <2>2. /\ Len(g \o f) = Len(g) + Len(f)
        /\ \A i \in 1..Len(g) + Len(f) : (g \o f)[i] = IF i <= Len(g) THEN g[i] ELSE f[i - Len(g)]
    <3>1. g \in Seq(Items)
      BY <1>3
    <3>. HIDE DEF g
    <3>. QED
      BY <1>2, <3>1, ConcatProperties
  <2>3. Rest(v) = g \o f
    BY <1>6
  <2>. HIDE DEF g, l
  <2>. QED
    BY <2>1, <2>2, <2>3
<1>10. ASSUME NEW i \in 1..Len(Rest(r)) - 1 PROVE Rest(v)[i] = Rest(r)[i + 1]
  <2>1. /\ i \in 1..(l - 1) + Len(f) /\ i + 1 \in 1..l + Len(f)
        /\ (i + 1) - l = i - (l - 1) /\ (i <= l - 1 <=> i + 1 <= l)
    BY <1>2, <1>3, <1>8
  <2>2. i <= l - 1 => g[i] = r.buffer[i + 1]
    BY <1>3, <2>1
  <2>. HIDE DEF l, g
  <2>3. Rest(v)[i] = IF i <= l - 1 THEN g[i] ELSE f[i - (l - 1)]
    BY <1>9, <2>1
  <2>4. Rest(r)[i + 1] = IF i + 1 <= l THEN r.buffer[i + 1] ELSE f[(i + 1) - l]
    BY <1>8, <2>1 DEF l
  <2>. QED
    BY <2>1, <2>2, <2>3, <2>4
<1>11. /\ Len(Rest(r)) \in Nat \ {0} /\ Rest(r)[1] = r.buffer[1]
       /\ Len(Rest(v)) = Len(Rest(r)) - 1
  <2>1. Len(Rest(r)) \in Nat \ {0} /\ Len(Rest(v)) = Len(Rest(r)) - 1
    BY <1>2, <1>3, <1>8, <1>9
  <2>2. 1 \in 1..Len(r.buffer) + Len(f) /\ 1 <= Len(r.buffer)
    BY <1>2, <1>3
  <2>. QED
    BY <1>8, <2>1, <2>2
<1>. QED
  BY <1>3, <1>5, <1>10, <1>11 DEF v

-----------------------------------------------------------------------------
(* The boxes of a merge.                                                   *)
ReadersOK(t) == \A i \in 1..Len(t.readers) : ReaderOK(t.readers[i])

MergeOK(S, q, h) ==
  /\ S \in Seq(ThreadRec)
  /\ q \in [1..Len(S) -> Seq(Seq(Items))]
  /\ h \in [1..Len(S) -> Seq(Items)]
  /\ \A s \in 1..Len(S) : ReadersOK(S[s])

Waiting(t, q, k) == IF k <= Len(q) THEN q[k] ELSE IF k = Len(q) + 1 THEN t.msg ELSE <<>>
Coming(t, i) == IF i <= Len(t.readers) THEN Rest(t.readers[i]) ELSE <<>>

AreMerge(B, S, q, h) ==
  /\ DOMAIN B = Nat \X Int /\ \A s \in Nat, i \in Int : B[<<s, i>>] \in Seq(Items)
  /\ \A s \in 1..Len(S) : /\ B[<<s, 0>>] = h[s]
                          /\ \A k \in Nat \ {0} : /\ B[<<s, -k>>] = Waiting(S[s], q[s], k)
                                                  /\ B[<<s, k>>] = Coming(S[s], k)
  /\ \A s \in Nat \ 1..Len(S) : \A i \in Int : B[<<s, i>>] = <<>>

LEMMA ThreadIs ==
  ASSUME NEW S \in Seq(ThreadRec), NEW s \in 1..Len(S)
  PROVE  /\ S[s] \in ThreadRec /\ S[s].readers \in Seq(Reader) /\ S[s].msg \in Seq(Items)
         /\ Len(S[s].readers) \in Nat /\ Len(S) \in Nat /\ s \in Nat
<1>1. S[s] \in ThreadRec
  BY ElementOfSeq
<1>2. S[s].readers \in Seq(Reader) /\ S[s].msg \in Seq(Items)
  BY <1>1 DEF ThreadRec
<1>. QED
  BY <1>1, <1>2, LenProperties

LEMMA WaitingIs ==
  ASSUME NEW t \in ThreadRec, NEW q \in Seq(Seq(Items)), NEW k \in Nat \ {0}
  PROVE  Waiting(t, q, k) \in Seq(Items)
<1>1. t.msg \in Seq(Items) /\ Len(q) \in Nat
  BY LenProperties DEF ThreadRec
<1>2. CASE k <= Len(q)
  <2>1. k \in 1..Len(q)
    BY <1>1, <1>2
  <2>2. q[k] \in Seq(Items)
    BY <2>1, ElementOfSeq
  <2>. QED
    BY <1>2, <2>2 DEF Waiting
<1>3. CASE ~(k <= Len(q))
  BY <1>1, <1>3 DEF Waiting
<1>. QED
  BY <1>2, <1>3

LEMMA ComingIs ==
  ASSUME NEW t \in ThreadRec, ReadersOK(t), NEW k \in Nat \ {0}
  PROVE  Coming(t, k) \in Seq(Items)
<1>1. Len(t.readers) \in Nat
  BY LenProperties DEF ThreadRec
<1>2. CASE k <= Len(t.readers)
  <2>1. k \in 1..Len(t.readers)
    BY <1>1, <1>2
  <2>2. Rest(t.readers[k]) \in Seq(Items)
    BY <2>1, RestIs DEF ReadersOK
  <2>. QED
    BY <1>2, <2>2 DEF Coming
<1>3. CASE ~(k <= Len(t.readers))
  BY <1>3 DEF Coming
<1>. QED
  BY <1>2, <1>3

LEMMA MergeBoxesAre ==
  ASSUME NEW S, NEW q, NEW h, MergeOK(S, q, h)
  PROVE  AreMerge(MergeBoxes(S, q, h), S, q, h)
<1>. DEFINE B == MergeBoxes(S, q, h)
<1>1. /\ S \in Seq(ThreadRec) /\ Len(S) \in Nat
      /\ q \in [1..Len(S) -> Seq(Seq(Items))] /\ h \in [1..Len(S) -> Seq(Items)]
  BY LenProperties DEF MergeOK
<1>2. /\ DOMAIN B = Nat \X Int
      /\ \A s \in Nat, i \in Int : B[<<s, i>>] =
           IF s \notin 1..Len(S) THEN <<>>
           ELSE IF i = 0 THEN h[s]
           ELSE IF i < 0
           THEN IF -i <= Len(q[s]) THEN q[s][-i]
                ELSE IF -i = Len(q[s]) + 1 THEN S[s].msg ELSE <<>>
           ELSE IF i <= Len(S[s].readers) THEN Rest(S[s].readers[i]) ELSE <<>>
  BY DEF MergeBoxes
<1>. HIDE DEF B
<1>3. ASSUME NEW s \in 1..Len(S) PROVE B[<<s, 0>>] = h[s]
  BY <1>1, <1>2
<1>4. ASSUME NEW s \in 1..Len(S), NEW k \in Nat \ {0}
      PROVE  B[<<s, -k>>] = Waiting(S[s], q[s], k)
  <2>1. s \in Nat /\ -k \in Int /\ -k # 0 /\ -k < 0 /\ -(-k) = k
    BY <1>1
  <2>. QED
    BY <1>2, <2>1 DEF Waiting
<1>5. ASSUME NEW s \in 1..Len(S), NEW k \in Nat \ {0}
      PROVE  B[<<s, k>>] = Coming(S[s], k)
  <2>1. s \in Nat /\ k \in Int /\ k # 0 /\ ~(k < 0)
    BY <1>1
  <2>. QED
    BY <1>2, <2>1 DEF Coming
<1>6. ASSUME NEW s \in Nat \ 1..Len(S), NEW i \in Int PROVE B[<<s, i>>] = <<>>
  BY <1>2
<1>7. ASSUME NEW s \in Nat, NEW i \in Int PROVE B[<<s, i>>] \in Seq(Items)
  <2>1. CASE s \notin 1..Len(S)
    <3>1. B[<<s, i>>] = <<>>
      BY <1>6, <2>1
    <3>. QED
      BY <3>1
  <2>2. CASE s \in 1..Len(S) /\ i = 0
    BY <1>1, <1>3, <2>2
  <2>3. CASE s \in 1..Len(S) /\ i \in Nat \ {0}
    <3>1. S[s] \in ThreadRec /\ ReadersOK(S[s])
      BY <1>1, <2>3, ThreadIs DEF MergeOK
    <3>. QED
      BY <1>5, <2>3, <3>1, ComingIs
  <2>4. ASSUME s \in 1..Len(S), NEW k \in Nat \ {0}, i = -k PROVE B[<<s, i>>] \in Seq(Items)
    <3>1. S[s] \in ThreadRec /\ q[s] \in Seq(Seq(Items))
      BY <1>1, <2>4, ThreadIs
    <3>. QED
      BY <1>4, <2>4, <3>1, WaitingIs
  <2>. QED
    BY <2>1, <2>2, <2>3, <2>4, Signs
<1>8. AreMerge(B, S, q, h)
  BY <1>2, <1>3, <1>4, <1>5, <1>6, <1>7, Zenon DEF AreMerge
<1>. QED
  BY <1>8 DEF B

LEMMA MergeLens ==
  ASSUME NEW B, NEW S, NEW q, NEW h, AreMerge(B, S, q, h)
  PROVE  /\ Lens(B) /\ DOMAIN B = Nat \X Int
         /\ \A s \in Nat, i \in Int : /\ B[<<s, i>>] \in Seq(Items) /\ Len(B[<<s, i>>]) \in Nat
                                      /\ <<s, i>> \in DOMAIN B
         /\ \A c \in DOMAIN B : \E s \in Nat, i \in Int : c = <<s, i>>
<1>1. DOMAIN B = Nat \X Int /\ \A s \in Nat, i \in Int : B[<<s, i>>] \in Seq(Items)
  BY DEF AreMerge
<1>2. \A c \in Nat \X Int : \E s \in Nat, i \in Int : c = <<s, i>>
  OBVIOUS
<1>3. \A s \in Nat, i \in Int : Len(B[<<s, i>>]) \in Nat
  BY <1>1, LenProperties
<1>4. ASSUME NEW c \in Nat \X Int PROVE Len(B[c]) \in Nat
  <2>1. PICK s \in Nat, i \in Int : c = <<s, i>>
    BY <1>2
  <2>. QED
    BY <1>3, <2>1
<1>. QED
  BY <1>1, <1>2, <1>3, <1>4 DEF Lens

-----------------------------------------------------------------------------
(* What is merged stays in order: when the smallest entry of all readers   *)
(* is put into the message, ...                                            *)
Rows(b) == \A i \in Int : b[i] \in Seq(Items)

RowMoves(b, c, i, j) ==
  /\ i \in Nat \ {0} /\ j \in Int /\ j < 0
  /\ Len(b[i]) # 0
  /\ Len(c[i]) = Len(b[i]) - 1 /\ \A k \in 1..Len(c[i]) : c[i][k] = b[i][k + 1]
  /\ c[j] = Append(b[j], b[i][1])
  /\ \A x \in Int \ {i, j} : c[x] = b[x]

LEMMA MovedInOrder ==
  ASSUME NEW b, NEW c, NEW i, NEW j, Rows(b), RowMoves(b, c, i, j), OrderedIn(b),
         \A k \in Int : k < j => b[k] = <<>>,
         \A k \in Nat \ {0} : \A y \in 1..Len(b[k]) : b[i][1].key <= b[k][y].key
  PROVE  OrderedIn(c)
<1>. DEFINE e == b[i][1]
<1>1. /\ i \in Nat \ {0} /\ j \in Int /\ j < 0 /\ i # j /\ i \in Int /\ Len(b[i]) \in Nat \ {0}
      /\ b[i] \in Seq(Items) /\ b[j] \in Seq(Items)
  <2>1. i \in Nat \ {0} /\ j \in Int /\ j < 0 /\ Len(b[i]) # 0
    BY DEF RowMoves
  <2>2. i \in Int /\ b[i] \in Seq(Items) /\ b[j] \in Seq(Items)
    BY <2>1 DEF Rows
  <2>3. Len(b[i]) \in Nat
    BY <2>2, LenProperties
  <2>. QED
    BY <2>1, <2>2, <2>3
<1>2. e \in Items
  <2>1. 1 \in 1..Len(b[i])
    BY <1>1
  <2>. QED
    BY <1>1, <2>1, ElementOfSeq
<1>. HIDE DEF e
<1>3. c[j] = Append(b[j], e)
  BY DEF RowMoves, e
<1>4. /\ Len(c[j]) = Len(b[j]) + 1 /\ \A k \in 1..Len(b[j]) : c[j][k] = b[j][k]
      /\ c[j][Len(b[j]) + 1] = e /\ Len(b[j]) \in Nat
  BY <1>1, <1>2, <1>3, AppendIs
<1>5. /\ Len(c[i]) = Len(b[i]) - 1 /\ \A k \in 1..Len(c[i]) : c[i][k] = b[i][k + 1]
  BY DEF RowMoves
<1>6. ASSUME NEW x \in Int, NEW k \in 1..Len(c[x])
      PROVE  (x = j /\ c[x][k] = e) \/ \E l \in 1..Len(b[x]) : c[x][k] = b[x][l]
  <2>1. CASE x = i
    <3>1. k + 1 \in 1..Len(b[i])
      BY <1>1, <1>5, <2>1
    <3>. QED
      BY <1>5, <2>1, <3>1
  <2>2. CASE x = j
    BY <1>4, <2>2
  <2>3. CASE x \in Int \ {i, j}
    <3>1. c[x] = b[x]
      BY <2>3 DEF RowMoves
    <3>. QED
      BY <3>1
  <2>. QED
    BY <2>1, <2>2, <2>3
<1>7. ASSUME NEW x \in Int, x <= 0, NEW l \in 1..Len(b[x]) PROVE b[x][l].key <= e.key
  <2>1. Below(b[x], b[i]) /\ 1 \in 1..Len(b[i])
    BY <1>1, <1>7 DEF OrderedIn
  <2>. QED
    BY <2>1 DEF Below, e
<1>8. ASSUME NEW x \in Int PROVE Ascending(c[x])
  <2>1. CASE x = i
    <3>1. Ascending(b[i]) /\ \A k \in 1..Len(c[i]) : k + 1 \in 1..Len(b[i])
      BY <1>1, <1>5 DEF OrderedIn
    <3>2. ASSUME NEW k \in 1..Len(c[i]), NEW l \in 1..Len(c[i]), k < l
          PROVE  c[i][k].key <= c[i][l].key
      <4>1. k + 1 \in 1..Len(b[i]) /\ l + 1 \in 1..Len(b[i]) /\ k + 1 < l + 1
        BY <1>1, <1>5, <3>1, <3>2
      <4>2. b[i][k + 1].key <= b[i][l + 1].key
        BY <3>1, <4>1 DEF Ascending
      <4>. QED
        BY <1>5, <4>2
    <3>. QED
      BY <2>1, <3>2 DEF Ascending
  <2>2. CASE x = j
    <3>1. Ascending(b[j])
      BY <1>1 DEF OrderedIn
    <3>2. \A k \in 1..Len(b[j]) : b[j][k].key <= e.key
      BY <1>1, <1>7
    <3>. QED
      BY <1>1, <1>2, <1>3, <2>2, <3>1, <3>2, AscendingAppend
  <2>3. CASE x \in Int \ {i, j}
    BY <2>3 DEF RowMoves, OrderedIn
  <2>. QED
    BY <2>1, <2>2, <2>3
<1>9. ASSUME NEW x \in Int, x <= 0, NEW y \in Int, y < x \/ 0 < y,
             NEW k \in 1..Len(c[x]), NEW l \in 1..Len(c[y])
      PROVE  c[x][k].key <= c[y][l].key
  <2>1. CASE x = j /\ c[x][k] = e
    <3>1. y # j
      BY <1>1, <1>9, <2>1
    <3>2. PICK m \in 1..Len(b[y]) : c[y][l] = b[y][m]
      BY <1>6, <3>1
    <3>3. CASE y < j
      <4>1. b[y] = <<>>
        BY <3>3
      <4>. QED
        BY <3>2, <4>1
    <3>4. CASE 0 < y
      <4>1. y \in Nat \ {0}
        BY <3>4
      <4>2. e.key <= b[y][m].key
        BY <4>1 DEF e
      <4>. QED
        BY <2>1, <3>2, <4>2
    <3>. QED
      BY <1>9, <2>1, <3>3, <3>4
  <2>2. ASSUME NEW m \in 1..Len(b[x]), c[x][k] = b[x][m] PROVE c[x][k].key <= c[y][l].key
    <3>1. CASE c[y][l] = e
      BY <1>7, <1>9, <2>2, <3>1
    <3>2. ASSUME NEW p \in 1..Len(b[y]), c[y][l] = b[y][p] PROVE c[x][k].key <= c[y][l].key
      <4>1. Below(b[x], b[y])
        BY <1>9 DEF OrderedIn
      <4>. QED
        BY <2>2, <3>2, <4>1 DEF Below
    <3>. QED
      BY <1>6, <3>1, <3>2
  <2>. QED
    BY <1>6, <2>1, <2>2
<1>10. ASSUME NEW x \in Int, x <= 0, NEW y \in Int, y < x \/ 0 < y PROVE Below(c[x], c[y])
  BY <1>9, <1>10 DEF Below
<1>. QED
  BY <1>8, <1>10 DEF OrderedIn

(* ... when a message is received, ...                                     *)
LEMMA ReceivedInOrder ==
  ASSUME NEW b, NEW c, Rows(b), OrderedIn(b), b[0] = <<>>,
         \A i \in Int : c[i] = IF i <= 0 THEN b[i - 1] ELSE b[i]
  PROVE  OrderedIn(c)
<1>1. ASSUME NEW x \in Int PROVE Ascending(c[x])
  <2>1. x - 1 \in Int
    OBVIOUS
  <2>. QED
    BY <2>1 DEF OrderedIn
<1>2. ASSUME NEW x \in Int, x <= 0, NEW y \in Int, y < x \/ 0 < y PROVE Below(c[x], c[y])
  <2>1. x - 1 \in Int /\ y - 1 \in Int /\ x - 1 <= 0 /\ (y < x => y - 1 < x - 1 /\ y <= 0)
    BY <1>2
  <2>2. c[x] = b[x - 1]
    BY <1>2
  <2>3. CASE y < x
    <3>1. c[y] = b[y - 1] /\ Below(b[x - 1], b[y - 1])
      BY <2>1, <2>3 DEF OrderedIn
    <3>. QED
      BY <2>2, <3>1
  <2>4. CASE 0 < y
    <3>0. c[y] = b[y]
      BY <2>4
    <3>1. c[y] = b[y] /\ Below(b[x - 1], b[y])
      <4>. DEFINE z == x - 1
      <4>1. z \in Int /\ z <= 0
        BY <2>1
      <4>. HIDE DEF z
      <4>2. Below(b[z], b[y])
        BY <2>4, <4>1 DEF OrderedIn
      <4>. QED
        BY <3>0, <4>2 DEF z
    <3>. QED
      BY <2>2, <3>1
  <2>. QED
    BY <1>2, <2>3, <2>4
<1>. QED
  BY <1>1, <1>2 DEF OrderedIn

(* ... and when an entry is removed from what was received.                *)
LEMMA TakenInOrder ==
  ASSUME NEW b, NEW c, Rows(b), OrderedIn(b), b[0] # <<>>, c[0] = Tail(b[0]),
         \A i \in Int \ {0} : c[i] = b[i]
  PROVE  OrderedIn(c)
<1>1. b[0] \in Seq(Items)
  BY DEF Rows
<1>2. /\ Len(c[0]) = Len(b[0]) - 1 /\ Len(b[0]) \in Nat \ {0}
      /\ \A i \in 1..Len(b[0]) - 1 : c[0][i] = b[0][i + 1]
  BY <1>1, TailIs
<1>3. ASSUME NEW x \in Int, NEW k \in 1..Len(c[x]) PROVE \E l \in 1..Len(b[x]) : c[x][k] = b[x][l]
  <2>1. CASE x = 0
    <3>0. k \in 1..Len(c[0])
      BY <2>1
    <3>1. k + 1 \in 1..Len(b[0]) /\ k \in 1..Len(b[0]) - 1
      BY <1>2, <3>0
    <3>. QED
      BY <1>2, <2>1, <3>1
  <2>2. CASE x # 0
    BY <2>2
  <2>. QED
    BY <2>1, <2>2
<1>4. ASSUME NEW x \in Int PROVE Ascending(c[x])
  <2>1. CASE x = 0
    BY <1>1, <2>1, AscendingTail DEF OrderedIn
  <2>2. CASE x # 0
    BY <2>2 DEF OrderedIn
  <2>. QED
    BY <2>1, <2>2
<1>5. ASSUME NEW x \in Int, x <= 0, NEW y \in Int, y < x \/ 0 < y PROVE Below(c[x], c[y])
  <2>1. Below(b[x], b[y])
    BY <1>5 DEF OrderedIn
  <2>. QED
    BY <1>3, <2>1 DEF Below
<1>. QED
  BY <1>4, <1>5 DEF OrderedIn

-----------------------------------------------------------------------------
(* A merge thread: it ends, it takes the first entry of one of its readers *)
(* into its message, or it turns to another reader.                        *)
PickedThread(t) ==
  LET ready == [i \in DOMAIN t.readers |-> Ready(t.readers[i])]
      left == {i \in DOMAIN ready : ~ready[i].empty}
      low == Smallest(left, [i \in left |-> Head(ready[i].buffer)])
      e == Head(ready[low].buffer)
  IN  IF left = {} THEN Ended([t EXCEPT !.readers = ready])
      ELSE Packed([t EXCEPT !.readers = [ready EXCEPT ![low] = Removed(@)],
                     !.from = low, !.last = e], e)

SameThread(t, follows) ==
  LET r == Ready(t.readers[t.from])
      e == Head(r.buffer)
  IN  IF ~r.empty /\ follows
      THEN Packed([t EXCEPT !.readers[t.from] = Removed(r)], e)
      ELSE [t EXCEPT !.readers[t.from] = r, !.at = "pick"]

SentThread(t) ==
  [t EXCEPT !.msg = <<>>, !.at = IF t.then = "end" THEN "send" ELSE t.then, !.then = "done"]

KeepsRests(t, t2) ==
  /\ Len(t2.readers) = Len(t.readers)
  /\ \A i \in 1..Len(t.readers) : Rest(t2.readers[i]) = Rest(t.readers[i])
KeepsAll(t, t2) == KeepsRests(t, t2) /\ t2.msg = t.msg

TakesOne(t, t2, i) ==
  /\ i \in 1..Len(t.readers) /\ Len(t2.readers) = Len(t.readers)
  /\ \A j \in 1..Len(t.readers) \ {i} : Rest(t2.readers[j]) = Rest(t.readers[j])
  /\ Len(Rest(t.readers[i])) \in Nat \ {0} /\ Rest(t.readers[i])[1] \in Items
  /\ Len(Rest(t2.readers[i])) = Len(Rest(t.readers[i])) - 1
  /\ \A k \in 1..Len(Rest(t.readers[i])) - 1 : Rest(t2.readers[i])[k] = Rest(t.readers[i])[k + 1]
  /\ t2.msg = Append(t.msg, Rest(t.readers[i])[1])

MsgFits(t) == Len(t.msg) <= MaxMsg /\ (t.at \in {"pick", "same"} => Len(t.msg) < MaxMsg)

LEMMA FunctionIsSeq ==
  ASSUME NEW S, NEW n \in Nat, NEW q \in [1..n -> S]
  PROVE  q \in Seq(S) /\ Len(q) = n
OBVIOUS

LEMMA PackedIs ==
  ASSUME NEW t \in ThreadRec, NEW e \in Items, Len(t.msg) < MaxMsg
  PROVE  /\ Packed(t, e) \in ThreadRec /\ Packed(t, e).readers = t.readers
         /\ Packed(t, e).from = t.from /\ Packed(t, e).last = t.last
         /\ Packed(t, e).msg = Append(t.msg, e) /\ Sending(Packed(t, e)) /\ MsgFits(Packed(t, e))
<1>. DEFINE m == Append(t.msg, e)
<1>1. MaxMsg \in Nat \ {0} /\ t.msg \in Seq(Items)
  BY SortAssumption, MergeAssumption DEF ThreadRec
<1>2. m \in Seq(Items) /\ Len(m) = Len(t.msg) + 1 /\ Len(t.msg) \in Nat
  BY <1>1, AppendIs
<1>3. Packed(t, e) = IF Len(m) = MaxMsg THEN [t EXCEPT !.msg = m, !.at = "send", !.then = "same"]
                     ELSE [t EXCEPT !.msg = m, !.at = "same"]
  BY DEF Packed
<1>. HIDE DEF m
<1>4. CASE Len(m) = MaxMsg
  <2>. DEFINE u == [t EXCEPT !.msg = m, !.at = "send", !.then = "same"]
  <2>1. /\ u \in ThreadRec /\ u.readers = t.readers /\ u.from = t.from /\ u.last = t.last /\ u.msg = m
        /\ u.at = "send" /\ u.then = "same"
    BY <1>2 DEF ThreadRec
  <2>2. Packed(t, e) = u
    BY <1>3, <1>4
  <2>. HIDE DEF u
  <2>3. Sending(u) /\ MsgFits(u)
    BY <1>1, <1>4, <2>1 DEF Sending, MsgFits
  <2>. QED
    BY <2>1, <2>2, <2>3 DEF m
<1>5. CASE Len(m) # MaxMsg
  <2>. DEFINE u == [t EXCEPT !.msg = m, !.at = "same"]
  <2>1. /\ u \in ThreadRec /\ u.readers = t.readers /\ u.from = t.from /\ u.last = t.last /\ u.msg = m
        /\ u.at = "same"
    BY <1>2 DEF ThreadRec
  <2>2. Packed(t, e) = u
    BY <1>3, <1>5
  <2>. HIDE DEF u
  <2>3. Sending(u) /\ MsgFits(u)
    BY <1>1, <1>2, <1>5, <2>1 DEF Sending, MsgFits
  <2>. QED
    BY <2>1, <2>2, <2>3 DEF m
<1>. QED
  BY <1>4, <1>5

LEMMA PickedIs ==
  ASSUME NEW t \in ThreadRec, ReadersOK(t), Len(t.msg) < MaxMsg,
         \A i \in 1..Len(t.readers) : Ascending(Rest(t.readers[i])),
         NEW t2, t2 = PickedThread(t)
  PROVE  /\ t2 \in ThreadRec /\ ReadersOK(t2) /\ MsgFits(t2)
         /\ \/ /\ KeepsAll(t, t2) /\ \A i \in 1..Len(t.readers) : Rest(t.readers[i]) = <<>>
               /\ t2.at = "send" /\ t2.then = IF t.msg = <<>> THEN "done" ELSE "end"
            \/ \E i \in 1..Len(t.readers) :
                 /\ TakesOne(t, t2, i)
                 /\ t2.from = i /\ t2.last = Rest(t.readers[i])[1] /\ Sending(t2)
                 /\ \A j \in 1..Len(t.readers) : \A l \in 1..Len(Rest(t.readers[j])) :
                      Rest(t.readers[i])[1].key <= Rest(t.readers[j])[l].key
<1>. DEFINE R == t.readers  D == 1..Len(R)
            ready == [i \in DOMAIN R |-> Ready(R[i])]
            left == {i \in DOMAIN ready : ~ready[i].empty}
            front == [i \in left |-> Head(ready[i].buffer)]
            p == Smallest(left, front)
            e == Head(ready[p].buffer)
<1>1. R \in Seq(Reader) /\ Len(R) \in Nat /\ DOMAIN R = D /\ t.msg \in Seq(Items)
  BY LenProperties DEF ThreadRec
<1>2. DOMAIN ready = D /\ \A i \in D : ready[i] = Ready(R[i])
  BY <1>1
<1>3. t2 = IF left = {} THEN Ended([t EXCEPT !.readers = ready])
           ELSE Packed([t EXCEPT !.readers = [ready EXCEPT ![p] = Removed(@)],
                                 !.from = p, !.last = e], e)
  BY DEF PickedThread
<1>4. ASSUME NEW i \in D
      PROVE  /\ ReaderOK(ready[i]) /\ Rest(ready[i]) = Rest(R[i])
             /\ i \in left => ~ready[i].empty /\ ready[i].buffer # <<>>
             /\ i \notin left => Rest(R[i]) = <<>>
             /\ ready[i] \in Reader
  <2>1. ReaderOK(R[i])
    BY DEF ReadersOK
  <2>2. ready[i] = Ready(R[i])
    BY <1>2
  <2>3. i \in left <=> ~ready[i].empty
    BY <1>2
  <2>. HIDE DEF ready, left
  <2>. QED
    BY <2>1, <2>2, <2>3, ReadyIs DEF ReaderOK
<1>5. ready \in Seq(Reader) /\ Len(ready) = Len(R)
  <2>1. ready = [i \in 1..Len(R) |-> ready[i]]
    BY <1>1
  <2>2. \A i \in 1..Len(R) : ready[i] \in Reader
    BY <1>4
  <2>. HIDE DEF ready
  <2>3. ready \in [1..Len(R) -> Reader]
    BY <2>1, <2>2
  <2>. QED
    BY <1>1, <2>3, FunctionIsSeq
<1>6. left \subseteq D
  BY <1>2
<1>7. front = [i \in left |-> Head(ready[i].buffer)]
  OBVIOUS
<1>. HIDE DEF ready, left, front, p, e
<1>8. CASE left = {}
  <2>1. t2 = Ended([t EXCEPT !.readers = ready])
    BY <1>3, <1>8
  <2>2. /\ t2 \in ThreadRec /\ t2.readers = ready /\ t2.msg = t.msg
        /\ t2.at = "send" /\ t2.then = IF t.msg = <<>> THEN "done" ELSE "end"
    BY <1>5, <2>1 DEF Ended, ThreadRec
  <2>3. ReadersOK(t2) /\ KeepsAll(t, t2)
    BY <1>4, <1>5, <2>2 DEF ReadersOK, KeepsAll, KeepsRests
  <2>4. \A i \in D : Rest(R[i]) = <<>>
    BY <1>4, <1>8
  <2>5. MsgFits(t2)
    <3>1. MaxMsg \in Nat /\ Len(t.msg) \in Nat
      BY <1>1, SortAssumption, MergeAssumption, LenProperties
    <3>. QED
      BY <2>2, <3>1 DEF MsgFits
  <2>. QED
    BY <2>2, <2>3, <2>4, <2>5
<1>9. CASE left # {}
  <2>1. ASSUME NEW i \in left
        PROVE  /\ front[i] = Rest(R[i])[1] /\ front[i] \in Items /\ Len(Rest(R[i])) \in Nat \ {0}
               /\ front[i] = Head(ready[i].buffer) /\ i \in D
    <3>1. i \in D /\ front[i] = Head(ready[i].buffer)
      BY <1>6, <1>7
    <3>2. ReaderOK(ready[i]) /\ ~ready[i].empty /\ ready[i].buffer # <<>> /\ Rest(ready[i]) = Rest(R[i])
      BY <1>4, <3>1
    <3>. QED
      BY <3>1, <3>2, RemovedIs
  <2>2. left \subseteq Nat /\ \A i \in left : front[i].key \in Nat
    <3>1. left \subseteq Nat
      BY <1>6
    <3>2. ASSUME NEW i \in left PROVE front[i].key \in Nat
      <4>1. front[i] \in Items
        BY <2>1
      <4>. QED
        BY <4>1 DEF Items
    <3>. QED
      BY <3>1, <3>2
  <2>3. p \in left /\ \A i \in left : front[p].key <= front[i].key
    <3>1. \E j \in left : \A i \in left :
            front[j].key < front[i].key \/ (front[j].key = front[i].key /\ j <= i)
      BY <1>9, <2>2, FirstSmallest
    <3>2. /\ p \in left
          /\ \A i \in left : front[p].key < front[i].key \/ (front[p].key = front[i].key /\ p <= i)
      BY <3>1, Zenon DEF p, Smallest
    <3>3. ASSUME NEW i \in left PROVE front[p].key <= front[i].key
      <4>. DEFINE a == front[p].key  b == front[i].key
      <4>1. a \in Nat /\ b \in Nat /\ (a < b \/ a = b)
        BY <2>2, <3>2
      <4>. HIDE DEF a, b
      <4>2. a <= b
        BY <4>1
      <4>. QED
        BY <4>2 DEF a, b
    <3>. QED
      BY <3>2, <3>3
  <2>4. /\ p \in D /\ e = front[p] /\ e = Rest(R[p])[1] /\ e \in Items
        /\ Len(Rest(R[p])) \in Nat \ {0}
    BY <2>1, <2>3 DEF e
  <2>. DEFINE v == Removed(ready[p])
              ready2 == [ready EXCEPT ![p] = v]
              u == [t EXCEPT !.readers = ready2, !.from = p, !.last = e]
  <2>5. /\ ReaderOK(v) /\ Len(Rest(v)) = Len(Rest(R[p])) - 1
        /\ \A k \in 1..Len(Rest(R[p])) - 1 : Rest(v)[k] = Rest(R[p])[k + 1]
        /\ v \in Reader
    <3>1. ReaderOK(ready[p]) /\ ~ready[p].empty /\ ready[p].buffer # <<>>
          /\ Rest(ready[p]) = Rest(R[p])
      BY <1>4, <2>3, <2>4
    <3>2. /\ ReaderOK(v) /\ Len(Rest(v)) = Len(Rest(ready[p])) - 1
          /\ \A k \in 1..Len(Rest(ready[p])) - 1 : Rest(v)[k] = Rest(ready[p])[k + 1]
      BY <3>1, RemovedIs
    <3>. QED
      BY <3>1, <3>2 DEF ReaderOK
  <2>6. t2 = Packed(u, e)
    BY <1>3, <1>9
  <2>. HIDE DEF v
  <2>7. /\ ready2 \in Seq(Reader) /\ Len(ready2) = Len(R)
        /\ ready2[p] = v /\ \A j \in D \ {p} : ready2[j] = ready[j]
    BY <1>1, <1>5, <2>4, <2>5
  <2>. HIDE DEF ready2
  <2>8. u \in ThreadRec /\ u.readers = ready2 /\ u.from = p /\ u.last = e /\ u.msg = t.msg
    <3>1. p \in Nat
      BY <2>2, <2>3
    <3>. QED
      BY <2>4, <2>7, <3>1 DEF ThreadRec
  <2>. HIDE DEF u
  <2>9. /\ t2 \in ThreadRec /\ t2.readers = ready2 /\ t2.from = p /\ t2.last = e
        /\ t2.msg = Append(t.msg, e) /\ Sending(t2) /\ MsgFits(t2)
    BY <2>4, <2>6, <2>8, PackedIs
  <2>10. ReadersOK(t2)
    BY <1>4, <2>5, <2>7, <2>9 DEF ReadersOK
  <2>11. TakesOne(t, t2, p)
    BY <1>4, <2>4, <2>5, <2>7, <2>9 DEF TakesOne
  <2>12. ASSUME NEW j \in D, NEW l \in 1..Len(Rest(R[j])) PROVE e.key <= Rest(R[j])[l].key
    <3>1. j \in left
      BY <1>4
    <3>2. e.key <= front[j].key /\ front[j] = Rest(R[j])[1] /\ front[j].key \in Nat /\ e.key \in Nat
      BY <2>1, <2>2, <2>3, <2>4, <3>1
    <3>3. Rest(R[j]) \in Seq(Items) /\ Ascending(Rest(R[j]))
      BY RestIs DEF ReadersOK
    <3>4. Rest(R[j]) # <<>>
      BY <3>3, EmptyIs
    <3>5. Head(Rest(R[j])).key <= Rest(R[j])[l].key /\ Head(Rest(R[j])) = Rest(R[j])[1]
      BY <3>3, <3>4, AscendingHead, TailIs
    <3>6. Rest(R[j])[l].key \in Nat
      <4>1. Rest(R[j])[l] \in Items
        BY <3>3, ElementOfSeq
      <4>. QED
        BY <4>1 DEF Items
    <3>. QED
      BY <3>2, <3>5, <3>6
  <2>. QED
    BY <2>4, <2>9, <2>10, <2>11, <2>12
<1>. QED
  BY <1>8, <1>9

LEMMA SameIs ==
  ASSUME NEW t \in ThreadRec, ReadersOK(t), Len(t.msg) < MaxMsg, t.from \in 1..Len(t.readers),
         NEW follows, NEW t2, t2 = SameThread(t, follows)
  PROVE  /\ t2 \in ThreadRec /\ ReadersOK(t2) /\ MsgFits(t2) /\ t2.last = t.last /\ t2.from = t.from
         /\ \/ KeepsAll(t, t2) /\ t2.at = "pick"
            \/ /\ follows /\ TakesOne(t, t2, t.from) /\ Sending(t2)
               /\ Head(Ready(t.readers[t.from]).buffer) = Rest(t.readers[t.from])[1]
<1>. DEFINE R == t.readers  i == t.from  r == Ready(R[i])  e == Head(r.buffer)
<1>1. R \in Seq(Reader) /\ Len(R) \in Nat /\ t.msg \in Seq(Items) /\ ReaderOK(R[i])
  BY LenProperties DEF ThreadRec, ReadersOK
<1>2. ReaderOK(r) /\ Rest(r) = Rest(R[i]) /\ (~r.empty => r.buffer # <<>>) /\ r \in Reader
  BY <1>1, ReadyIs DEF ReaderOK
<1>3. t2 = IF ~r.empty /\ follows
           THEN Packed([t EXCEPT !.readers[i] = Removed(r)], e)
           ELSE [t EXCEPT !.readers[i] = r, !.at = "pick"]
  BY DEF SameThread
<1>. HIDE DEF r, e
<1>4. CASE ~r.empty /\ follows
  <2>. DEFINE v == Removed(r)  R2 == [R EXCEPT ![i] = v]  u == [t EXCEPT !.readers = R2]
  <2>1. /\ ReaderOK(v) /\ v \in Reader /\ Len(Rest(R[i])) \in Nat \ {0}
        /\ e = Rest(R[i])[1] /\ e \in Items
        /\ Len(Rest(v)) = Len(Rest(R[i])) - 1
        /\ \A k \in 1..Len(Rest(R[i])) - 1 : Rest(v)[k] = Rest(R[i])[k + 1]
    <3>1. /\ ReaderOK(v) /\ Len(Rest(r)) \in Nat \ {0}
          /\ Head(r.buffer) = Rest(r)[1] /\ Head(r.buffer) \in Items
          /\ Len(Rest(v)) = Len(Rest(r)) - 1
          /\ \A k \in 1..Len(Rest(r)) - 1 : Rest(v)[k] = Rest(r)[k + 1]
      BY <1>2, <1>4, RemovedIs
    <3>. QED
      BY <1>2, <3>1 DEF ReaderOK, e
  <2>2. t2 = Packed(u, e)
    BY <1>3, <1>4 DEF ThreadRec
  <2>. HIDE DEF v
  <2>3. /\ R2 \in Seq(Reader) /\ Len(R2) = Len(R) /\ R2[i] = v
        /\ \A j \in 1..Len(R) \ {i} : R2[j] = R[j]
    BY <1>1, <2>1
  <2>. HIDE DEF R2
  <2>4. u \in ThreadRec /\ u.readers = R2 /\ u.from = t.from /\ u.last = t.last /\ u.msg = t.msg
    BY <2>3 DEF ThreadRec
  <2>. HIDE DEF u
  <2>5. /\ t2 \in ThreadRec /\ t2.readers = R2 /\ t2.from = t.from /\ t2.last = t.last
        /\ t2.msg = Append(t.msg, e) /\ Sending(t2) /\ MsgFits(t2)
    BY <2>1, <2>2, <2>4, PackedIs
  <2>6. ReadersOK(t2)
    BY <2>1, <2>3, <2>5 DEF ReadersOK
  <2>7. TakesOne(t, t2, i)
    BY <2>1, <2>3, <2>5 DEF TakesOne
  <2>. QED
    BY <1>4, <2>1, <2>5, <2>6, <2>7 DEF e, r
<1>5. CASE ~(~r.empty /\ follows)
  <2>. DEFINE R2 == [R EXCEPT ![i] = r]  u == [t EXCEPT !.readers = R2, !.at = "pick"]
  <2>1. t2 = u
    BY <1>3, <1>5 DEF ThreadRec
  <2>2. /\ R2 \in Seq(Reader) /\ Len(R2) = Len(R) /\ R2[i] = r
        /\ \A j \in 1..Len(R) \ {i} : R2[j] = R[j]
    BY <1>1, <1>2
  <2>. HIDE DEF R2
  <2>3. /\ u \in ThreadRec /\ u.readers = R2 /\ u.from = t.from /\ u.last = t.last /\ u.msg = t.msg
        /\ u.at = "pick"
    BY <2>2 DEF ThreadRec
  <2>. HIDE DEF u
  <2>4. ReadersOK(u)
    BY <1>2, <2>2, <2>3 DEF ReadersOK
  <2>5. KeepsAll(t, u)
    BY <1>2, <2>2, <2>3 DEF KeepsAll, KeepsRests
  <2>6. MsgFits(u)
    <3>1. MaxMsg \in Nat /\ Len(t.msg) \in Nat
      BY <1>1, SortAssumption, MergeAssumption, LenProperties
    <3>. QED
      BY <2>3, <3>1 DEF MsgFits
  <2>. QED
    BY <2>1, <2>3, <2>4, <2>5, <2>6
<1>. QED
  BY <1>4, <1>5

LEMMA SentIs ==
  ASSUME NEW t \in ThreadRec, ReadersOK(t)
  PROVE  /\ SentThread(t) \in ThreadRec /\ ReadersOK(SentThread(t)) /\ KeepsRests(t, SentThread(t))
         /\ SentThread(t).readers = t.readers /\ SentThread(t).msg = <<>> /\ MsgFits(SentThread(t))
         /\ SentThread(t).last = t.last /\ SentThread(t).from = t.from /\ SentThread(t).then = "done"
         /\ SentThread(t).at = IF t.then = "end" THEN "send" ELSE t.then
<1>. DEFINE u == SentThread(t)
<1>1. /\ u \in ThreadRec /\ u.readers = t.readers /\ u.msg = <<>> /\ u.last = t.last
      /\ u.from = t.from /\ u.then = "done" /\ u.at = IF t.then = "end" THEN "send" ELSE t.then
  <2>. DEFINE a == IF t.then = "end" THEN "send" ELSE t.then
  <2>1. a \in {"pick", "same", "send", "done"}
    BY DEF ThreadRec
  <2>. DEFINE z == <<>>
  <2>2. u = [t EXCEPT !.msg = z, !.at = a, !.then = "done"]
    BY DEF SentThread
  <2>4. z \in Seq(Items)
    OBVIOUS
  <2>. HIDE DEF a, u, z
  <2>3. /\ u \in ThreadRec /\ u.readers = t.readers /\ u.msg = z /\ u.last = t.last
        /\ u.from = t.from /\ u.then = "done" /\ u.at = a
    BY <2>1, <2>2, <2>4 DEF ThreadRec
  <2>. QED
    BY <2>3 DEF a, z
<1>. HIDE DEF u
<1>2. ReadersOK(u) /\ KeepsRests(t, u)
  BY <1>1 DEF ReadersOK, KeepsRests
<1>3. MsgFits(u)
  <2>1. MaxMsg \in Nat \ {0} /\ Len(u.msg) = 0
    BY <1>1, SortAssumption, MergeAssumption
  <2>. QED
    BY <2>1 DEF MsgFits
<1>. QED
  BY <1>1, <1>2, <1>3 DEF u

-----------------------------------------------------------------------------
(* What the steps of one stream do to the boxes.                           *)
OnlyStream(S, q, h, S2, q2, h2, s) ==
  /\ Len(S2) = Len(S) /\ s \in 1..Len(S) /\ Len(S) \in Nat
  /\ \A r \in 1..Len(S) \ {s} : S2[r] = S[r] /\ q2[r] = q[r] /\ h2[r] = h[r]

LEMMA OtherRows ==
  ASSUME NEW B, NEW S, NEW q, NEW h, NEW C, NEW S2, NEW q2, NEW h2, NEW s,
         AreMerge(B, S, q, h), AreMerge(C, S2, q2, h2), OnlyStream(S, q, h, S2, q2, h2, s),
         NEW r \in Nat \ {s}, NEW i \in Int
  PROVE  C[<<r, i>>] = B[<<r, i>>]
<1>1. CASE r \notin 1..Len(S)
  BY <1>1 DEF AreMerge, OnlyStream
<1>2. CASE r \in 1..Len(S)
  <2>1. S2[r] = S[r] /\ q2[r] = q[r] /\ h2[r] = h[r] /\ r \in 1..Len(S2)
    BY <1>2 DEF OnlyStream
  <2>2. CASE i = 0
    BY <1>2, <2>1, <2>2 DEF AreMerge
  <2>3. CASE i \in Nat \ {0}
    <3>1. B[<<r, i>>] = Coming(S[r], i)
      BY <1>2, <2>3 DEF AreMerge
    <3>2. C[<<r, i>>] = Coming(S2[r], i)
      BY <2>1, <2>3 DEF AreMerge
    <3>. QED
      BY <2>1, <3>1, <3>2
  <2>4. ASSUME NEW k \in Nat \ {0}, i = -k PROVE C[<<r, i>>] = B[<<r, i>>]
    <3>1. B[<<r, -k>>] = Waiting(S[r], q[r], k)
      BY <1>2 DEF AreMerge
    <3>2. C[<<r, -k>>] = Waiting(S2[r], q2[r], k)
      BY <2>1 DEF AreMerge
    <3>. QED
      BY <2>1, <2>4, <3>1, <3>2
  <2>. QED
    BY <2>2, <2>3, <2>4, Signs
<1>. QED
  BY <1>1, <1>2

LEMMA BoxesEqual ==
  ASSUME NEW S, NEW q, NEW h, NEW S2, NEW q2, NEW h2,
         \A s \in Nat, i \in Int : MergeBoxes(S2, q2, h2)[<<s, i>>] = MergeBoxes(S, q, h)[<<s, i>>]
  PROVE  MergeBoxes(S2, q2, h2) = MergeBoxes(S, q, h)
<1>. DEFINE B == MergeBoxes(S, q, h)  C == MergeBoxes(S2, q2, h2)
<1>1. B = [c \in Nat \X Int |-> B[c]] /\ C = [c \in Nat \X Int |-> C[c]]
  BY DEF MergeBoxes
<1>2. ASSUME NEW c \in Nat \X Int PROVE C[c] = B[c]
  <2>. HIDE DEF B, C
  <2>1. PICK s \in Nat, i \in Int : c = <<s, i>>
    OBVIOUS
  <2>2. C[<<s, i>>] = B[<<s, i>>]
    BY DEF B, C
  <2>. QED
    BY <2>1, <2>2
<1>. HIDE DEF B, C
<1>3. B = C
  BY <1>1, <1>2
<1>. QED
  BY <1>3 DEF B, C

LEMMA BoxesKept ==
  ASSUME NEW S, NEW q, NEW h, MergeOK(S, q, h), NEW S2, MergeOK(S2, q, h),
         NEW s, OnlyStream(S, q, h, S2, q, h, s), KeepsAll(S[s], S2[s])
  PROVE  MergeBoxes(S2, q, h) = MergeBoxes(S, q, h)
<1>. DEFINE B == MergeBoxes(S, q, h)  C == MergeBoxes(S2, q, h)
<1>1. AreMerge(B, S, q, h) /\ AreMerge(C, S2, q, h)
  BY MergeBoxesAre
<1>. HIDE DEF B, C
<1>2. /\ s \in 1..Len(S) /\ s \in 1..Len(S2) /\ s \in Nat
      /\ S2[s].msg = S[s].msg /\ Len(S2[s].readers) = Len(S[s].readers)
      /\ Len(S[s].readers) \in Nat
      /\ \A i \in 1..Len(S[s].readers) : Rest(S2[s].readers[i]) = Rest(S[s].readers[i])
  <2>1. S \in Seq(ThreadRec) /\ s \in 1..Len(S)
    BY DEF MergeOK, OnlyStream
  <2>. QED
    BY <2>1, ThreadIs DEF OnlyStream, KeepsAll, KeepsRests
<1>3. ASSUME NEW k \in Nat \ {0} PROVE Coming(S2[s], k) = Coming(S[s], k)
  BY <1>2 DEF Coming
<1>4. ASSUME NEW k \in Nat \ {0} PROVE Waiting(S2[s], q[s], k) = Waiting(S[s], q[s], k)
  BY <1>2 DEF Waiting
<1>5. ASSUME NEW r \in Nat, NEW i \in Int PROVE C[<<r, i>>] = B[<<r, i>>]
  <2>1. CASE r # s
    BY <1>1, <2>1, OtherRows
  <2>2. CASE r = s /\ i = 0
    BY <1>1, <1>2, <2>2 DEF AreMerge
  <2>3. CASE r = s /\ i \in Nat \ {0}
    <3>1. B[<<s, i>>] = Coming(S[s], i)
      BY <1>1, <1>2, <2>3 DEF AreMerge
    <3>2. C[<<s, i>>] = Coming(S2[s], i)
      BY <1>1, <1>2, <2>3 DEF AreMerge
    <3>. QED
      BY <1>3, <2>3, <3>1, <3>2
  <2>4. ASSUME r = s, NEW k \in Nat \ {0}, i = -k PROVE C[<<r, i>>] = B[<<r, i>>]
    <3>1. B[<<s, -k>>] = Waiting(S[s], q[s], k)
      BY <1>1, <1>2 DEF AreMerge
    <3>2. C[<<s, -k>>] = Waiting(S2[s], q[s], k)
      BY <1>1, <1>2 DEF AreMerge
    <3>. QED
      BY <1>4, <2>4, <3>1, <3>2
  <2>. QED
    BY <2>1, <2>2, <2>3, <2>4, Signs
<1>. QED
  BY <1>5, BoxesEqual DEF B, C

(* The first entry of reader i goes to the end of the message.             *)
BoxMoved(B, C, s, i, j) ==
  /\ MovesHead(B, C, <<s, i>>, <<s, j>>)
  /\ RowMoves(StreamRow(B, s), StreamRow(C, s), i, j)
  /\ \A k \in Int : k < j => B[<<s, k>>] = <<>>
  /\ \A r \in Nat \ {s}, k \in Int : C[<<r, k>>] = B[<<r, k>>]

LEMMA BoxTaken ==
  ASSUME NEW S, NEW q, NEW h, MergeOK(S, q, h), NEW S2, MergeOK(S2, q, h),
         NEW s, OnlyStream(S, q, h, S2, q, h, s), NEW i, TakesOne(S[s], S2[s], i)
  PROVE  BoxMoved(MergeBoxes(S, q, h), MergeBoxes(S2, q, h), s, i, -(Len(q[s]) + 1))
<1>. DEFINE B == MergeBoxes(S, q, h)  C == MergeBoxes(S2, q, h)  L == Len(q[s])  j == -(L + 1)
            t == S[s]  t2 == S2[s]  e == Rest(t.readers[i])[1]
<1>1. AreMerge(B, S, q, h) /\ AreMerge(C, S2, q, h)
  BY MergeBoxesAre
<1>. HIDE DEF B, C
<1>2. /\ s \in 1..Len(S) /\ s \in 1..Len(S2) /\ s \in Nat
      /\ t \in ThreadRec /\ t.msg \in Seq(Items) /\ Len(t.readers) \in Nat
      /\ L \in Nat
  <2>1. S \in Seq(ThreadRec) /\ s \in 1..Len(S) /\ s \in 1..Len(S2) /\ q[s] \in Seq(Seq(Items))
    BY DEF MergeOK, OnlyStream
  <2>. QED
    BY <2>1, ThreadIs, LenProperties
<1>3. /\ i \in 1..Len(t.readers) /\ Len(t2.readers) = Len(t.readers) /\ i \in Nat \ {0}
      /\ \A k \in 1..Len(t.readers) \ {i} : Rest(t2.readers[k]) = Rest(t.readers[k])
      /\ Len(Rest(t.readers[i])) \in Nat \ {0} /\ e \in Items
      /\ Len(Rest(t2.readers[i])) = Len(Rest(t.readers[i])) - 1
      /\ \A k \in 1..Len(Rest(t.readers[i])) - 1 : Rest(t2.readers[i])[k] = Rest(t.readers[i])[k + 1]
      /\ t2.msg = Append(t.msg, e)
  BY <1>2 DEF TakesOne
<1>4. /\ Len(t2.msg) = Len(t.msg) + 1 /\ \A k \in 1..Len(t.msg) : t2.msg[k] = t.msg[k]
      /\ t2.msg[Len(t.msg) + 1] = e /\ Len(t.msg) \in Nat
  BY <1>2, <1>3, AppendIs
<1>. HIDE DEF L, t, t2, e
<1>5. B[<<s, i>>] = Rest(t.readers[i]) /\ C[<<s, i>>] = Rest(t2.readers[i])
  <2>1. i <= Len(t.readers) /\ i <= Len(t2.readers)
    BY <1>3
  <2>2. Coming(t, i) = Rest(t.readers[i]) /\ Coming(t2, i) = Rest(t2.readers[i])
    BY <2>1 DEF Coming
  <2>. QED
    BY <1>1, <1>2, <1>3, <2>2 DEF AreMerge, t, t2
<1>6. B[<<s, j>>] = t.msg /\ C[<<s, j>>] = t2.msg /\ j \in Int /\ j < 0
  <2>1. L + 1 \in Nat \ {0} /\ ~(L + 1 <= L)
    BY <1>2
  <2>2. Waiting(t, q[s], L + 1) = t.msg /\ Waiting(t2, q[s], L + 1) = t2.msg
    BY <2>1 DEF Waiting, L
  <2>. DEFINE k == L + 1
  <2>3. B[<<s, -k>>] = Waiting(t, q[s], k) /\ C[<<s, -k>>] = Waiting(t2, q[s], k)
    <3>1. k \in Nat \ {0}
      BY <2>1
    <3>. HIDE DEF k
    <3>. QED
      BY <1>1, <1>2, <3>1 DEF AreMerge, t, t2
  <2>. QED
    BY <2>1, <2>2, <2>3
<1>7. ASSUME NEW k \in Nat \ {0}, k # i PROVE C[<<s, k>>] = B[<<s, k>>]
  <2>1. Coming(t2, k) = Coming(t, k)
    BY <1>3, <1>7 DEF Coming
  <2>2. B[<<s, k>>] = Coming(t, k)
    BY <1>1, <1>2 DEF AreMerge, t
  <2>3. C[<<s, k>>] = Coming(t2, k)
    BY <1>1, <1>2 DEF AreMerge, t2
  <2>. QED
    BY <2>1, <2>2, <2>3
<1>8. ASSUME NEW k \in Nat \ {0}, k # L + 1 PROVE C[<<s, -k>>] = B[<<s, -k>>]
  <2>1. Waiting(t2, q[s], k) = Waiting(t, q[s], k)
    BY <1>8 DEF Waiting, L
  <2>2. B[<<s, -k>>] = Waiting(t, q[s], k)
    BY <1>1, <1>2 DEF AreMerge, t
  <2>3. C[<<s, -k>>] = Waiting(t2, q[s], k)
    BY <1>1, <1>2 DEF AreMerge, t2
  <2>. QED
    BY <2>1, <2>2, <2>3
<1>9. C[<<s, 0>>] = B[<<s, 0>>]
  BY <1>1, <1>2 DEF AreMerge
<1>10. ASSUME NEW x \in Int \ {i, j} PROVE C[<<s, x>>] = B[<<s, x>>]
  <2>1. CASE x = 0
    BY <1>9, <2>1
  <2>2. CASE x \in Nat \ {0}
    BY <1>7, <2>2
  <2>3. ASSUME NEW k \in Nat \ {0}, x = -k PROVE C[<<s, x>>] = B[<<s, x>>]
    <3>1. k # L + 1
      BY <2>3
    <3>. QED
      BY <1>8, <2>3, <3>1
  <2>. QED
    BY <2>1, <2>2, <2>3, Signs
<1>11. ASSUME NEW k \in Int, k < j PROVE B[<<s, k>>] = <<>>
  <2>1. -k \in Nat \ {0} /\ -(-k) = k /\ ~(-k <= L) /\ -k # L + 1
    BY <1>2, <1>11
  <2>. DEFINE m == -k
  <2>2. Waiting(t, q[s], m) = <<>>
    BY <2>1 DEF Waiting, L
  <2>3. B[<<s, -m>>] = Waiting(t, q[s], m)
    <3>1. m \in Nat \ {0}
      BY <2>1
    <3>. HIDE DEF m
    <3>. QED
      BY <1>1, <1>2, <3>1 DEF AreMerge, t
  <2>. QED
    BY <2>1, <2>2, <2>3
<1>. HIDE DEF j
<1>12. ASSUME NEW r \in Nat \ {s}, NEW k \in Int PROVE C[<<r, k>>] = B[<<r, k>>]
  BY <1>1, OtherRows
<1>13. /\ DOMAIN B = Nat \X Int /\ DOMAIN C = Nat \X Int
       /\ \A c \in DOMAIN B : \E r \in Nat, k \in Int : c = <<r, k>>
  BY <1>1, MergeLens
<1>14. ASSUME NEW c \in DOMAIN B \ {<<s, i>>, <<s, j>>} PROVE C[c] = B[c]
  <2>1. PICK r \in Nat, k \in Int : c = <<r, k>>
    BY <1>13
  <2>2. CASE r # s
    BY <1>12, <2>1, <2>2
  <2>3. CASE r = s
    <3>1. k # i /\ k # j
      BY <1>14, <2>1, <2>3
    <3>. QED
      BY <1>10, <2>1, <2>3, <3>1
  <2>. QED
    BY <2>2, <2>3
<1>. DEFINE x == <<s, i>>  y == <<s, j>>
<1>15. x \in DOMAIN B /\ y \in DOMAIN B /\ x # y
  <2>1. s \in Nat /\ i \in Int /\ j \in Int /\ i # j
    BY <1>2, <1>3, <1>6
  <2>. QED
    BY <1>13, <2>1
<1>16. /\ Len(B[x]) # 0 /\ Len(C[x]) = Len(B[x]) - 1
       /\ \A k \in 1..Len(C[x]) : C[x][k] = B[x][k + 1]
       /\ Len(C[y]) = Len(B[y]) + 1 /\ C[y][Len(C[y])] = e /\ B[x][1] = e
       /\ \A k \in 1..Len(B[y]) : C[y][k] = B[y][k]
  BY <1>3, <1>4, <1>5, <1>6 DEF e
<1>17. MovesHead(B, C, <<s, i>>, <<s, j>>)
  <2>1. \A c \in DOMAIN B \ {x, y} : C[c] = B[c]
    BY <1>14
  <2>2. DOMAIN C = DOMAIN B
    BY <1>13
  <2>. HIDE DEF x, y
  <2>3. MovesHead(B, C, x, y)
    BY <1>15, <1>16, <2>1, <2>2 DEF MovesHead
  <2>. QED
    BY <2>3 DEF x, y
<1>18. RowMoves(StreamRow(B, s), StreamRow(C, s), i, j)
  <2>. DEFINE b == StreamRow(B, s)  c == StreamRow(C, s)
  <2>1. \A k \in Int : b[k] = B[<<s, k>>] /\ c[k] = C[<<s, k>>]
    BY DEF StreamRow
  <2>2. i \in Nat \ {0} /\ j \in Int /\ j < 0 /\ i \in Int
    BY <1>3, <1>6
  <2>3. /\ b[i] = Rest(t.readers[i]) /\ c[i] = Rest(t2.readers[i])
        /\ b[j] = t.msg /\ c[j] = t2.msg
        /\ \A k \in Int \ {i, j} : c[k] = b[k]
    BY <1>5, <1>6, <1>10, <2>1, <2>2
  <2>. HIDE DEF b, c
  <2>4. /\ Len(b[i]) # 0 /\ Len(c[i]) = Len(b[i]) - 1
        /\ \A k \in 1..Len(c[i]) : c[i][k] = b[i][k + 1]
    BY <1>3, <2>3
  <2>5. c[j] = Append(b[j], b[i][1])
    BY <1>3, <2>3 DEF e
  <2>6. RowMoves(b, c, i, j)
    BY <2>2, <2>3, <2>4, <2>5 DEF RowMoves
  <2>. QED
    BY <2>6 DEF b, c
<1>19. BoxMoved(B, C, s, i, j)
  BY <1>11, <1>12, <1>17, <1>18 DEF BoxMoved
<1>. QED
  BY <1>19 DEF B, C, j, L

Sends(t, t2, v, v2) == KeepsRests(t, t2) /\ v2 = Append(v, t.msg) /\ t2.msg = <<>>

LEMMA BoxesSent ==
  ASSUME NEW S, NEW q, NEW h, MergeOK(S, q, h), NEW S2, NEW q2, MergeOK(S2, q2, h),
         NEW s, OnlyStream(S, q, h, S2, q2, h, s), Sends(S[s], S2[s], q[s], q2[s])
  PROVE  MergeBoxes(S2, q2, h) = MergeBoxes(S, q, h)
<1>. DEFINE B == MergeBoxes(S, q, h)  C == MergeBoxes(S2, q2, h)  L == Len(q[s])
<1>1. AreMerge(B, S, q, h) /\ AreMerge(C, S2, q2, h)
  BY MergeBoxesAre
<1>. HIDE DEF B, C
<1>0. KeepsRests(S[s], S2[s]) /\ q2[s] = Append(q[s], S[s].msg) /\ S2[s].msg = <<>>
  BY DEF Sends
<1>2. /\ s \in 1..Len(S) /\ s \in 1..Len(S2) /\ s \in Nat
      /\ Len(S2[s].readers) = Len(S[s].readers) /\ Len(S[s].readers) \in Nat
      /\ \A i \in 1..Len(S[s].readers) : Rest(S2[s].readers[i]) = Rest(S[s].readers[i])
      /\ q[s] \in Seq(Seq(Items)) /\ S[s].msg \in Seq(Items)
  <2>1. S \in Seq(ThreadRec) /\ s \in 1..Len(S) /\ s \in 1..Len(S2)
    BY DEF MergeOK, OnlyStream
  <2>2. q[s] \in Seq(Seq(Items))
    BY <2>1 DEF MergeOK
  <2>. QED
    BY <1>0, <2>1, <2>2, ThreadIs DEF KeepsRests
<1>3. /\ Len(q2[s]) = L + 1 /\ \A k \in 1..L : q2[s][k] = q[s][k]
      /\ q2[s][L + 1] = S[s].msg /\ L \in Nat
  BY <1>0, <1>2, AppendIs
<1>. HIDE DEF L
<1>4. ASSUME NEW k \in Nat \ {0} PROVE Coming(S2[s], k) = Coming(S[s], k)
  BY <1>2 DEF Coming
<1>5. ASSUME NEW k \in Nat \ {0} PROVE Waiting(S2[s], q2[s], k) = Waiting(S[s], q[s], k)
  <2>1. CASE k \in 1..L
    <3>1. k <= L /\ k <= L + 1
      BY <1>3, <2>1
    <3>. QED
      BY <1>3, <2>1, <3>1 DEF Waiting, L
  <2>2. CASE k = L + 1
    <3>1. ~(k <= L) /\ k <= L + 1
      BY <1>3, <2>2
    <3>. QED
      BY <1>3, <2>2, <3>1 DEF Waiting, L
  <2>3. CASE k > L + 1
    <3>1. ~(k <= L) /\ ~(k <= L + 1) /\ k # L + 1
      BY <1>3, <2>3
    <3>. QED
      BY <1>0, <1>3, <3>1 DEF Waiting, L
  <2>. QED
    BY <1>3, <2>1, <2>2, <2>3
<1>6. ASSUME NEW r \in Nat, NEW i \in Int PROVE C[<<r, i>>] = B[<<r, i>>]
  <2>1. CASE r # s
    BY <1>1, <2>1, OtherRows
  <2>2. CASE r = s /\ i = 0
    BY <1>1, <1>2, <2>2 DEF AreMerge
  <2>3. CASE r = s /\ i \in Nat \ {0}
    <3>1. B[<<s, i>>] = Coming(S[s], i)
      BY <1>1, <1>2, <2>3 DEF AreMerge
    <3>2. C[<<s, i>>] = Coming(S2[s], i)
      BY <1>1, <1>2, <2>3 DEF AreMerge
    <3>. QED
      BY <1>4, <2>3, <3>1, <3>2
  <2>4. ASSUME r = s, NEW k \in Nat \ {0}, i = -k PROVE C[<<r, i>>] = B[<<r, i>>]
    <3>1. B[<<s, -k>>] = Waiting(S[s], q[s], k)
      BY <1>1, <1>2 DEF AreMerge
    <3>2. C[<<s, -k>>] = Waiting(S2[s], q2[s], k)
      BY <1>1, <1>2 DEF AreMerge
    <3>. QED
      BY <1>5, <2>4, <3>1, <3>2
  <2>. QED
    BY <2>1, <2>2, <2>3, <2>4, Signs
<1>. QED
  BY <1>6, BoxesEqual DEF B, C

(* What was the first message of stream s is held; the others move up.     *)
Receives(B, C, s) ==
  /\ s \in Nat
  /\ \A i \in Int : C[<<s, i>>] = IF i <= 0 THEN B[<<s, i - 1>>] ELSE B[<<s, i>>]
  /\ \A r \in Nat \ {s}, i \in Int : C[<<r, i>>] = B[<<r, i>>]
  /\ B[<<s, 0>>] = <<>>

LEMMA BoxReceived ==
  ASSUME NEW S, NEW q, NEW h, MergeOK(S, q, h), NEW q2, NEW h2, MergeOK(S, q2, h2),
         NEW s, OnlyStream(S, q, h, S, q2, h2, s), h[s] = <<>>, q[s] # <<>>,
         q2[s] = Tail(q[s]), h2[s] = Head(q[s])
  PROVE  Receives(MergeBoxes(S, q, h), MergeBoxes(S, q2, h2), s)
<1>. DEFINE B == MergeBoxes(S, q, h)  C == MergeBoxes(S, q2, h2)  L == Len(q[s])
<1>1. AreMerge(B, S, q, h) /\ AreMerge(C, S, q2, h2)
  BY MergeBoxesAre
<1>. HIDE DEF B, C
<1>2. s \in 1..Len(S) /\ s \in Nat /\ q[s] \in Seq(Seq(Items))
  BY DEF MergeOK, OnlyStream
<1>3. /\ Len(q2[s]) = L - 1 /\ \A k \in 1..L - 1 : q2[s][k] = q[s][k + 1]
      /\ h2[s] = q[s][1] /\ L \in Nat \ {0}
  BY <1>2, TailIs
<1>. HIDE DEF L
<1>4. ASSUME NEW i \in Int PROVE C[<<s, i>>] = IF i <= 0 THEN B[<<s, i - 1>>] ELSE B[<<s, i>>]
  <2>1. CASE i = 0
    <3>1. C[<<s, 0>>] = h2[s]
      BY <1>1, <1>2 DEF AreMerge
    <3>2. B[<<s, -1>>] = Waiting(S[s], q[s], 1)
      <4>1. ASSUME NEW k \in Nat \ {0} PROVE B[<<s, -k>>] = Waiting(S[s], q[s], k)
        BY <1>1, <1>2 DEF AreMerge
      <4>. DEFINE k == 1
      <4>2. k \in Nat \ {0} /\ -k = -1
        OBVIOUS
      <4>. HIDE DEF k
      <4>3. B[<<s, -k>>] = Waiting(S[s], q[s], k)
        BY <4>1, <4>2
      <4>. QED
        BY <4>2, <4>3 DEF k
    <3>3. Waiting(S[s], q[s], 1) = q[s][1]
      <4>1. 1 <= L
        BY <1>3
      <4>. QED
        BY <4>1 DEF Waiting, L
    <3>4. i <= 0 /\ i - 1 = -1
      BY <2>1
    <3>. QED
      BY <1>3, <2>1, <3>1, <3>2, <3>3, <3>4
  <2>2. CASE i \in Nat \ {0}
    <3>1. B[<<s, i>>] = Coming(S[s], i)
      BY <1>1, <1>2, <2>2 DEF AreMerge
    <3>2. C[<<s, i>>] = Coming(S[s], i)
      BY <1>1, <1>2, <2>2 DEF AreMerge
    <3>3. ~(i <= 0)
      BY <2>2
    <3>. QED
      BY <3>1, <3>2, <3>3
  <2>3. ASSUME NEW k \in Nat \ {0}, i = -k
        PROVE  C[<<s, i>>] = IF i <= 0 THEN B[<<s, i - 1>>] ELSE B[<<s, i>>]
    <3>. DEFINE m == k + 1
    <3>1. m \in Nat \ {0} /\ i <= 0 /\ i - 1 = -m
      BY <2>3
    <3>2. C[<<s, -k>>] = Waiting(S[s], q2[s], k)
      BY <1>1, <1>2 DEF AreMerge
    <3>3. Waiting(S[s], q2[s], k) = Waiting(S[s], q[s], m)
      <4>1. CASE k \in 1..L - 1
        <5>1. k <= L - 1 /\ m <= L
          BY <1>3, <4>1
        <5>. QED
          BY <1>3, <4>1, <5>1 DEF Waiting, L
      <4>2. CASE k = L
        <5>1. ~(k <= L - 1) /\ ~(m <= L) /\ m = L + 1 /\ k = (L - 1) + 1
          BY <1>3, <4>2
        <5>. QED
          BY <1>3, <5>1 DEF Waiting, L
      <4>3. CASE k > L
        <5>1. ~(k <= L - 1) /\ ~(m <= L) /\ m # L + 1 /\ k # (L - 1) + 1
          BY <1>3, <4>3
        <5>. QED
          BY <1>3, <5>1 DEF Waiting, L
      <4>. QED
        BY <1>3, <4>1, <4>2, <4>3
    <3>. HIDE DEF m
    <3>4. B[<<s, -m>>] = Waiting(S[s], q[s], m)
      BY <1>1, <1>2, <3>1 DEF AreMerge
    <3>. QED
      BY <2>3, <3>1, <3>2, <3>3, <3>4
  <2>. QED
    BY <2>1, <2>2, <2>3, Signs
<1>5. ASSUME NEW r \in Nat \ {s}, NEW i \in Int PROVE C[<<r, i>>] = B[<<r, i>>]
  BY <1>1, OtherRows
<1>6. B[<<s, 0>>] = <<>>
  BY <1>1, <1>2 DEF AreMerge
<1>7. Receives(B, C, s)
  BY <1>2, <1>4, <1>5, <1>6 DEF Receives
<1>. QED
  BY <1>7 DEF B, C

(* The first entry that stream s received is removed.                      *)
Removes(B, C, s) ==
  /\ s \in Nat /\ B[<<s, 0>>] # <<>>
  /\ C[<<s, 0>>] = Tail(B[<<s, 0>>])
  /\ \A i \in Int \ {0} : C[<<s, i>>] = B[<<s, i>>]
  /\ \A r \in Nat \ {s}, i \in Int : C[<<r, i>>] = B[<<r, i>>]

Shortens(x, y) == x # <<>> /\ y = Tail(x)

LEMMA BoxRemoved ==
  ASSUME NEW S, NEW q, NEW h, MergeOK(S, q, h), NEW h2, MergeOK(S, q, h2),
         NEW s, OnlyStream(S, q, h, S, q, h2, s), Shortens(h[s], h2[s])
  PROVE  /\ Removes(MergeBoxes(S, q, h), MergeBoxes(S, q, h2), s)
         /\ MergeBoxes(S, q, h)[<<s, 0>>] = h[s]
<1>. DEFINE B == MergeBoxes(S, q, h)  C == MergeBoxes(S, q, h2)
<1>1. AreMerge(B, S, q, h) /\ AreMerge(C, S, q, h2)
  BY MergeBoxesAre
<1>. HIDE DEF B, C
<1>2. s \in 1..Len(S) /\ s \in Nat
  BY DEF MergeOK, OnlyStream
<1>3. B[<<s, 0>>] = h[s] /\ C[<<s, 0>>] = h2[s]
  BY <1>1, <1>2 DEF AreMerge
<1>4. ASSUME NEW i \in Int \ {0} PROVE C[<<s, i>>] = B[<<s, i>>]
  <2>1. CASE i \in Nat \ {0}
    <3>1. B[<<s, i>>] = Coming(S[s], i)
      BY <1>1, <1>2, <2>1 DEF AreMerge
    <3>2. C[<<s, i>>] = Coming(S[s], i)
      BY <1>1, <1>2, <2>1 DEF AreMerge
    <3>. QED
      BY <3>1, <3>2
  <2>2. ASSUME NEW k \in Nat \ {0}, i = -k PROVE C[<<s, i>>] = B[<<s, i>>]
    <3>1. B[<<s, -k>>] = Waiting(S[s], q[s], k)
      BY <1>1, <1>2 DEF AreMerge
    <3>2. C[<<s, -k>>] = Waiting(S[s], q[s], k)
      BY <1>1, <1>2 DEF AreMerge
    <3>. QED
      BY <2>2, <3>1, <3>2
  <2>. QED
    BY <2>1, <2>2, Signs
<1>5. ASSUME NEW r \in Nat \ {s}, NEW i \in Int PROVE C[<<r, i>>] = B[<<r, i>>]
  BY <1>1, OtherRows
<1>6. Removes(B, C, s)
  BY <1>2, <1>3, <1>4, <1>5 DEF Removes, Shortens
<1>. QED
  BY <1>3, <1>6 DEF B, C

(* What a step of a stream does to what is merged: nothing gets lost,      *)
(* appears twice or comes to another stream.                               *)
RowsFrom(B, C) ==
  \A s \in Nat, i \in Int : \A k \in 1..Len(C[<<s, i>>]) :
    \E j \in Int : \E l \in 1..Len(B[<<s, j>>]) : C[<<s, i>>][k] = B[<<s, j>>][l]

BoxesFollow(B, C) ==
  Contents(C) = Contents(B) /\ (Distinct(B) => Distinct(C)) /\ RowsFrom(B, C)

Grid(B) ==
  DOMAIN B = Nat \X Int /\ \A s \in Nat, i \in Int : B[<<s, i>>] \in Seq(Items)

LEMMA GridIs ==
  ASSUME NEW B, Grid(B)
  PROVE  /\ Lens(B) /\ DOMAIN B = Nat \X Int
         /\ \A s \in Nat : Rows(StreamRow(B, s))
         /\ \A s \in Nat, i \in Int : /\ StreamRow(B, s)[i] = B[<<s, i>>] /\ Len(B[<<s, i>>]) \in Nat
                                      /\ <<s, i>> \in DOMAIN B
         /\ \A c \in DOMAIN B : \E s \in Nat, i \in Int : c = <<s, i>>
<1>1. DOMAIN B = Nat \X Int /\ \A s \in Nat, i \in Int : B[<<s, i>>] \in Seq(Items)
  BY DEF Grid
<1>2. \A c \in Nat \X Int : \E s \in Nat, i \in Int : c = <<s, i>>
  OBVIOUS
<1>3. \A s \in Nat, i \in Int : Len(B[<<s, i>>]) \in Nat
  BY <1>1, LenProperties
<1>4. ASSUME NEW c \in Nat \X Int PROVE Len(B[c]) \in Nat
  <2>1. PICK s \in Nat, i \in Int : c = <<s, i>>
    BY <1>2
  <2>. QED
    BY <1>3, <2>1
<1>5. \A s \in Nat, i \in Int : StreamRow(B, s)[i] = B[<<s, i>>]
  BY DEF StreamRow
<1>6. \A s \in Nat : Rows(StreamRow(B, s))
  BY <1>1, <1>5 DEF Rows
<1>. QED
  BY <1>1, <1>2, <1>3, <1>4, <1>5, <1>6 DEF Lens

LEMMA MergeGrid ==
  ASSUME NEW S, NEW q, NEW h, MergeOK(S, q, h)
  PROVE  Grid(MergeBoxes(S, q, h))
BY MergeBoxesAre DEF AreMerge, Grid

LEMMA ReceivedFollows ==
  ASSUME NEW B, NEW C, NEW s, Grid(B), Grid(C), Receives(B, C, s)
  PROVE  BoxesFollow(B, C)
<1>. DEFINE f == [c \in Nat \X Int |-> IF c[1] = s /\ c[2] <= 0 THEN <<s, c[2] - 1>> ELSE c]
<1>1. /\ s \in Nat
      /\ \A i \in Int : C[<<s, i>>] = IF i <= 0 THEN B[<<s, i - 1>>] ELSE B[<<s, i>>]
      /\ \A r \in Nat \ {s}, i \in Int : C[<<r, i>>] = B[<<r, i>>]
      /\ B[<<s, 0>>] = <<>>
  BY DEF Receives
<1>2. ASSUME NEW r \in Nat, NEW i \in Int
      PROVE  /\ f[<<r, i>>] = IF r = s /\ i <= 0 THEN <<s, i - 1>> ELSE <<r, i>>
             /\ f[<<r, i>>] \in DOMAIN B /\ C[<<r, i>>] = B[f[<<r, i>>]]
  <2>1. f[<<r, i>>] = IF r = s /\ i <= 0 THEN <<s, i - 1>> ELSE <<r, i>>
    OBVIOUS
  <2>. HIDE DEF f
  <2>2. CASE r = s /\ i <= 0
    <3>1. f[<<r, i>>] = <<s, i - 1>> /\ i - 1 \in Int
      BY <2>1, <2>2
    <3>2. C[<<r, i>>] = B[<<s, i - 1>>]
      BY <1>1, <2>2
    <3>. QED
      BY <1>1, <2>1, <3>1, <3>2, GridIs
  <2>3. CASE ~(r = s /\ i <= 0)
    <3>1. f[<<r, i>>] = <<r, i>>
      BY <2>1, <2>3
    <3>2. C[<<r, i>>] = B[<<r, i>>]
      BY <1>1, <2>3
    <3>. QED
      BY <2>1, <3>1, <3>2, GridIs
  <2>. QED
    BY <2>2, <2>3
<1>. HIDE DEF f
<1>3. ASSUME NEW c \in DOMAIN C PROVE f[c] \in DOMAIN B /\ C[c] = B[f[c]]
  <2>1. PICK r \in Nat, i \in Int : c = <<r, i>>
    BY GridIs
  <2>. QED
    BY <1>2, <2>1
<1>4. ASSUME NEW c \in DOMAIN C, NEW d \in DOMAIN C, Len(C[c]) # 0, Len(C[d]) # 0, f[c] = f[d]
      PROVE  c = d
  <2>1. PICK r \in Nat, i \in Int : c = <<r, i>>
    BY GridIs
  <2>2. PICK u \in Nat, j \in Int : d = <<u, j>>
    BY GridIs
  <2>3. f[<<r, i>>] = f[<<u, j>>]
    BY <1>4, <2>1, <2>2
  <2>4. CASE r = s /\ i <= 0 /\ u = s /\ j <= 0
    <3>1. <<s, i - 1>> = <<s, j - 1>>
      BY <1>2, <2>3, <2>4
    <3>2. i - 1 = j - 1
      BY <3>1
    <3>. QED
      BY <2>1, <2>2, <2>4, <3>2
  <2>5. CASE ~(r = s /\ i <= 0) /\ ~(u = s /\ j <= 0)
    BY <1>2, <2>1, <2>2, <2>3, <2>5
  <2>6. CASE r = s /\ i <= 0 /\ ~(u = s /\ j <= 0)
    <3>1. <<s, i - 1>> = <<u, j>>
      BY <1>2, <2>3, <2>6
    <3>2. u = s /\ i - 1 = j
      BY <3>1
    <3>. QED
      BY <2>6, <3>2
  <2>7. CASE ~(r = s /\ i <= 0) /\ u = s /\ j <= 0
    <3>1. <<r, i>> = <<s, j - 1>>
      BY <1>2, <2>3, <2>7
    <3>2. r = s /\ j - 1 = i
      BY <3>1
    <3>. QED
      BY <2>7, <3>2
  <2>. QED
    BY <2>4, <2>5, <2>6, <2>7
<1>5. ASSUME NEW c \in DOMAIN B, Len(B[c]) # 0 PROVE \E d \in DOMAIN C : C[d] = B[c]
  <2>1. PICK r \in Nat, i \in Int : c = <<r, i>>
    BY GridIs
  <2>2. CASE r # s \/ i > 0
    <3>1. C[<<r, i>>] = B[<<r, i>>]
      <4>1. CASE r # s
        BY <1>1, <4>1
      <4>2. CASE r = s
        <5>1. ~(i <= 0)
          BY <2>2, <4>2
        <5>. QED
          BY <1>1, <4>2, <5>1
      <4>. QED
        BY <4>1, <4>2
    <3>2. <<r, i>> \in DOMAIN C
      BY GridIs
    <3>. QED
      BY <2>1, <3>1, <3>2
  <2>3. CASE r = s /\ i = 0
    BY <1>1, <1>5, <2>1, <2>3
  <2>4. CASE r = s /\ i < 0
    <3>. DEFINE j == i + 1
    <3>1. j \in Int /\ j <= 0 /\ j - 1 = i
      BY <2>4
    <3>. HIDE DEF j
    <3>2. C[<<s, j>>] = B[<<s, j - 1>>]
      BY <1>1, <3>1
    <3>3. <<s, j>> \in DOMAIN C
      BY <1>1, <3>1, GridIs
    <3>. QED
      BY <2>1, <2>4, <3>1, <3>2, <3>3
  <2>. QED
    BY <2>2, <2>3, <2>4
<1>6. Renames(B, C, f)
  BY <1>3, <1>4, <1>5 DEF Renames
<1>7. Contents(C) = Contents(B) /\ (Distinct(B) => Distinct(C))
  BY <1>6, GridIs, BoxesRenamed
<1>8. RowsFrom(B, C)
  <2>1. ASSUME NEW r \in Nat, NEW i \in Int, NEW k \in 1..Len(C[<<r, i>>])
        PROVE  \E j \in Int : \E l \in 1..Len(B[<<r, j>>]) : C[<<r, i>>][k] = B[<<r, j>>][l]
    <3>1. \E j \in Int : C[<<r, i>>] = B[<<r, j>>]
      <4>1. i - 1 \in Int
        OBVIOUS
      <4>. QED
        BY <1>1, <4>1
    <3>. QED
      BY <3>1
  <2>. QED
    BY <2>1 DEF RowsFrom
<1>. QED
  BY <1>7, <1>8 DEF BoxesFollow

LEMMA TakenIs ==
  ASSUME NEW B, NEW C, NEW s, Grid(B), Grid(C), Removes(B, C, s)
  PROVE  /\ Contents(B) = Contents(C) \cup {Head(B[<<s, 0>>])}
         /\ Distinct(B) => Distinct(C) /\ Head(B[<<s, 0>>]) \notin Contents(C)
         /\ RowsFrom(B, C)
<1>. DEFINE x == <<s, 0>>
<1>1. /\ s \in Nat /\ B[x] # <<>> /\ C[x] = Tail(B[x])
      /\ \A i \in Int \ {0} : C[<<s, i>>] = B[<<s, i>>]
      /\ \A r \in Nat \ {s}, i \in Int : C[<<r, i>>] = B[<<r, i>>]
  BY DEF Removes
<1>2. B[x] \in Seq(Items) /\ x \in DOMAIN B /\ DOMAIN C = DOMAIN B
  BY <1>1, GridIs DEF Grid
<1>3. /\ Len(C[x]) = Len(B[x]) - 1 /\ Head(B[x]) = B[x][1] /\ Len(B[x]) \in Nat \ {0}
      /\ \A i \in 1..Len(B[x]) - 1 : C[x][i] = B[x][i + 1]
  BY <1>1, <1>2, TailIs
<1>4. ASSUME NEW c \in DOMAIN B \ {x} PROVE C[c] = B[c]
  <2>1. PICK r \in Nat, i \in Int : c = <<r, i>>
    BY GridIs
  <2>2. CASE r # s
    BY <1>1, <2>1, <2>2
  <2>3. CASE r = s
    <3>1. i # 0
      BY <1>4, <2>1, <2>3
    <3>. QED
      BY <1>1, <2>1, <2>3, <3>1
  <2>. QED
    BY <2>2, <2>3
<1>5. TakesHead(B, C, x)
  <2>. HIDE DEF x
  <2>. QED
    BY <1>2, <1>3, <1>4 DEF TakesHead
<1>6. /\ Contents(B) = Contents(C) \cup {B[x][1]}
      /\ Distinct(B) => Distinct(C) /\ B[x][1] \notin Contents(C)
  <2>. HIDE DEF x
  <2>. QED
    BY <1>5, GridIs, HeadTaken
<1>7. RowsFrom(B, C)
  <2>1. ASSUME NEW r \in Nat, NEW i \in Int, NEW k \in 1..Len(C[<<r, i>>])
        PROVE  \E j \in Int : \E l \in 1..Len(B[<<r, j>>]) : C[<<r, i>>][k] = B[<<r, j>>][l]
    <3>1. CASE r = s /\ i = 0
      <4>1. k + 1 \in 1..Len(B[x]) /\ C[x][k] = B[x][k + 1]
        <5>1. k \in 1..Len(C[x])
          BY <2>1, <3>1
        <5>2. k \in 1..Len(B[x]) - 1 /\ k + 1 \in 1..Len(B[x])
          BY <1>3, <5>1
        <5>. QED
          BY <1>3, <5>2
      <4>. QED
        BY <3>1, <4>1
    <3>2. CASE ~(r = s /\ i = 0)
      <4>1. C[<<r, i>>] = B[<<r, i>>]
        BY <1>1, <3>2
      <4>. QED
        BY <4>1
    <3>. QED
      BY <3>1, <3>2
  <2>. QED
    BY <2>1 DEF RowsFrom
<1>. QED
  BY <1>3, <1>6, <1>7

-----------------------------------------------------------------------------
(* The files are dealt out to the streams.                                 *)
LEMMA StreamsOf ==
  ASSUME NEW n \in Nat
  PROVE  NumStreams(n) \in Nat \ {0} /\ NumStreams(n) <= MaxStreams
<1>1. MaxStreams \in Nat \ {0} /\ 2 \in Nat \ {0}
  BY SortAssumption, MergeAssumption
<1>2. n \div 2 \in Nat
  BY <1>1, Division
<1>. QED
  BY <1>1, <1>2 DEF NumStreams

LEMMA Multiples ==
  ASSUME NEW m \in Nat \ {0}, NEW i \in Nat, NEW j \in Nat
  PROVE  /\ i * m \in Nat /\ (i + 1) * m = i * m + m
         /\ i <= j => i * m <= j * m
         /\ i < j => i * m + m <= j * m
<1>1. /\ i * m \in Nat /\ j * m \in Nat /\ (i + 1) * m = i * m + m
  OBVIOUS
<1>2. ASSUME i <= j PROVE i * m <= j * m
  <2>1. PICK d \in Nat : j = i + d
    <3>1. j - i \in Nat /\ j = i + (j - i)
      BY <1>2
    <3>. QED
      BY <3>1
  <2>2. j * m = i * m + d * m /\ d * m \in Nat
    BY <2>1
  <2>. QED
    BY <1>1, <2>2
<1>3. ASSUME i < j PROVE i * m + m <= j * m
  <2>1. PICK d \in Nat : j = (i + 1) + d
    <3>1. j - (i + 1) \in Nat /\ j = (i + 1) + (j - (i + 1))
      BY <1>3
    <3>. QED
      BY <3>1
  <2>2. j * m = (i + 1) * m + d * m /\ d * m \in Nat
    BY <2>1
  <2>. QED
    BY <1>1, <2>2
<1>. QED
  BY <1>1, <1>2, <1>3

LEMMA FilesShared ==
  ASSUME NEW n \in Nat, NEW m \in Nat \ {0}
  PROVE  /\ \A s \in 1..m : NumFiles(n, s, m) \in Nat
         /\ \A s \in 1..m : \A i \in 1..NumFiles(n, s, m) : s + (i - 1) * m \in 1..n
         /\ \A c \in 1..n : \E s \in 1..m : \E i \in 1..NumFiles(n, s, m) : c = s + (i - 1) * m
<1>. DEFINE d == n \div m  r == n % m
<1>1. d \in Nat /\ r \in Nat /\ r < m /\ n = m * d + r
  BY Division
<1>2. \A s \in 1..m : NumFiles(n, s, m) = IF s <= r THEN d + 1 ELSE d
  BY <1>1 DEF NumFiles
<1>. HIDE DEF d, r
<1>3. n = d * m + r /\ d * m \in Nat
  BY <1>1
<1>4. ASSUME NEW s \in 1..m, NEW i \in 1..NumFiles(n, s, m) PROVE s + (i - 1) * m \in 1..n
  <2>. DEFINE k == i - 1
  <2>1. k \in Nat /\ (k < d \/ (k = d /\ s <= r))
    BY <1>1, <1>2
  <2>. HIDE DEF k
  <2>2. k * m \in Nat /\ (k < d => k * m + m <= d * m)
    BY <1>1, <2>1, Multiples
  <2>3. s + k * m \in 1..n
    <3>. DEFINE x == k * m  y == d * m
    <3>1. x \in Nat /\ y \in Nat /\ n = y + r /\ (k < d => x + m <= y) /\ (k = d => x = y)
      BY <1>3, <2>2
    <3>. HIDE DEF x, y
    <3>2. s + x \in 1..n
      BY <1>1, <2>1, <3>1
    <3>. QED
      BY <3>2 DEF x
  <2>. QED
    BY <2>3 DEF k
<1>5. ASSUME NEW c \in 1..n PROVE \E s \in 1..m : \E i \in 1..NumFiles(n, s, m) : c = s + (i - 1) * m
  <2>. DEFINE a == c - 1  k == a \div m  t == a % m
  <2>1. a \in Nat /\ k \in Nat /\ t \in Nat /\ t < m /\ a = m * k + t /\ c = a + 1 /\ a < n
    <3>1. a \in Nat /\ c = a + 1 /\ a < n
      OBVIOUS
    <3>. HIDE DEF a
    <3>. QED
      BY <3>1, Division
  <2>. HIDE DEF a, k, t
  <2>2. a = k * m + t /\ k * m \in Nat
    BY <2>1
  <2>3. k < d \/ (k = d /\ t < r)
    <3>. DEFINE x == k * m  y == d * m
    <3>1. x \in Nat /\ y \in Nat /\ n = y + r /\ a = x + t
      BY <1>3, <2>2
    <3>2. (d < k => y + m <= x) /\ (k = d => x = y)
      BY <1>1, <2>1, Multiples
    <3>. HIDE DEF x, y
    <3>. QED
      BY <1>1, <2>1, <3>1, <3>2
  <2>. DEFINE s == t + 1  i == k + 1
  <2>4. s \in 1..m /\ i \in Nat /\ i >= 1 /\ i - 1 = k
    BY <1>1, <2>1
  <2>5. i \in 1..NumFiles(n, s, m)
    BY <1>1, <1>2, <2>1, <2>3, <2>4
  <2>6. c = s + k * m
    <3>. DEFINE x == k * m
    <3>1. x \in Nat /\ a = x + t
      BY <2>2
    <3>. HIDE DEF x
    <3>2. c = (t + 1) + x
      BY <2>1, <3>1
    <3>. QED
      BY <3>2 DEF x
  <2>. HIDE DEF s, i
  <2>7. c = s + (i - 1) * m
    BY <2>4, <2>6
  <2>. QED
    BY <2>4, <2>5, <2>7
<1>. QED
  BY <1>1, <1>2, <1>4, <1>5

LEMMA FilesApart ==
  ASSUME NEW m \in Nat \ {0}, NEW s \in 1..m, NEW t \in 1..m, NEW i \in Nat, NEW j \in Nat,
         s + i * m = t + j * m
  PROVE  s = t /\ i = j
<1>. DEFINE x == i * m  y == j * m
<1>1. /\ x \in Nat /\ y \in Nat /\ (i < j => x + m <= y) /\ (j < i => y + m <= x)
      /\ (i = j => x = y)
  BY Multiples
<1>2. s + x = t + y
  OBVIOUS
<1>. HIDE DEF x, y
<1>. QED
  BY <1>1, <1>2

OpenedStreams(F, m, works) ==
  [s \in 1..m |-> Thread([i \in 1..NumFiles(Len(F), s, m) |-> Opened(F[s + (i - 1) * m], works)])]

LEMMA OpenedOK ==
  ASSUME NEW F \in Seq(Seq(Items)), NEW m \in Nat \ {0}, NEW works \in BOOLEAN,
         NEW S, S = OpenedStreams(F, m, works)
  PROVE  /\ S \in Seq(ThreadRec) /\ Len(S) = m
         /\ \A s \in 1..m : /\ ReadersOK(S[s]) /\ S[s].at = "pick" /\ S[s].msg = <<>>
                            /\ Len(S[s].readers) = NumFiles(Len(F), s, m)
                            /\ \A i \in 1..NumFiles(Len(F), s, m) :
                                 Rest(S[s].readers[i]) = F[s + (i - 1) * m]
<1>. DEFINE R(s) == [i \in 1..NumFiles(Len(F), s, m) |-> Opened(F[s + (i - 1) * m], works)]
<1>1. Len(F) \in Nat
  BY LenProperties
<1>2. ASSUME NEW s \in 1..m
      PROVE  /\ R(s) \in Seq(Reader) /\ Len(R(s)) = NumFiles(Len(F), s, m)
             /\ \A i \in 1..NumFiles(Len(F), s, m) : /\ ReaderOK(R(s)[i])
                                                     /\ Rest(R(s)[i]) = F[s + (i - 1) * m]
  <2>. DEFINE n == NumFiles(Len(F), s, m)  x(i) == F[s + (i - 1) * m]
  <2>1. n \in Nat /\ \A i \in 1..n : s + (i - 1) * m \in 1..Len(F)
    BY <1>1, FilesShared
  <2>2. \A i \in 1..n : x(i) \in Seq(Items)
    BY <2>1, ElementOfSeq
  <2>. HIDE DEF x
  <2>3. \A i \in 1..n : ReaderOK(Opened(x(i), works)) /\ Rest(Opened(x(i), works)) = x(i)
    BY <2>2, OpenedIs
  <2>4. R(s) = [i \in 1..n |-> Opened(x(i), works)]
    BY DEF x
  <2>. HIDE DEF n, R
  <2>5. R(s) \in [1..n -> Reader] /\ \A i \in 1..n : R(s)[i] = Opened(x(i), works)
    BY <2>3, <2>4 DEF ReaderOK
  <2>6. R(s) \in Seq(Reader) /\ Len(R(s)) = n
    BY <2>1, <2>5, FunctionIsSeq
  <2>7. \A i \in 1..n : ReaderOK(R(s)[i]) /\ Rest(R(s)[i]) = x(i)
    BY <2>3, <2>5
  <2>. QED
    BY <2>6, <2>7 DEF n, x
<1>3. S = [s \in 1..m |-> Thread(R(s))]
  BY DEF OpenedStreams
<1>. HIDE DEF R
<1>4. ASSUME NEW s \in 1..m
      PROVE  /\ Thread(R(s)) \in ThreadRec /\ Thread(R(s)).readers = R(s)
             /\ Thread(R(s)).at = "pick" /\ Thread(R(s)).msg = <<>>
  <2>1. R(s) \in Seq(Reader)
    BY <1>2
  <2>. QED
    BY <2>1 DEF Thread, ThreadRec
<1>5. S \in [1..m -> ThreadRec] /\ \A s \in 1..m : S[s] = Thread(R(s))
  BY <1>3, <1>4
<1>6. S \in Seq(ThreadRec) /\ Len(S) = m
  BY <1>5, FunctionIsSeq
<1>7. ASSUME NEW s \in 1..m
      PROVE  /\ ReadersOK(S[s]) /\ S[s].at = "pick" /\ S[s].msg = <<>>
             /\ Len(S[s].readers) = NumFiles(Len(F), s, m)
             /\ \A i \in 1..NumFiles(Len(F), s, m) : Rest(S[s].readers[i]) = F[s + (i - 1) * m]
  <2>1. S[s].readers = R(s) /\ S[s].at = "pick" /\ S[s].msg = <<>>
    BY <1>4, <1>5
  <2>. QED
    BY <1>2, <2>1 DEF ReadersOK
<1>. QED
  BY <1>6, <1>7

NoMessages(m) == [s \in 1..m |-> <<>>]

(* The boxes of the sort are the boxes of the merge.                       *)
LEMMA BoxesOpened ==
  ASSUME NEW b, NEW a, NEW w, NEW F, SortOK(b, a, 0, w, F), w.state = "idle",
         NEW m \in Nat \ {0}, NEW works \in BOOLEAN,
         NEW S, S = OpenedStreams(F, m, works)
  PROVE  LET B == SortBoxes(b, a, 0, w, F)
             C == MergeBoxes(S, NoMessages(m), NoMessages(m))
         IN  /\ MergeOK(S, NoMessages(m), NoMessages(m))
             /\ Contents(C) = Contents(B) /\ (Distinct(B) => Distinct(C))
             /\ (\A i \in 1..Len(F) : Ascending(F[i])) => Ordered(C)
<1>. DEFINE B == SortBoxes(b, a, 0, w, F)  z == NoMessages(m)  C == MergeBoxes(S, z, z)
            f == [c \in Nat \X Int |-> c[1] + (c[2] - 1) * m]  N(s) == NumFiles(Len(F), s, m)
<1>1. F \in Seq(Seq(Items)) /\ Len(F) \in Nat
  BY LenProperties DEF SortOK
<1>2. /\ S \in Seq(ThreadRec) /\ Len(S) = m
      /\ \A s \in 1..m : /\ ReadersOK(S[s]) /\ S[s].msg = <<>> /\ Len(S[s].readers) = N(s)
                         /\ \A i \in 1..N(s) : Rest(S[s].readers[i]) = F[s + (i - 1) * m]
  <2>. HIDE DEF B, C, z, f, N
  <2>1. /\ S \in Seq(ThreadRec) /\ Len(S) = m
        /\ \A s \in 1..m : /\ ReadersOK(S[s]) /\ S[s].at = "pick" /\ S[s].msg = <<>>
                           /\ Len(S[s].readers) = NumFiles(Len(F), s, m)
                           /\ \A i \in 1..NumFiles(Len(F), s, m) :
                                Rest(S[s].readers[i]) = F[s + (i - 1) * m]
    BY <1>1, OpenedOK
  <2>2. ASSUME NEW s \in 1..m
        PROVE  /\ ReadersOK(S[s]) /\ S[s].msg = <<>> /\ Len(S[s].readers) = N(s)
               /\ \A i \in 1..N(s) : Rest(S[s].readers[i]) = F[s + (i - 1) * m]
    BY <2>1 DEF N
  <2>. QED
    BY <2>1, <2>2
<1>3. /\ z \in [1..m -> Seq(Seq(Items))] /\ z \in [1..m -> Seq(Items)]
      /\ \A s \in 1..m : z[s] = <<>> /\ Len(z[s]) = 0
  BY DEF NoMessages
<1>. HIDE DEF z
<1>4. MergeOK(S, z, z)
  BY <1>2, <1>3 DEF MergeOK
<1>5. AreMerge(C, S, z, z) /\ Grid(C)
  BY <1>4, MergeBoxesAre, MergeGrid
<1>6. AreBoxes(B, b, a, 0, w, F)
  BY SortBoxesAre
<1>. HIDE DEF B, C, N
<1>7. /\ \A s \in 1..m : N(s) \in Nat
      /\ \A s \in 1..m : \A i \in 1..N(s) : s + (i - 1) * m \in 1..Len(F)
      /\ \A c \in 1..Len(F) : \E s \in 1..m : \E i \in 1..N(s) : c = s + (i - 1) * m
  BY <1>1, FilesShared DEF N
<1>8. ASSUME NEW s \in 1..m, NEW i \in 1..N(s)
      PROVE  C[<<s, i>>] = F[s + (i - 1) * m] /\ <<s, i>> \in DOMAIN C
  <2>1. i \in Nat \ {0} /\ s \in Nat /\ i <= N(s)
    BY <1>7
  <2>2. C[<<s, i>>] = Coming(S[s], i)
    BY <1>2, <1>5, <2>1 DEF AreMerge
  <2>3. Coming(S[s], i) = Rest(S[s].readers[i])
    BY <1>2, <2>1 DEF Coming
  <2>. QED
    BY <1>2, <1>5, <2>1, <2>2, <2>3, GridIs
<1>9. ASSUME NEW s \in Nat, NEW i \in Int, ~(s \in 1..m /\ i \in 1..N(s))
      PROVE  C[<<s, i>>] = <<>>
  <2>1. CASE s \notin 1..m
    BY <1>2, <1>5, <2>1 DEF AreMerge
  <2>2. CASE s \in 1..m /\ i = 0
    BY <1>2, <1>3, <1>5, <2>2 DEF AreMerge
  <2>3. CASE s \in 1..m /\ i \in Nat \ {0}
    <3>1. C[<<s, i>>] = Coming(S[s], i)
      BY <1>2, <1>5, <2>3 DEF AreMerge
    <3>2. ~(i <= N(s))
      BY <1>7, <1>9, <2>3
    <3>3. Coming(S[s], i) = <<>>
      BY <1>2, <2>3, <3>2 DEF Coming
    <3>. QED
      BY <3>1, <3>3
  <2>4. ASSUME s \in 1..m, NEW k \in Nat \ {0}, i = -k PROVE C[<<s, i>>] = <<>>
    <3>1. C[<<s, -k>>] = Waiting(S[s], z[s], k)
      BY <1>2, <1>5, <2>4 DEF AreMerge
    <3>2. Waiting(S[s], z[s], k) = <<>>
      <4>0. Len(z[s]) = 0 /\ S[s].msg = <<>>
        BY <1>2, <1>3, <2>4
      <4>1. ~(k <= Len(z[s])) /\ S[s].msg = <<>>
        BY <4>0
      <4>. QED
        BY <4>1 DEF Waiting
    <3>. QED
      BY <2>4, <3>1, <3>2
  <2>. QED
    BY <2>1, <2>2, <2>3, <2>4, Signs
<1>10. ASSUME NEW c \in 1..Len(F) PROVE B[c] = F[c] /\ c \in DOMAIN B
  <2>1. c \in Int /\ c # 0 /\ DOMAIN B = Int
    BY <1>6 DEF AreBoxes
  <2>. QED
    BY <1>6, <2>1 DEF AreBoxes
<1>11. ASSUME NEW c \in Int, c \notin 1..Len(F) PROVE B[c] = <<>>
  <2>1. CASE c = 0
    <3>1. B[0] \in Seq(Items) /\ Len(B[0]) = 0
      BY <1>6, BlockBox
    <3>. QED
      BY <2>1, <3>1, EmptyIs
  <2>2. CASE c \in Nat \ {0}
    BY <1>6, <1>11, <2>2, FileBox
  <2>3. ASSUME NEW k \in Nat \ {0}, c = -k PROVE B[c] = <<>>
    <3>1. B[-k] = IF k \in Threads THEN Pending(b, w, k) ELSE <<>>
      BY <1>6, PendingBox
    <3>. QED
      BY <2>3, <3>1 DEF Pending
  <2>. QED
    BY <2>1, <2>2, <2>3, Signs
<1>12. ASSUME NEW s \in Nat, NEW i \in Int PROVE f[<<s, i>>] = s + (i - 1) * m
  OBVIOUS
<1>. HIDE DEF f
<1>13. Renames(B, C, f)
  <2>1. ASSUME NEW c \in DOMAIN C, Len(C[c]) # 0
        PROVE  \E s \in 1..m : \E i \in 1..N(s) : c = <<s, i>>
    <3>1. PICK s \in Nat, i \in Int : c = <<s, i>>
      BY <1>5, GridIs
    <3>2. C[<<s, i>>] # <<>>
      BY <2>1, <3>1
    <3>3. s \in 1..m /\ i \in 1..N(s)
      BY <1>9, <3>2
    <3>. QED
      BY <3>1, <3>3
  <2>2. ASSUME NEW s \in 1..m, NEW i \in 1..N(s) PROVE f[<<s, i>>] = s + (i - 1) * m
    BY <1>7, <1>12
  <2>3. ASSUME NEW c \in DOMAIN C, Len(C[c]) # 0 PROVE f[c] \in DOMAIN B /\ C[c] = B[f[c]]
    <3>1. PICK s \in 1..m : \E i \in 1..N(s) : c = <<s, i>>
      BY <2>1, <2>3
    <3>2. PICK i \in 1..N(s) : c = <<s, i>>
      BY <3>1
    <3>3. f[<<s, i>>] \in 1..Len(F) /\ C[<<s, i>>] = F[f[<<s, i>>]]
      BY <1>7, <1>8, <2>2
    <3>. QED
      BY <1>10, <3>2, <3>3
  <2>4. ASSUME NEW c \in DOMAIN C, NEW d \in DOMAIN C, Len(C[c]) # 0, Len(C[d]) # 0, f[c] = f[d]
        PROVE  c = d
    <3>1. PICK s \in 1..m : \E i \in 1..N(s) : c = <<s, i>>
      BY <2>1, <2>4
    <3>2. PICK i \in 1..N(s) : c = <<s, i>>
      BY <3>1
    <3>3. PICK t \in 1..m : \E j \in 1..N(t) : d = <<t, j>>
      BY <2>1, <2>4
    <3>4. PICK j \in 1..N(t) : d = <<t, j>>
      BY <3>3
    <3>5. s + (i - 1) * m = t + (j - 1) * m
      BY <2>2, <2>4, <3>2, <3>4
    <3>. DEFINE x == i - 1  y == j - 1
    <3>6. x \in Nat /\ y \in Nat /\ (x = y => i = j)
      BY <1>7
    <3>. HIDE DEF x, y
    <3>7. s + x * m = t + y * m
      BY <3>5 DEF x, y
    <3>8. s = t /\ x = y
      BY <3>6, <3>7, FilesApart
    <3>. QED
      BY <3>2, <3>4, <3>6, <3>8
  <2>5. ASSUME NEW c \in DOMAIN B, Len(B[c]) # 0 PROVE \E d \in DOMAIN C : C[d] = B[c]
    <3>1. c \in Int
      BY <1>6 DEF AreBoxes
    <3>2. c \in 1..Len(F)
      <4>1. B[c] # <<>>
        BY <2>5
      <4>. QED
        BY <1>11, <3>1, <4>1
    <3>3. PICK s \in 1..m : \E i \in 1..N(s) : c = s + (i - 1) * m
      BY <1>7, <3>2
    <3>4. PICK i \in 1..N(s) : c = s + (i - 1) * m
      BY <3>3
    <3>. QED
      BY <1>8, <1>10, <3>2, <3>4
  <2>. QED
    BY <2>3, <2>4, <2>5 DEF Renames
<1>14. Contents(C) = Contents(B) /\ (Distinct(B) => Distinct(C))
  <2>1. Lens(B) /\ Lens(C)
    BY <1>5, <1>6, GridIs DEF AreBoxes
  <2>. QED
    BY <1>13, <2>1, BoxesRenamed
<1>15. ASSUME \A i \in 1..Len(F) : Ascending(F[i]) PROVE Ordered(C)
  <2>1. ASSUME NEW s \in Nat, NEW i \in Int
        PROVE  Ascending(C[<<s, i>>]) /\ (i <= 0 => C[<<s, i>>] = <<>>)
    <3>1. CASE s \in 1..m /\ i \in 1..N(s)
      <4>1. C[<<s, i>>] = F[s + (i - 1) * m] /\ s + (i - 1) * m \in 1..Len(F) /\ ~(i <= 0)
        BY <1>7, <1>8, <3>1
      <4>. QED
        BY <1>15, <4>1
    <3>2. CASE ~(s \in 1..m /\ i \in 1..N(s))
      <4>1. C[<<s, i>>] = <<>>
        BY <1>9, <3>2
      <4>2. Ascending(<<>>)
        BY DEF Ascending
      <4>. QED
        BY <4>1, <4>2
    <3>. QED
      BY <3>1, <3>2
  <2>2. ASSUME NEW s \in Nat PROVE OrderedIn(StreamRow(C, s))
    <3>. DEFINE c == StreamRow(C, s)
    <3>1. \A i \in Int : c[i] = C[<<s, i>>]
      BY DEF StreamRow
    <3>. HIDE DEF c
    <3>2. \A i \in Int : Ascending(c[i]) /\ (i <= 0 => c[i] = <<>>)
      BY <2>1, <3>1
    <3>3. \A q : Below(<<>>, q)
      BY DEF Below
    <3>4. OrderedIn(c)
      BY <3>2, <3>3 DEF OrderedIn
    <3>. QED
      BY <3>4 DEF c
  <2>. QED
    BY <2>2 DEF Ordered
<1>. QED
  BY <1>4, <1>14, <1>15 DEF B, C, z

-----------------------------------------------------------------------------
(* The merge stays in order, step by step.                                 *)
MergeGood(S, q, h, f, type) ==
  /\ MergeOK(S, q, h) /\ Len(S) <= MaxStreams /\ f \in [1..Len(S) -> BOOLEAN]
  /\ Ordered(MergeBoxes(S, q, h))
  /\ \A s \in 1..Len(S) :
       ThreadOK(S[s], q[s], h[s], f[s], type) /\ MsgFits(S[s]) /\ Len(q[s]) <= QueueSize

KeysOnce(B) ==
  \A c, d \in DOMAIN B : \A k \in 1..Len(B[c]), l \in 1..Len(B[d]) :
    B[c][k].key = B[d][l].key => c = d /\ k = l

LEMMA OrderedAfter ==
  ASSUME NEW B, NEW C, NEW s \in Nat, Ordered(B), OrderedIn(StreamRow(C, s)),
         \A r \in Nat \ {s}, i \in Int : C[<<r, i>>] = B[<<r, i>>]
  PROVE  Ordered(C)
<1>1. ASSUME NEW r \in Nat PROVE OrderedIn(StreamRow(C, r))
  <2>1. CASE r = s
    BY <2>1
  <2>2. CASE r # s
    <3>1. StreamRow(C, r) = StreamRow(B, r)
      BY <2>2 DEF StreamRow
    <3>. QED
      BY <3>1 DEF Ordered
  <2>. QED
    BY <2>1, <2>2
<1>. QED
  BY <1>1 DEF Ordered

LEMMA MovedFollows ==
  ASSUME NEW B, NEW C, Grid(B), Grid(C), NEW s \in Nat, NEW i, NEW j,
         MovesHead(B, C, <<s, i>>, <<s, j>>), RowMoves(StreamRow(B, s), StreamRow(C, s), i, j),
         \A r \in Nat \ {s}, k \in Int : C[<<r, k>>] = B[<<r, k>>]
  PROVE  BoxesFollow(B, C)
<1>. DEFINE x == <<s, i>>  y == <<s, j>>
<1>1. Contents(C) = Contents(B) /\ (Distinct(B) => Distinct(C))
  <2>1. Lens(B)
    BY GridIs
  <2>. QED
    BY <2>1, HeadMoved
<1>. DEFINE b == StreamRow(B, s)  c == StreamRow(C, s)
<1>2. /\ \A k \in Int : b[k] = B[<<s, k>>] /\ c[k] = C[<<s, k>>]
      /\ Rows(b)
  BY GridIs
<1>3. RowMoves(b, c, i, j)
  OBVIOUS
<1>. HIDE DEF b, c
<1>4. ASSUME NEW k \in Int, NEW m \in 1..Len(c[k])
      PROVE  \E n \in Int : \E l \in 1..Len(b[n]) : c[k][m] = b[n][l]
  <2>1. /\ i \in Int /\ j \in Int /\ Len(b[i]) # 0 /\ Len(c[i]) = Len(b[i]) - 1
        /\ \A l \in 1..Len(c[i]) : c[i][l] = b[i][l + 1]
        /\ c[j] = Append(b[j], b[i][1])
        /\ \A n \in Int \ {i, j} : c[n] = b[n]
    BY <1>3 DEF RowMoves
  <2>2. b[i] \in Seq(Items) /\ b[j] \in Seq(Items) /\ Len(b[i]) \in Nat \ {0}
    BY <1>2, <2>1, LenProperties DEF Rows
  <2>3. CASE k = i
    <3>1. m + 1 \in 1..Len(b[i])
      BY <2>1, <2>2, <2>3
    <3>2. c[i][m] = b[i][m + 1]
      BY <2>1, <2>3
    <3>. QED
      BY <2>1, <2>3, <3>1, <3>2
  <2>4. CASE k = j
    <3>1. 1 \in 1..Len(b[i])
      BY <2>2
    <3>2. b[i][1] \in Items
      BY <2>2, <3>1, ElementOfSeq
    <3>3. /\ Len(c[j]) = Len(b[j]) + 1 /\ \A l \in 1..Len(b[j]) : c[j][l] = b[j][l]
          /\ c[j][Len(b[j]) + 1] = b[i][1] /\ Len(b[j]) \in Nat
      BY <2>1, <2>2, <3>2, AppendIs
    <3>4. m \in 1..Len(b[j]) \/ m = Len(b[j]) + 1
      BY <2>4, <3>3
    <3>5. CASE m \in 1..Len(b[j])
      BY <2>1, <2>4, <3>3, <3>5
    <3>6. CASE m = Len(b[j]) + 1
      BY <2>1, <2>4, <3>1, <3>3, <3>6
    <3>. QED
      BY <3>4, <3>5, <3>6
  <2>5. CASE k \in Int \ {i, j}
    <3>1. c[k] = b[k]
      BY <2>1, <2>5
    <3>. QED
      BY <3>1
  <2>. QED
    BY <2>3, <2>4, <2>5
<1>5. ASSUME NEW r \in Nat, NEW k \in Int, NEW m \in 1..Len(C[<<r, k>>])
      PROVE  \E n \in Int : \E l \in 1..Len(B[<<r, n>>]) : C[<<r, k>>][m] = B[<<r, n>>][l]
  <2>1. CASE r = s
    <3>1. m \in 1..Len(c[k])
      BY <1>2, <2>1
    <3>2. PICK n \in Int : \E l \in 1..Len(b[n]) : c[k][m] = b[n][l]
      BY <1>4, <3>1
    <3>3. b[n] = B[<<s, n>>] /\ c[k] = C[<<s, k>>]
      BY <1>2
    <3>. QED
      BY <2>1, <3>2, <3>3
  <2>2. CASE r # s
    <3>1. C[<<r, k>>] = B[<<r, k>>]
      BY <2>2
    <3>. QED
      BY <3>1
  <2>. QED
    BY <2>1, <2>2
<1>. QED
  BY <1>1, <1>5 DEF BoxesFollow, RowsFrom

(* One stream changes.                                                     *)
Changed(S, q, h, f, S2, q2, h2, f2, s) ==
  /\ MergeOK(S2, q2, h2) /\ f2 \in [1..Len(S) -> BOOLEAN]
  /\ OnlyStream(S, q, h, S2, q2, h2, s)
  /\ \A r \in 1..Len(S) \ {s} : f2[r] = f[r]

With(F, s, x) == [F EXCEPT ![s] = x]

ThreadFits(t, v, x, y) ==
  t \in ThreadRec /\ ReadersOK(t) /\ v \in Seq(Seq(Items)) /\ x \in Seq(Items) /\ y \in BOOLEAN

LEMMA StreamChanged ==
  ASSUME NEW S, NEW q, NEW h, NEW f, MergeOK(S, q, h), f \in [1..Len(S) -> BOOLEAN],
         NEW s \in 1..Len(S), NEW t, NEW v, NEW x, NEW y, ThreadFits(t, v, x, y)
  PROVE  /\ Changed(S, q, h, f, With(S, s, t), With(q, s, v), With(h, s, x), With(f, s, y), s)
         /\ With(S, s, t)[s] = t /\ With(q, s, v)[s] = v /\ With(h, s, x)[s] = x /\ With(f, s, y)[s] = y
<1>. DEFINE S2 == With(S, s, t)  q2 == With(q, s, v)  h2 == With(h, s, x)  f2 == With(f, s, y)
<1>1. /\ S \in Seq(ThreadRec) /\ Len(S) \in Nat
      /\ q \in [1..Len(S) -> Seq(Seq(Items))] /\ h \in [1..Len(S) -> Seq(Items)]
      /\ \A r \in 1..Len(S) : ReadersOK(S[r])
  BY LenProperties DEF MergeOK
<1>0. t \in ThreadRec /\ ReadersOK(t) /\ v \in Seq(Seq(Items)) /\ x \in Seq(Items) /\ y \in BOOLEAN
  BY DEF ThreadFits
<1>2. /\ S2 \in Seq(ThreadRec) /\ Len(S2) = Len(S) /\ S2[s] = t
      /\ \A r \in 1..Len(S) \ {s} : S2[r] = S[r]
  BY <1>0, <1>1 DEF With
<1>3. q2 \in [1..Len(S) -> Seq(Seq(Items))] /\ q2[s] = v /\ \A r \in 1..Len(S) \ {s} : q2[r] = q[r]
  BY <1>0, <1>1 DEF With
<1>4. h2 \in [1..Len(S) -> Seq(Items)] /\ h2[s] = x /\ \A r \in 1..Len(S) \ {s} : h2[r] = h[r]
  BY <1>0, <1>1 DEF With
<1>5. f2 \in [1..Len(S) -> BOOLEAN] /\ f2[s] = y /\ \A r \in 1..Len(S) \ {s} : f2[r] = f[r]
  BY <1>0 DEF With
<1>. HIDE DEF S2, q2, h2, f2
<1>6. \A r \in 1..Len(S) : ReadersOK(S2[r])
  BY <1>0, <1>1, <1>2
<1>7. MergeOK(S2, q2, h2)
  BY <1>2, <1>3, <1>4, <1>6 DEF MergeOK
<1>8. OnlyStream(S, q, h, S2, q2, h2, s)
  BY <1>1, <1>2, <1>3, <1>4 DEF OnlyStream
<1>9. Changed(S, q, h, f, S2, q2, h2, f2, s)
  BY <1>5, <1>7, <1>8 DEF Changed
<1>. QED
  BY <1>2, <1>3, <1>4, <1>5, <1>9 DEF S2, q2, h2, f2

LEMMA Unchanged ==
  ASSUME NEW n, NEW T, NEW F \in [1..n -> T], NEW s \in 1..n
  PROVE  With(F, s, F[s]) = F
BY DEF With

LEMMA GoodChanged ==
  ASSUME NEW S, NEW q, NEW h, NEW f, NEW type, MergeGood(S, q, h, f, type),
         NEW S2, NEW q2, NEW h2, NEW f2, NEW s, Changed(S, q, h, f, S2, q2, h2, f2, s),
         ThreadOK(S2[s], q2[s], h2[s], f2[s], type), MsgFits(S2[s]), Len(q2[s]) <= QueueSize,
         Ordered(MergeBoxes(S2, q2, h2))
  PROVE  MergeGood(S2, q2, h2, f2, type)
<1>1. /\ MergeOK(S2, q2, h2) /\ f2 \in [1..Len(S2) -> BOOLEAN] /\ Len(S2) = Len(S)
      /\ \A r \in 1..Len(S) \ {s} : S2[r] = S[r] /\ q2[r] = q[r] /\ h2[r] = h[r] /\ f2[r] = f[r]
  BY DEF Changed, OnlyStream
<1>2. /\ Len(S) <= MaxStreams
      /\ \A r \in 1..Len(S) : ThreadOK(S[r], q[r], h[r], f[r], type) /\ MsgFits(S[r]) /\ Len(q[r]) <= QueueSize
  BY DEF MergeGood
<1>3. ASSUME NEW r \in 1..Len(S2)
      PROVE  ThreadOK(S2[r], q2[r], h2[r], f2[r], type) /\ MsgFits(S2[r]) /\ Len(q2[r]) <= QueueSize
  <2>1. CASE r = s
    BY <2>1
  <2>2. CASE r # s
    <3>1. S2[r] = S[r] /\ q2[r] = q[r] /\ h2[r] = h[r] /\ f2[r] = f[r] /\ r \in 1..Len(S)
      BY <1>1, <2>2
    <3>. QED
      BY <1>2, <3>1
  <2>. QED
    BY <2>1, <2>2
<1>. QED
  BY <1>1, <1>2, <1>3 DEF MergeGood

(* A thread that took an entry, or did not.                                *)
AllAfter(t, i, x, type) ==
  \A j \in 1..Len(t.readers) : \A l \in 1..Len(Rest(t.readers[j])) : ~(j = i /\ l = 1) =>
    /\ x <= Rest(t.readers[j])[l].key
    /\ type = "moves" => x < Rest(t.readers[j])[l].key

LEMMA ThreadTaken ==
  ASSUME NEW t, NEW t2 \in ThreadRec, ReadersOK(t2), NEW i, TakesOne(t, t2, i), Sending(t2),
         NEW q, NEW h, NEW f, NEW type, ThreadOK(t, q, h, f, type), t.at # "done",
         t.msg \in Seq(Items),
         t2.from \in 1..Len(t.readers), t2.last \in Items,
         AllAfter(t, i, t2.last.key, type)
  PROVE  ThreadOK(t2, q, h, f, type)
<1>1. /\ i \in 1..Len(t.readers) /\ Len(t2.readers) = Len(t.readers)
      /\ \A j \in 1..Len(t.readers) \ {i} : Rest(t2.readers[j]) = Rest(t.readers[j])
      /\ Len(Rest(t.readers[i])) \in Nat \ {0} /\ Rest(t.readers[i])[1] \in Items
      /\ Len(Rest(t2.readers[i])) = Len(Rest(t.readers[i])) - 1
      /\ \A k \in 1..Len(Rest(t.readers[i])) - 1 : Rest(t2.readers[i])[k] = Rest(t.readers[i])[k + 1]
      /\ t2.msg = Append(t.msg, Rest(t.readers[i])[1])
  BY DEF TakesOne
<1>2. ASSUME NEW j \in 1..Len(t2.readers), NEW l \in 1..Len(Rest(t2.readers[j]))
      PROVE  /\ t2.last.key <= Rest(t2.readers[j])[l].key
             /\ type = "moves" => t2.last.key < Rest(t2.readers[j])[l].key
  <2>1. CASE j = i
    <3>. DEFINE p == l + 1
    <3>1. l \in 1..Len(Rest(t.readers[i])) - 1 /\ p \in 1..Len(Rest(t.readers[i])) /\ p # 1
      BY <1>1, <2>1
    <3>2. Rest(t2.readers[i])[l] = Rest(t.readers[i])[p]
      BY <1>1, <3>1
    <3>. HIDE DEF p
    <3>. QED
      BY <1>1, <2>1, <3>1, <3>2 DEF AllAfter
  <2>2. CASE j # i
    <3>1. Rest(t2.readers[j]) = Rest(t.readers[j]) /\ j \in 1..Len(t.readers)
      BY <1>1, <2>2
    <3>. QED
      BY <2>2, <3>1 DEF AllAfter
  <2>. QED
    BY <2>1, <2>2
<1>3. ~Ending(t2) /\ t2.at # "done" /\ ~(t2.at = "send" /\ t2.then = "done")
  BY DEF Sending, Ending
<1>4. t2.msg # <<>>
  <2>1. t2.msg \in Seq(Items) /\ Len(t2.msg) = Len(t.msg) + 1 /\ Len(t.msg) \in Nat
    BY <1>1, AppendIs
  <2>2. Len(t2.msg) # 0
    BY <2>1
  <2>. QED
    BY <2>1, <2>2, EmptyIs
<1>5. /\ \A j \in 1..Len(q) : q[j] # <<>>
      /\ ~f
  BY DEF ThreadOK
<1>. QED
  BY <1>1, <1>2, <1>3, <1>4, <1>5 DEF ThreadOK, ReadersOK

LEMMA ThreadEnding ==
  ASSUME NEW t, NEW t2, ReadersOK(t2), KeepsAll(t, t2),
         NEW q, NEW h, NEW f, NEW type, ThreadOK(t, q, h, f, type), t.at # "done",
         \A i \in 1..Len(t.readers) : Rest(t.readers[i]) = <<>>,
         t2.at = "send", t2.then = IF t.msg = <<>> THEN "done" ELSE "end"
  PROVE  ThreadOK(t2, q, h, f, type)
<1>1. ~Sending(t2) /\ t2.at # "done"
  BY DEF Sending
<1>2. \A i \in 1..Len(t2.readers) : Rest(t2.readers[i]) = <<>>
  BY DEF KeepsAll, KeepsRests
<1>3. t2.msg = t.msg
  BY DEF KeepsAll
<1>4. /\ \A j \in 1..Len(q) : q[j] # <<>>
      /\ ~f
  BY DEF ThreadOK
<1>. QED
  BY <1>1, <1>2, <1>3, <1>4 DEF ThreadOK, ReadersOK

LEMMA ThreadPicks ==
  ASSUME NEW t, NEW t2, ReadersOK(t2), t2.at = "pick",
         NEW q, NEW h, NEW f, NEW type, ThreadOK(t, q, h, f, type), t.at # "done"
  PROVE  ThreadOK(t2, q, h, f, type)
<1>1. ~Sending(t2) /\ ~Ending(t2)
  BY DEF Sending, Ending
<1>2. /\ \A j \in 1..Len(q) : q[j] # <<>>
      /\ ~f
  BY DEF ThreadOK
<1>. QED
  BY <1>1, <1>2 DEF ThreadOK, ReadersOK

LEMMA ThreadSent ==
  ASSUME NEW t \in ThreadRec, ReadersOK(t), NEW q \in Seq(Seq(Items)), NEW h, NEW f, NEW type,
         ThreadOK(t, q, h, f, type), t.at = "send",
         NEW t2, t2 = SentThread(t), NEW q2, q2 = Append(q, t.msg)
  PROVE  ThreadOK(t2, q2, h, f, type)
<1>1. /\ ReadersOK(t2) /\ t2.readers = t.readers /\ t2.msg = <<>>
      /\ t2.last = t.last /\ t2.from = t.from /\ t2.then = "done"
      /\ t2.at = IF t.then = "end" THEN "send" ELSE t.then
      /\ t.msg \in Seq(Items) /\ t.then \in {"same", "end", "done"}
  BY SentIs DEF ThreadRec
<1>2. /\ Sending(t2) => Sending(t)
      /\ Ending(t2) => Ending(t)
  BY <1>1 DEF Sending, Ending
<1>3. t2.at = "send" => t2.then = "done"
  BY <1>1
<1>4. /\ \A j \in 1..Len(q) : q[j] # <<>>
      /\ ~f
  BY DEF ThreadOK
<1>5. (t.then = "done" => t.msg = <<>>) /\ (t.then # "done" => t.msg # <<>>)
  BY DEF ThreadOK
<1>6. ASSUME NEW j \in 1..Len(q2), q2[j] = <<>> PROVE j = Len(q2) /\ t2.at = "done"
  <2>1. /\ Len(q2) = Len(q) + 1 /\ \A k \in 1..Len(q) : q2[k] = q[k]
        /\ q2[Len(q) + 1] = t.msg /\ Len(q) \in Nat
    BY <1>1, AppendIs
  <2>2. j \notin 1..Len(q)
    BY <1>4, <1>6, <2>1
  <2>3. j = Len(q) + 1
    BY <2>1, <2>2
  <2>. QED
    BY <1>1, <1>5, <1>6, <2>1, <2>3
<1>7. Sending(t) =>
        /\ t.from \in 1..Len(t.readers) /\ t.last \in Items
        /\ \A i \in 1..Len(t.readers) : \A l \in 1..Len(Rest(t.readers[i])) :
             /\ t.last.key <= Rest(t.readers[i])[l].key
             /\ type = "moves" => t.last.key < Rest(t.readers[i])[l].key
  BY DEF ThreadOK
<1>8. Ending(t) => \A i \in 1..Len(t.readers) : Rest(t.readers[i]) = <<>>
  BY DEF ThreadOK
<1>. QED
  BY <1>1, <1>2, <1>3, <1>4, <1>6, <1>7, <1>8 DEF ThreadOK, ReadersOK

LEMMA ThreadReceived ==
  ASSUME NEW t, NEW q \in Seq(Seq(Items)), q # <<>>, NEW h, NEW f, NEW type, ThreadOK(t, q, h, f, type),
         NEW q2, q2 = Tail(q), NEW h2, h2 = Head(q), NEW f2, f2 => Head(q) = <<>>
  PROVE  ThreadOK(t, q2, h2, f2, type)
<1>1. /\ Head(q) = q[1] /\ q2 \in Seq(Seq(Items)) /\ Len(q2) = Len(q) - 1 /\ Len(q) \in Nat \ {0}
      /\ \A i \in 1..Len(q) - 1 : q2[i] = q[i + 1]
  BY TailIs
<1>0. Len(q2) = Len(q) - 1 /\ Len(q) \in Nat
  BY <1>1
<1>5. q2 \in Seq(Seq(Items))
  BY <1>1
<1>2. \A j \in 1..Len(q) : q[j] = <<>> => j = Len(q) /\ t.at = "done"
  BY DEF ThreadOK
<1>3. ASSUME NEW j \in 1..Len(q2), q2[j] = <<>> PROVE j = Len(q2) /\ t.at = "done"
  <2>1. j \in 1..Len(q) - 1 /\ j + 1 \in 1..Len(q)
    BY <1>1
  <2>2. q[j + 1] = <<>>
    BY <1>1, <1>3, <2>1
  <2>3. j + 1 = Len(q) /\ t.at = "done"
    BY <1>2, <2>1, <2>2
  <2>4. j = Len(q2)
    <3>. DEFINE n == Len(q)  m == Len(q2)
    <3>1. j + 1 = n /\ j \in Int
      BY <2>1, <2>3
    <3>3. m = n - 1 /\ n \in Nat
      BY <1>0
    <3>. HIDE DEF n, m
    <3>2. j = m
      BY <3>1, <3>3
    <3>. QED
      BY <3>2 DEF m
  <2>. QED
    BY <2>3, <2>4
<1>4. ASSUME f2 PROVE q2 = <<>> /\ h2 = <<>> /\ t.at = "done"
  <2>1. q[1] = <<>> /\ 1 \in 1..Len(q)
    BY <1>1, <1>4
  <2>2. 1 = Len(q) /\ t.at = "done"
    BY <1>2, <2>1
  <2>3. q2 = <<>>
    <3>. DEFINE n == Len(q)  m == Len(q2)
    <3>0. 1 = n
      BY <2>2
    <3>2. m = n - 1 /\ n \in Nat
      BY <1>0
    <3>3. m = 0
      <4>. HIDE DEF n, m
      <4>. QED
        BY <3>0, <3>2
    <3>1. Len(q2) = 0
      BY <3>3
    <3>. QED
      BY <1>5, <3>1, EmptyIs
  <2>. QED
    BY <1>4, <2>2, <2>3
<1>. QED
  BY <1>3, <1>4 DEF ThreadOK

LEMMA ThreadRemoved ==
  ASSUME NEW t, NEW q, NEW h, h # <<>>, NEW f, NEW type, ThreadOK(t, q, h, f, type), NEW h2
  PROVE  ThreadOK(t, q, h2, f, type)
BY DEF ThreadOK

-----------------------------------------------------------------------------
(* A stream takes an entry into its message.                               *)
LEMMA OneTaken ==
  ASSUME NEW S, NEW q, NEW h, NEW f, NEW type, MergeGood(S, q, h, f, type),
         NEW s \in 1..Len(S), NEW t \in ThreadRec, ReadersOK(t), MsgFits(t),
         ThreadOK(t, q[s], h[s], f[s], type),
         NEW S2, S2 = With(S, s, t), NEW i, TakesOne(S[s], t, i),
         \A j \in 1..Len(S[s].readers) : \A l \in 1..Len(Rest(S[s].readers[j])) :
           Rest(S[s].readers[i])[1].key <= Rest(S[s].readers[j])[l].key
  PROVE  /\ MergeGood(S2, q, h, f, type)
         /\ BoxesFollow(MergeBoxes(S, q, h), MergeBoxes(S2, q, h))
<1>1. /\ MergeOK(S, q, h) /\ f \in [1..Len(S) -> BOOLEAN] /\ Ordered(MergeBoxes(S, q, h))
      /\ Len(q[s]) <= QueueSize
  BY DEF MergeGood
<1>2. ThreadFits(t, q[s], h[s], f[s])
  BY <1>1 DEF MergeOK, ThreadFits
<1>0. With(q, s, q[s]) = q /\ With(h, s, h[s]) = h /\ With(f, s, f[s]) = f
  BY <1>1, Unchanged DEF MergeOK
<1>3. Changed(S, q, h, f, S2, q, h, f, s) /\ S2[s] = t
  <2>1. /\ Changed(S, q, h, f, With(S, s, t), With(q, s, q[s]), With(h, s, h[s]), With(f, s, f[s]), s)
        /\ With(S, s, t)[s] = t
    BY <1>1, <1>2, StreamChanged
  <2>. QED
    BY <1>0, <2>1
<1>4. MergeOK(S2, q, h) /\ OnlyStream(S, q, h, S2, q, h, s)
  BY <1>3 DEF Changed
<1>. DEFINE B == MergeBoxes(S, q, h)  C == MergeBoxes(S2, q, h)  j == -(Len(q[s]) + 1)
<1>5. TakesOne(S[s], S2[s], i)
  BY <1>3
<1>6. /\ MovesHead(B, C, <<s, i>>, <<s, j>>)
      /\ RowMoves(StreamRow(B, s), StreamRow(C, s), i, j)
      /\ \A k \in Int : k < j => B[<<s, k>>] = <<>>
      /\ \A r \in Nat \ {s}, k \in Int : C[<<r, k>>] = B[<<r, k>>]
  <2>1. BoxMoved(B, C, s, i, j)
    BY <1>1, <1>4, <1>5, BoxTaken
  <2>. HIDE DEF B, C, j
  <2>. QED
    BY <2>1 DEF BoxMoved
<1>7. /\ s \in Nat /\ i \in Nat \ {0} /\ Grid(B) /\ Grid(C) /\ AreMerge(B, S, q, h)
      /\ Len(S[s].readers) \in Nat /\ i \in 1..Len(S[s].readers)
  <2>1. S \in Seq(ThreadRec)
    BY <1>1 DEF MergeOK
  <2>2. i \in 1..Len(S[s].readers)
    BY DEF TakesOne
  <2>3. s \in Nat /\ Len(S[s].readers) \in Nat
    BY <2>1, ThreadIs
  <2>4. Grid(B) /\ Grid(C)
    BY <1>1, <1>4, MergeGrid
  <2>5. AreMerge(B, S, q, h)
    BY <1>1, MergeBoxesAre
  <2>. QED
    BY <2>2, <2>3, <2>4, <2>5
<1>. HIDE DEF B, C, j
<1>8. BoxesFollow(B, C)
  BY <1>6, <1>7, MovedFollows
<1>9. ASSUME NEW k \in Nat \ {0} PROVE B[<<s, k>>] = Coming(S[s], k)
  BY <1>7 DEF AreMerge
<1>10. OrderedIn(StreamRow(C, s))
  <2>. DEFINE b == StreamRow(B, s)  c == StreamRow(C, s)
  <2>1. /\ Rows(b) /\ \A k \in Int : b[k] = B[<<s, k>>]
    BY <1>7, GridIs
  <2>2. OrderedIn(b)
    BY <1>1, <1>7 DEF Ordered, B
  <2>3. RowMoves(b, c, i, j)
    BY <1>6
  <2>. HIDE DEF b, c
  <2>4. \A k \in Int : k < j => b[k] = <<>>
    BY <1>6, <2>1
  <2>5. ASSUME NEW k \in Nat \ {0}, NEW y \in 1..Len(b[k]) PROVE b[i][1].key <= b[k][y].key
    <3>0. b[k] = B[<<s, k>>] /\ b[i] = B[<<s, i>>]
      BY <1>7, <2>1
    <3>1. b[k] = Coming(S[s], k) /\ b[i] = Coming(S[s], i)
      BY <1>7, <1>9, <3>0
    <3>2. Coming(S[s], i) = Rest(S[s].readers[i])
      BY <1>7 DEF Coming
    <3>3. CASE k <= Len(S[s].readers)
      <4>1. Coming(S[s], k) = Rest(S[s].readers[k]) /\ k \in 1..Len(S[s].readers)
        BY <1>7, <3>3 DEF Coming
      <4>2. y \in 1..Len(Rest(S[s].readers[k]))
        BY <2>5, <3>1, <4>1
      <4>3. Rest(S[s].readers[i])[1].key <= Rest(S[s].readers[k])[y].key
        BY <4>1, <4>2
      <4>. QED
        BY <3>1, <3>2, <4>1, <4>3
    <3>4. CASE ~(k <= Len(S[s].readers))
      <4>1. b[k] = <<>>
        BY <3>1, <3>4 DEF Coming
      <4>. QED
        BY <2>5, <4>1
    <3>. QED
      BY <3>3, <3>4
  <2>6. OrderedIn(c)
    BY <2>1, <2>2, <2>3, <2>4, <2>5, MovedInOrder
  <2>. QED
    BY <2>6 DEF c
<1>11. Ordered(C)
  BY <1>1, <1>6, <1>7, <1>10, OrderedAfter DEF B
<1>12. ThreadOK(S2[s], q[s], h[s], f[s], type) /\ MsgFits(S2[s])
  BY <1>3
<1>13. MergeGood(S2, q, h, f, type)
  BY <1>1, <1>3, <1>11, <1>12, GoodChanged DEF C
<1>. QED
  BY <1>8, <1>13 DEF B, C

(* A stream does not take any.                                             *)
LEMMA NoneTaken ==
  ASSUME NEW S, NEW q, NEW h, NEW f, NEW type, MergeGood(S, q, h, f, type),
         NEW s \in 1..Len(S), NEW t \in ThreadRec, ReadersOK(t), MsgFits(t),
         ThreadOK(t, q[s], h[s], f[s], type),
         NEW S2, S2 = With(S, s, t), KeepsAll(S[s], t)
  PROVE  /\ MergeGood(S2, q, h, f, type)
         /\ BoxesFollow(MergeBoxes(S, q, h), MergeBoxes(S2, q, h))
<1>1. /\ MergeOK(S, q, h) /\ f \in [1..Len(S) -> BOOLEAN] /\ Ordered(MergeBoxes(S, q, h))
      /\ Len(q[s]) <= QueueSize
  BY DEF MergeGood
<1>2. ThreadFits(t, q[s], h[s], f[s])
  BY <1>1 DEF MergeOK, ThreadFits
<1>0. With(q, s, q[s]) = q /\ With(h, s, h[s]) = h /\ With(f, s, f[s]) = f
  BY <1>1, Unchanged DEF MergeOK
<1>3. Changed(S, q, h, f, S2, q, h, f, s) /\ S2[s] = t
  <2>1. /\ Changed(S, q, h, f, With(S, s, t), With(q, s, q[s]), With(h, s, h[s]), With(f, s, f[s]), s)
        /\ With(S, s, t)[s] = t
    BY <1>1, <1>2, StreamChanged
  <2>. QED
    BY <1>0, <2>1
<1>4. MergeOK(S2, q, h) /\ OnlyStream(S, q, h, S2, q, h, s)
  BY <1>3 DEF Changed
<1>5. MergeBoxes(S2, q, h) = MergeBoxes(S, q, h)
  <2>1. KeepsAll(S[s], S2[s])
    BY <1>3
  <2>. QED
    BY <1>1, <1>4, <2>1, BoxesKept
<1>6. \A B : BoxesFollow(B, B)
  BY DEF BoxesFollow, RowsFrom
<1>7. ThreadOK(S2[s], q[s], h[s], f[s], type) /\ MsgFits(S2[s])
  BY <1>3
<1>8. MergeGood(S2, q, h, f, type)
  BY <1>1, <1>3, <1>5, <1>7, GoodChanged
<1>. QED
  BY <1>5, <1>6, <1>8

LEMMA GoodThread ==
  ASSUME NEW S, NEW q, NEW h, NEW f, NEW type, MergeGood(S, q, h, f, type), NEW s \in 1..Len(S)
  PROVE  /\ S[s] \in ThreadRec /\ ReadersOK(S[s]) /\ MsgFits(S[s])
         /\ ThreadOK(S[s], q[s], h[s], f[s], type)
         /\ \A i \in 1..Len(S[s].readers) : Ascending(Rest(S[s].readers[i]))
         /\ q[s] \in Seq(Seq(Items)) /\ h[s] \in Seq(Items) /\ f[s] \in BOOLEAN
         /\ S[s].msg \in Seq(Items) /\ Len(S[s].readers) \in Nat
         /\ s \in Nat /\ Len(q[s]) \in Nat
         /\ MergeOK(S, q, h) /\ f \in [1..Len(S) -> BOOLEAN]
<1>. DEFINE B == MergeBoxes(S, q, h)
<1>1. /\ MergeOK(S, q, h) /\ f \in [1..Len(S) -> BOOLEAN] /\ Ordered(B)
      /\ ThreadOK(S[s], q[s], h[s], f[s], type) /\ MsgFits(S[s])
  BY DEF MergeGood
<1>2. AreMerge(B, S, q, h)
  BY <1>1, MergeBoxesAre
<1>. HIDE DEF B
<1>3. /\ S \in Seq(ThreadRec) /\ ReadersOK(S[s])
      /\ q[s] \in Seq(Seq(Items)) /\ h[s] \in Seq(Items) /\ f[s] \in BOOLEAN
  BY <1>1 DEF MergeOK
<1>4. /\ S[s] \in ThreadRec /\ S[s].msg \in Seq(Items) /\ Len(S[s].readers) \in Nat /\ s \in Nat
  BY <1>3, ThreadIs
<1>5. ASSUME NEW i \in 1..Len(S[s].readers) PROVE Ascending(Rest(S[s].readers[i]))
  <2>1. i \in Nat \ {0} /\ i <= Len(S[s].readers) /\ i \in Int
    BY <1>4
  <2>2. B[<<s, i>>] = Coming(S[s], i)
    BY <1>2, <2>1 DEF AreMerge
  <2>3. Coming(S[s], i) = Rest(S[s].readers[i])
    BY <2>1 DEF Coming
  <2>4. Ascending(StreamRow(B, s)[i])
    <3>1. OrderedIn(StreamRow(B, s))
      BY <1>1, <1>4 DEF Ordered
    <3>. QED
      BY <2>1, <3>1 DEF OrderedIn
  <2>5. StreamRow(B, s)[i] = B[<<s, i>>]
    BY <2>1 DEF StreamRow
  <2>. QED
    BY <2>2, <2>3, <2>4, <2>5
<1>6. Len(q[s]) \in Nat
  BY <1>3, LenProperties
<1>. QED
  BY <1>1, <1>3, <1>4, <1>5, <1>6

LEMMA PickGood ==
  ASSUME NEW S, NEW q, NEW h, NEW f, NEW type, MergeGood(S, q, h, f, type),
         NEW s \in 1..Len(S), S[s].at = "pick", NEW S2, S2 = With(S, s, PickedThread(S[s])),
         type = "moves" => KeysOnce(MergeBoxes(S, q, h))
  PROVE  /\ MergeGood(S2, q, h, f, type)
         /\ BoxesFollow(MergeBoxes(S, q, h), MergeBoxes(S2, q, h))
<1>. DEFINE t == S[s]  u == PickedThread(t)  B == MergeBoxes(S, q, h)
<1>1. /\ t \in ThreadRec /\ ReadersOK(t) /\ MsgFits(t) /\ ThreadOK(t, q[s], h[s], f[s], type)
      /\ \A i \in 1..Len(t.readers) : Ascending(Rest(t.readers[i]))
      /\ t.msg \in Seq(Items) /\ Len(t.readers) \in Nat /\ s \in Nat /\ MergeOK(S, q, h)
  BY GoodThread
<1>2. t.at = "pick" /\ Len(t.msg) < MaxMsg
  BY <1>1 DEF MsgFits
<1>. HIDE DEF t
<1>3. S2 = With(S, s, u)
  BY DEF t
<1>4. u = PickedThread(t)
  OBVIOUS
<1>. HIDE DEF u
<1>5. /\ u \in ThreadRec /\ ReadersOK(u) /\ MsgFits(u)
      /\ \/ /\ KeepsAll(t, u) /\ \A i \in 1..Len(t.readers) : Rest(t.readers[i]) = <<>>
            /\ u.at = "send" /\ u.then = IF t.msg = <<>> THEN "done" ELSE "end"
         \/ \E i \in 1..Len(t.readers) :
              /\ TakesOne(t, u, i)
              /\ u.from = i /\ u.last = Rest(t.readers[i])[1] /\ Sending(u)
              /\ \A j \in 1..Len(t.readers) : \A l \in 1..Len(Rest(t.readers[j])) :
                   Rest(t.readers[i])[1].key <= Rest(t.readers[j])[l].key
  BY <1>1, <1>2, <1>4, PickedIs
<1>6. ASSUME KeepsAll(t, u), \A i \in 1..Len(t.readers) : Rest(t.readers[i]) = <<>>,
             u.at = "send", u.then = IF t.msg = <<>> THEN "done" ELSE "end"
      PROVE  /\ MergeGood(S2, q, h, f, type)
             /\ BoxesFollow(MergeBoxes(S, q, h), MergeBoxes(S2, q, h))
  <2>1. ThreadOK(u, q[s], h[s], f[s], type)
    BY <1>1, <1>2, <1>5, <1>6, ThreadEnding
  <2>2. KeepsAll(S[s], u)
    BY <1>6 DEF t
  <2>. QED
    BY <1>3, <1>5, <2>1, <2>2, NoneTaken
<1>7. ASSUME NEW i \in 1..Len(t.readers),
             TakesOne(t, u, i), u.from = i, u.last = Rest(t.readers[i])[1], Sending(u),
             \A j \in 1..Len(t.readers) : \A l \in 1..Len(Rest(t.readers[j])) :
               Rest(t.readers[i])[1].key <= Rest(t.readers[j])[l].key
      PROVE  /\ MergeGood(S2, q, h, f, type)
             /\ BoxesFollow(MergeBoxes(S, q, h), MergeBoxes(S2, q, h))
  <2>1. u.last \in Items /\ Len(Rest(t.readers[i])) \in Nat \ {0}
    BY <1>7 DEF TakesOne
  <2>2. ASSUME NEW j \in 1..Len(t.readers), NEW l \in 1..Len(Rest(t.readers[j])), ~(j = i /\ l = 1),
               type = "moves"
        PROVE  u.last.key < Rest(t.readers[j])[l].key
    <3>1. u.last.key <= Rest(t.readers[j])[l].key
      BY <1>7
    <3>2. Rest(t.readers[j])[l].key \in Nat /\ u.last.key \in Nat
      <4>1. ReaderOK(t.readers[j])
        BY <1>1 DEF ReadersOK
      <4>2. Rest(t.readers[j]) \in Seq(Items)
        BY <4>1, RestIs
      <4>3. Rest(t.readers[j])[l] \in Items
        BY <4>2, ElementOfSeq
      <4>. QED
        BY <2>1, <4>3 DEF Items
    <3>3. u.last.key # Rest(t.readers[j])[l].key
      <4>1. AreMerge(B, S, q, h) /\ Grid(B) /\ KeysOnce(B)
        BY <1>1, <2>2, MergeBoxesAre, MergeGrid
      <4>. HIDE DEF B
      <4>2. ASSUME NEW k \in 1..Len(t.readers)
            PROVE  B[<<s, k>>] = Rest(t.readers[k]) /\ <<s, k>> \in DOMAIN B
        <5>1. k \in Nat \ {0} /\ k <= Len(t.readers) /\ k \in Int
          BY <1>1
        <5>2. B[<<s, k>>] = Coming(t, k)
          BY <4>1, <5>1 DEF AreMerge, t
        <5>3. Coming(t, k) = Rest(t.readers[k])
          BY <5>1 DEF Coming
        <5>. QED
          BY <1>1, <4>1, <5>1, <5>2, <5>3, GridIs
      <4>. DEFINE c == <<s, i>>  d == <<s, j>>
      <4>3. /\ c \in DOMAIN B /\ d \in DOMAIN B
            /\ B[c] = Rest(t.readers[i]) /\ B[d] = Rest(t.readers[j])
            /\ 1 \in 1..Len(B[c]) /\ l \in 1..Len(B[d])
        BY <2>1, <4>2
      <4>4. (c = d /\ 1 = l) => (j = i /\ l = 1)
        OBVIOUS
      <4>. HIDE DEF c, d
      <4>5. B[c][1].key = B[d][l].key => c = d /\ 1 = l
        BY <4>1, <4>3 DEF KeysOnce
      <4>. QED
        BY <1>7, <2>2, <4>3, <4>4, <4>5
    <3>. QED
      BY <3>1, <3>2, <3>3
  <2>3. ThreadOK(u, q[s], h[s], f[s], type)
    <3>1. t.at # "done" /\ u.from \in 1..Len(t.readers)
      BY <1>2, <1>7
    <3>2. AllAfter(t, i, u.last.key, type)
      BY <1>7, <2>2 DEF AllAfter
    <3>. QED
      BY <1>1, <1>5, <1>7, <2>1, <3>1, <3>2, ThreadTaken
  <2>4. /\ TakesOne(S[s], u, i)
        /\ \A j \in 1..Len(S[s].readers) : \A l \in 1..Len(Rest(S[s].readers[j])) :
             Rest(S[s].readers[i])[1].key <= Rest(S[s].readers[j])[l].key
    BY <1>7 DEF t
  <2>. QED
    BY <1>3, <1>5, <2>3, <2>4, OneTaken
<1>. QED
  BY <1>5, <1>6, <1>7

FollowsIn(type, t) ==
  LET e == Head(Ready(t.readers[t.from]).buffer) IN
  IF type = "positions" THEN e.key = t.last.key ELSE e.key = t.last.key + 1

LEMMA SameGood ==
  ASSUME NEW S, NEW q, NEW h, NEW f, NEW type, MergeGood(S, q, h, f, type), type \in Types,
         NEW s \in 1..Len(S), S[s].at = "same",
         NEW S2, S2 = With(S, s, SameThread(S[s], FollowsIn(type, S[s])))
  PROVE  /\ MergeGood(S2, q, h, f, type)
         /\ BoxesFollow(MergeBoxes(S, q, h), MergeBoxes(S2, q, h))
<1>. DEFINE t == S[s]  follows == FollowsIn(type, t)  u == SameThread(t, follows)
<1>1. /\ t \in ThreadRec /\ ReadersOK(t) /\ MsgFits(t) /\ ThreadOK(t, q[s], h[s], f[s], type)
      /\ t.msg \in Seq(Items) /\ Len(t.readers) \in Nat
  BY GoodThread
<1>2. t.at = "same" /\ Len(t.msg) < MaxMsg /\ Sending(t)
  BY <1>1 DEF MsgFits, Sending
<1>3. /\ t.from \in 1..Len(t.readers) /\ t.last \in Items
      /\ \A i \in 1..Len(t.readers) : \A l \in 1..Len(Rest(t.readers[i])) :
           /\ t.last.key <= Rest(t.readers[i])[l].key
           /\ type = "moves" => t.last.key < Rest(t.readers[i])[l].key
  BY <1>1, <1>2 DEF ThreadOK
<1>. HIDE DEF t
<1>4. S2 = With(S, s, u)
  BY DEF t
<1>5. u = SameThread(t, follows)
  OBVIOUS
<1>. HIDE DEF u, follows
<1>6. /\ u \in ThreadRec /\ ReadersOK(u) /\ MsgFits(u) /\ u.last = t.last /\ u.from = t.from
      /\ \/ KeepsAll(t, u) /\ u.at = "pick"
         \/ /\ follows /\ TakesOne(t, u, t.from) /\ Sending(u)
            /\ Head(Ready(t.readers[t.from]).buffer) = Rest(t.readers[t.from])[1]
  BY <1>1, <1>2, <1>3, <1>5, SameIs
<1>7. CASE KeepsAll(t, u) /\ u.at = "pick"
  <2>1. ThreadOK(u, q[s], h[s], f[s], type)
    BY <1>1, <1>2, <1>6, <1>7, ThreadPicks
  <2>2. KeepsAll(S[s], u)
    BY <1>7 DEF t
  <2>. QED
    BY <1>4, <1>6, <2>1, <2>2, NoneTaken
<1>8. CASE /\ follows /\ TakesOne(t, u, t.from) /\ Sending(u)
           /\ Head(Ready(t.readers[t.from]).buffer) = Rest(t.readers[t.from])[1]
  <2>. DEFINE i == t.from  e == Rest(t.readers[i])[1]
  <2>1. e \in Items
    BY <1>8 DEF TakesOne
  <2>2. IF type = "positions" THEN e.key = t.last.key ELSE e.key = t.last.key + 1
    BY <1>8 DEF follows, FollowsIn
  <2>3. ASSUME NEW j \in 1..Len(t.readers), NEW l \in 1..Len(Rest(t.readers[j]))
        PROVE  e.key <= Rest(t.readers[j])[l].key
    <3>. DEFINE x == Rest(t.readers[j])[l].key  y == t.last.key  z == e.key
    <3>1. y <= x /\ (type = "moves" => y < x)
      BY <1>3
    <3>2. x \in Nat /\ y \in Nat /\ z \in Nat
      <4>1. ReaderOK(t.readers[j])
        BY <1>1 DEF ReadersOK
      <4>2. Rest(t.readers[j]) \in Seq(Items)
        BY <4>1, RestIs
      <4>3. Rest(t.readers[j])[l] \in Items
        BY <4>2, ElementOfSeq
      <4>. QED
        BY <1>3, <2>1, <4>3 DEF Items
    <3>3. IF type = "positions" THEN z = y ELSE z = y + 1
      BY <2>2
    <3>. HIDE DEF x, y, z
    <3>4. z <= x
      BY <3>1, <3>2, <3>3 DEF Types
    <3>. QED
      BY <3>4 DEF x, z
  <2>. HIDE DEF e
  <2>4. ThreadOK(u, q[s], h[s], f[s], type)
    <3>1. t.at # "done" /\ u.from \in 1..Len(t.readers) /\ u.last \in Items
      BY <1>2, <1>3, <1>6
    <3>2. AllAfter(t, i, u.last.key, type)
      BY <1>3, <1>6 DEF AllAfter
    <3>. QED
      BY <1>1, <1>6, <1>8, <3>1, <3>2, ThreadTaken
  <2>5. /\ TakesOne(S[s], u, i)
        /\ \A j \in 1..Len(S[s].readers) : \A l \in 1..Len(Rest(S[s].readers[j])) :
             Rest(S[s].readers[i])[1].key <= Rest(S[s].readers[j])[l].key
    BY <1>8, <2>3 DEF t, e
  <2>. QED
    BY <1>4, <1>6, <2>4, <2>5, OneTaken
<1>. QED
  BY <1>6, <1>7, <1>8

LEMMA SendGood ==
  ASSUME NEW S, NEW q, NEW h, NEW f, NEW type, MergeGood(S, q, h, f, type),
         NEW s \in 1..Len(S), S[s].at = "send", Len(q[s]) < QueueSize,
         NEW S2, S2 = With(S, s, SentThread(S[s])),
         NEW q2, q2 = With(q, s, Append(q[s], S[s].msg))
  PROVE  /\ MergeGood(S2, q2, h, f, type)
         /\ BoxesFollow(MergeBoxes(S, q, h), MergeBoxes(S2, q2, h))
<1>. DEFINE t == S[s]  u == SentThread(t)  v == Append(q[s], t.msg)
<1>1. /\ t \in ThreadRec /\ ReadersOK(t) /\ ThreadOK(t, q[s], h[s], f[s], type)
      /\ q[s] \in Seq(Seq(Items)) /\ h[s] \in Seq(Items) /\ f[s] \in BOOLEAN /\ t.msg \in Seq(Items)
      /\ MergeOK(S, q, h) /\ f \in [1..Len(S) -> BOOLEAN]
  BY GoodThread
<1>2. t.at = "send" /\ With(h, s, h[s]) = h /\ With(f, s, f[s]) = f
  BY <1>1, Unchanged DEF MergeOK
<1>. HIDE DEF t
<1>3. S2 = With(S, s, u) /\ q2 = With(q, s, v)
  BY DEF t
<1>4. v \in Seq(Seq(Items)) /\ Len(v) = Len(q[s]) + 1 /\ Len(q[s]) \in Nat
  BY <1>1, AppendIs
<1>5. u \in ThreadRec /\ ReadersOK(u) /\ KeepsRests(t, u) /\ u.msg = <<>> /\ MsgFits(u)
  BY <1>1, SentIs
<1>6. ThreadOK(u, v, h[s], f[s], type)
  BY <1>1, <1>2, ThreadSent
<1>7. v = Append(q[s], S[s].msg)
  BY DEF t
<1>. HIDE DEF u, v
<1>8. /\ Changed(S, q, h, f, S2, q2, h, f, s)
      /\ S2[s] = u /\ q2[s] = v
  <2>1. ThreadFits(u, v, h[s], f[s])
    BY <1>1, <1>4, <1>5 DEF ThreadFits
  <2>2. /\ Changed(S, q, h, f, With(S, s, u), With(q, s, v), With(h, s, h[s]), With(f, s, f[s]), s)
        /\ With(S, s, u)[s] = u /\ With(q, s, v)[s] = v
    BY <1>1, <2>1, StreamChanged
  <2>. QED
    BY <1>2, <1>3, <2>2
<1>9. MergeOK(S2, q2, h) /\ OnlyStream(S, q, h, S2, q2, h, s)
  BY <1>8 DEF Changed
<1>10. MergeBoxes(S2, q2, h) = MergeBoxes(S, q, h)
  <2>1. Sends(S[s], S2[s], q[s], q2[s])
    BY <1>5, <1>7, <1>8 DEF t, Sends
  <2>. QED
    BY <1>1, <1>9, <2>1, BoxesSent
<1>11. \A B : BoxesFollow(B, B)
  BY DEF BoxesFollow, RowsFrom
<1>12. /\ ThreadOK(S2[s], q2[s], h[s], f[s], type) /\ MsgFits(S2[s]) /\ Len(q2[s]) <= QueueSize
  <2>1. QueueSize \in Nat
    BY SortAssumption, MergeAssumption
  <2>2. Len(v) <= QueueSize
    BY <1>4, <2>1
  <2>. QED
    BY <1>5, <1>6, <1>8, <2>2
<1>13. Ordered(MergeBoxes(S2, q2, h))
  BY <1>10 DEF MergeGood
<1>14. MergeGood(S2, q2, h, f, type)
  BY <1>8, <1>12, <1>13, GoodChanged
<1>. QED
  BY <1>10, <1>11, <1>14

LEMMA ReceiveGood ==
  ASSUME NEW S, NEW q, NEW h, NEW f, NEW type, MergeGood(S, q, h, f, type),
         NEW s \in 1..Len(S), h[s] = <<>>, q[s] # <<>>,
         NEW q2, q2 = With(q, s, Tail(q[s])), NEW h2, h2 = With(h, s, Head(q[s])),
         NEW f2, f2 = With(f, s, Head(q[s]) = <<>>)
  PROVE  /\ MergeGood(S, q2, h2, f2, type)
         /\ BoxesFollow(MergeBoxes(S, q, h), MergeBoxes(S, q2, h2))
<1>. DEFINE t == S[s]  v == Tail(q[s])  x == Head(q[s])  y == (x = <<>>)
<1>1. /\ t \in ThreadRec /\ ReadersOK(t) /\ ThreadOK(t, q[s], h[s], f[s], type) /\ MsgFits(t)
      /\ q[s] \in Seq(Seq(Items)) /\ s \in Nat
      /\ MergeOK(S, q, h) /\ f \in [1..Len(S) -> BOOLEAN]
  BY GoodThread
<1>2. With(S, s, t) = S
  BY <1>1 DEF MergeOK, With
<1>3. /\ v \in Seq(Seq(Items)) /\ x \in Seq(Items) /\ y \in BOOLEAN
      /\ Len(v) = Len(q[s]) - 1 /\ Len(q[s]) \in Nat
  BY <1>1, TailIs
<1>4. ThreadOK(t, v, x, y, type)
  <2>1. y => x = <<>>
    OBVIOUS
  <2>. HIDE DEF y
  <2>. QED
    BY <1>1, <2>1, ThreadReceived
<1>5. q2 = With(q, s, v) /\ h2 = With(h, s, x) /\ f2 = With(f, s, y)
  OBVIOUS
<1>6. v = Tail(q[s]) /\ x = Head(q[s])
  OBVIOUS
<1>. HIDE DEF t, v, x, y
<1>7. /\ Changed(S, q, h, f, S, q2, h2, f2, s)
      /\ S[s] = t /\ q2[s] = v /\ h2[s] = x /\ f2[s] = y
  <2>1. ThreadFits(t, v, x, y)
    BY <1>1, <1>3 DEF ThreadFits
  <2>2. /\ Changed(S, q, h, f, With(S, s, t), With(q, s, v), With(h, s, x), With(f, s, y), s)
        /\ With(S, s, t)[s] = t /\ With(q, s, v)[s] = v /\ With(h, s, x)[s] = x /\ With(f, s, y)[s] = y
    BY <1>1, <2>1, StreamChanged
  <2>. QED
    BY <1>2, <1>5, <2>2
<1>8. MergeOK(S, q2, h2) /\ OnlyStream(S, q, h, S, q2, h2, s)
  BY <1>7 DEF Changed
<1>. DEFINE B == MergeBoxes(S, q, h)  C == MergeBoxes(S, q2, h2)
<1>9. Receives(B, C, s)
  BY <1>1, <1>6, <1>7, <1>8, BoxReceived
<1>10. Grid(B) /\ Grid(C)
  BY <1>1, <1>8, MergeGrid
<1>11. Ordered(B)
  BY DEF MergeGood
<1>. HIDE DEF B, C
<1>12. BoxesFollow(B, C)
  BY <1>9, <1>10, ReceivedFollows
<1>13. OrderedIn(StreamRow(C, s))
  <2>. DEFINE b == StreamRow(B, s)  c == StreamRow(C, s)
  <2>1. /\ Rows(b) /\ \A k \in Int : b[k] = B[<<s, k>>] /\ c[k] = C[<<s, k>>]
    BY <1>1, <1>10, GridIs
  <2>2. OrderedIn(b)
    BY <1>1, <1>11 DEF Ordered
  <2>. HIDE DEF b, c
  <2>3. \A i \in Int : C[<<s, i>>] = IF i <= 0 THEN B[<<s, i - 1>>] ELSE B[<<s, i>>]
    BY <1>9 DEF Receives
  <2>4. b[0] = <<>>
    BY <1>9, <2>1 DEF Receives
  <2>5. ASSUME NEW i \in Int PROVE c[i] = IF i <= 0 THEN b[i - 1] ELSE b[i]
    <3>1. i - 1 \in Int
      OBVIOUS
    <3>2. c[i] = C[<<s, i>>] /\ b[i - 1] = B[<<s, i - 1>>] /\ b[i] = B[<<s, i>>]
      BY <2>1, <3>1
    <3>. QED
      BY <2>3, <3>2
  <2>6. OrderedIn(c)
    BY <2>1, <2>2, <2>4, <2>5, ReceivedInOrder
  <2>. QED
    BY <2>6 DEF c
<1>14. Ordered(C)
  <2>1. \A r \in Nat \ {s}, i \in Int : C[<<r, i>>] = B[<<r, i>>]
    BY <1>9 DEF Receives
  <2>. QED
    BY <1>1, <1>11, <1>13, <2>1, OrderedAfter
<1>15. ThreadOK(S[s], q2[s], h2[s], f2[s], type) /\ MsgFits(S[s]) /\ Len(q2[s]) <= QueueSize
  <2>1. QueueSize \in Nat /\ Len(q[s]) <= QueueSize
    BY SortAssumption, MergeAssumption DEF MergeGood
  <2>2. Len(v) <= QueueSize
    BY <1>3, <2>1
  <2>. QED
    BY <1>1, <1>4, <1>7, <2>2
<1>16. MergeGood(S, q2, h2, f2, type)
  BY <1>7, <1>14, <1>15, GoodChanged DEF C
<1>. QED
  BY <1>12, <1>16 DEF B, C

LEMMA RemoveGood ==
  ASSUME NEW S, NEW q, NEW h, NEW f, NEW type, MergeGood(S, q, h, f, type),
         NEW s \in 1..Len(S), h[s] # <<>>, NEW h2, h2 = With(h, s, Tail(h[s]))
  PROVE  LET B == MergeBoxes(S, q, h)  C == MergeBoxes(S, q, h2)  e == Head(h[s]) IN
         /\ MergeGood(S, q, h2, f, type)
         /\ Contents(B) = Contents(C) \cup {e}
         /\ Distinct(B) => Distinct(C) /\ e \notin Contents(C)
         /\ RowsFrom(B, C)
         /\ \A i \in Int : \A k \in 1..Len(B[<<s, i>>]) : e.key <= B[<<s, i>>][k].key
<1>. DEFINE t == S[s]  x == Tail(h[s])  e == Head(h[s])
<1>1. /\ t \in ThreadRec /\ ReadersOK(t) /\ ThreadOK(t, q[s], h[s], f[s], type) /\ MsgFits(t)
      /\ q[s] \in Seq(Seq(Items)) /\ h[s] \in Seq(Items) /\ f[s] \in BOOLEAN /\ s \in Nat
      /\ MergeOK(S, q, h) /\ f \in [1..Len(S) -> BOOLEAN]
  BY GoodThread
<1>2. With(S, s, t) = S /\ With(q, s, q[s]) = q /\ With(f, s, f[s]) = f
  <2>1. With(S, s, t) = S
    BY <1>1 DEF MergeOK, With
  <2>. QED
    BY <1>1, <2>1, Unchanged DEF MergeOK
<1>3. x \in Seq(Items)
  BY <1>1, TailIs
<1>4. ThreadOK(t, q[s], x, f[s], type)
  BY <1>1, ThreadRemoved
<1>5. h2 = With(h, s, x) /\ x = Tail(h[s])
  OBVIOUS
<1>. HIDE DEF t, x
<1>6. Changed(S, q, h, f, S, q, h2, f, s) /\ S[s] = t /\ h2[s] = x
  <2>1. ThreadFits(t, q[s], x, f[s])
    BY <1>1, <1>3 DEF ThreadFits
  <2>2. /\ Changed(S, q, h, f, With(S, s, t), With(q, s, q[s]), With(h, s, x), With(f, s, f[s]), s)
        /\ With(S, s, t)[s] = t /\ With(h, s, x)[s] = x
    BY <1>1, <2>1, StreamChanged
  <2>. QED
    BY <1>2, <1>5, <2>2
<1>7. MergeOK(S, q, h2) /\ OnlyStream(S, q, h, S, q, h2, s)
  BY <1>6 DEF Changed
<1>. DEFINE B == MergeBoxes(S, q, h)  C == MergeBoxes(S, q, h2)
<1>8. Removes(B, C, s) /\ B[<<s, 0>>] = h[s]
  <2>1. Shortens(h[s], h2[s])
    BY <1>5, <1>6 DEF Shortens
  <2>2. MergeOK(S, q, h) /\ MergeOK(S, q, h2) /\ OnlyStream(S, q, h, S, q, h2, s)
    BY <1>1, <1>7
  <2>3. /\ Removes(MergeBoxes(S, q, h), MergeBoxes(S, q, h2), s)
        /\ MergeBoxes(S, q, h)[<<s, 0>>] = h[s]
    BY <2>1, <2>2, BoxRemoved
  <2>. QED
    BY <2>3
<1>9. Grid(B) /\ Grid(C)
  BY <1>1, <1>7, MergeGrid
<1>10. Ordered(B)
  BY DEF MergeGood
<1>. HIDE DEF B, C
<1>11. /\ Contents(B) = Contents(C) \cup {e}
       /\ Distinct(B) => Distinct(C) /\ e \notin Contents(C)
       /\ RowsFrom(B, C)
  BY <1>8, <1>9, TakenIs
<1>. DEFINE b == StreamRow(B, s)  c == StreamRow(C, s)
<1>12. /\ Rows(b) /\ \A k \in Int : b[k] = B[<<s, k>>] /\ c[k] = C[<<s, k>>]
       /\ OrderedIn(b)
  BY <1>1, <1>9, <1>10, GridIs DEF Ordered
<1>. HIDE DEF b, c
<1>13. b[0] # <<>> /\ b[0] = h[s] /\ c[0] = Tail(b[0]) /\ \A i \in Int \ {0} : c[i] = b[i]
  <2>1. /\ B[<<s, 0>>] # <<>> /\ C[<<s, 0>>] = Tail(B[<<s, 0>>])
        /\ \A i \in Int \ {0} : C[<<s, i>>] = B[<<s, i>>]
    BY <1>8 DEF Removes
  <2>2. b[0] = B[<<s, 0>>] /\ c[0] = C[<<s, 0>>]
    BY <1>12
  <2>. QED
    BY <1>8, <1>12, <2>1, <2>2
<1>14. OrderedIn(c)
  BY <1>12, <1>13, TakenInOrder
<1>15. Ordered(C)
  <2>1. \A r \in Nat \ {s}, i \in Int : C[<<r, i>>] = B[<<r, i>>]
    BY <1>8 DEF Removes
  <2>. QED
    BY <1>1, <1>10, <1>14, <2>1, OrderedAfter DEF c
<1>16. ThreadOK(S[s], q[s], h2[s], f[s], type) /\ MsgFits(S[s]) /\ Len(q[s]) <= QueueSize
  BY <1>1, <1>4, <1>6 DEF MergeGood
<1>17. MergeGood(S, q, h2, f, type)
  BY <1>6, <1>15, <1>16, GoodChanged DEF C
<1>18. ASSUME NEW i \in Int, NEW k \in 1..Len(B[<<s, i>>]) PROVE e.key <= B[<<s, i>>][k].key
  <2>1. h[s] \in Seq(Items) /\ h[s] # <<>>
    BY <1>1
  <2>2. e = h[s][1] /\ 1 \in 1..Len(h[s])
    BY <2>1, TailIs
  <2>. HIDE DEF e
  <2>3. CASE i = 0
    <3>1. Ascending(h[s])
      BY <1>12, <1>13 DEF OrderedIn
    <3>2. k \in 1..Len(h[s]) /\ B[<<s, i>>] = h[s]
      BY <1>8, <1>18, <2>3
    <3>. QED
      BY <2>1, <3>1, <3>2, AscendingHead DEF e
  <2>4. CASE i # 0
    <3>1. Below(b[0], b[i])
      BY <1>12, <2>4 DEF OrderedIn
    <3>2. k \in 1..Len(b[i]) /\ b[i] = B[<<s, i>>]
      BY <1>12
    <3>. QED
      BY <1>13, <2>2, <3>1, <3>2 DEF Below
  <2>. QED
    BY <2>3, <2>4
<1>. QED
  BY <1>11, <1>17, <1>18 DEF B, C
=============================================================================
