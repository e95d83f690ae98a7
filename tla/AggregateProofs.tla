---------------------------- MODULE AggregateProofs ----------------------------
(***************************************************************************)
(* Proofs about the aggregation, for every database, every split and any   *)
(* state of the results files.                                             *)
(***************************************************************************)
EXTENDS Aggregate, FiniteSetTheorems, SequenceTheorems, WellFoundedInduction, TLAPS

-----------------------------------------------------------------------------
(* The inductive invariant.                                                *)

Shapes ==
  /\ asked \in Depths /\ made \in Databases /\ cut \in Cuts /\ limit \in FileLimits
  /\ leaf \in Leaves /\ leaf \in [LastPly -> Nat]
  /\ \A p \in Parts : files[p] \in Files(p)
  /\ left \subseteq Parts /\ file \in Parts
  /\ open \in 0..limit /\ got \in Nat /\ found \in Nat /\ depth \in {0, asked}
  /\ table \in [LastPly -> Nat]
  /\ count = [p \in Plies |-> count[p]]
  /\ \A p \in Plies : count[p] = [x \in Positions(p) |-> count[p][x]]
  /\ ply \in Plies /\ i \in 0..Size[ply]
  /\ main \in {"scan", "read", "check", "deep", "last", "tree", "done"}
  /\ exit \in {"none", "files", "header", "database", "odd", "counter", "short",
               "nofiles", "total", "ok"}
  /\ (main = "done") <=> (exit # "none")

Complete(p) == files[p] = [header |-> "full", entries |-> cut[p].num, torn |-> FALSE]

(* The parts whose results are in the table.                               *)
Taken == {p \in Parts \ left : files[p].header # "none"}
Finished == IF main = "read" THEN Taken \ {file} ELSE Taken
Covered == UNION {Interval(cut[p]) : p \in Finished}

(* found counts the positions of the finished parts, whose results are in  *)
(* the table; so are the first got results of the part being read.         *)
Scanning ==
  asked > DbDepth /\ main # "done" =>
    /\ IsFiniteSet(Covered) /\ Cardinality(Covered) = found
    /\ \A p \in Finished : Complete(p)
    /\ \A x \in Covered : table[x] = leaf[x]
    /\ main = "read" =>
         /\ depth = asked /\ file \in Taken
         /\ files[file].header = "full" /\ got <= files[file].entries
         /\ \A x \in cut[file].from..cut[file].from + got - 1 : table[x] = leaf[x]

Modest ==
  /\ depth # 0 /\ main # "done" => made = DbDepth
  /\ main = "scan" /\ asked <= DbDepth => depth = 0
  /\ main = "read" => asked > DbDepth /\ depth # 0

Summing == main \in {"deep", "last", "tree"}

Top == IF asked > DbDepth THEN DbDepth - 1 ELSE asked - 1

RightAt(p, x) ==
  count[p][x] = IF p = asked - 1 THEN NumMoves[p][x]
                ELSE Sum(IF p = DbDepth - 1 THEN leaf ELSE count[p + 1], MovesOf(p, x))

(* What has been summed so far is right.                                   *)
SumsAreRight ==
  Summing =>
    /\ depth = asked
    /\ asked > DbDepth => table = leaf /\ \A p \in Parts : cut[p].num > 0 => Complete(p)
    /\ main = "deep" => asked > DbDepth /\ ply = DbDepth - 1
    /\ main = "last" => asked <= DbDepth /\ ply = asked - 1
    /\ main = "tree" => ply < Top
    /\ \A p \in Plies : p > ply /\ p <= Top => \A x \in Positions(p) : RightAt(p, x)
    /\ \A x \in Positions(ply) : x < i => RightAt(ply, x)

(* The buffer holds what follows the moves of the positions before i.      *)
Buffered(b, at, to) ==
  /\ b \in Seq(Nat) /\ at \in 0..Len(b) /\ to \in Len(b)..Len(MoveFile[ply])
  /\ to - Len(b) + at = MoveStart[ply][i]
  /\ \A k \in 1..Len(b) : b[k] = MoveFile[ply][to - Len(b) + k]

BufferIsFile == main \in {"deep", "tree"} => Buffered(buf, index, offset)

Accepted ==
  exit = "ok" =>
    /\ perft = count[0][0]
    /\ \A p \in Plies : p <= Top => \A x \in Positions(p) : RightAt(p, x)
    /\ asked > DbDepth => /\ made = DbDepth /\ table = leaf
                          /\ \A p \in Parts : cut[p].num > 0 => Complete(p)

IInv == Shapes /\ Scanning /\ Modest /\ SumsAreRight /\ BufferIsFile /\ Accepted

-----------------------------------------------------------------------------
(* The facts about the constants, one at a time.                           *)
LEMMA DatabaseFacts ==
  /\ DbDepth \in Nat /\ DbDepth > 1
  /\ \A p \in 0..DbDepth : Size[p] \in Nat \ {0}
  /\ \A p \in Plies :
       /\ MoveFile[p] \in Seq(Nat)
       /\ MoveStart[p][0] = 0
       /\ \A x \in Positions(p) : /\ NumMoves[p][x] \in 0..MoveEntries
                                  /\ MoveStart[p][x] \in Nat /\ MoveStart[p][x + 1] \in Nat
                                  /\ MoveStart[p][x + 1] = MoveStart[p][x] + NumMoves[p][x]
                                  /\ MoveStart[p][x + 1] <= Len(MoveFile[p])
<1>1. DbDepth \in Nat /\ DbDepth > 1 /\ Size \in [0..DbDepth -> Nat \ {0}]
  BY DatabaseAssumption
<1>2. ASSUME NEW p \in Plies
      PROVE  /\ MoveFile[p] \in Seq(Nat)
             /\ MoveStart[p][0] = 0
             /\ \A x \in Positions(p) : /\ NumMoves[p][x] \in 0..MoveEntries
                                        /\ MoveStart[p][x] \in Nat /\ MoveStart[p][x + 1] \in Nat
                                        /\ MoveStart[p][x + 1] = MoveStart[p][x] + NumMoves[p][x]
                                        /\ MoveStart[p][x + 1] <= Len(MoveFile[p])
  <2>1. /\ NumMoves[p] \in [Positions(p) -> 0..MoveEntries]
        /\ MoveFile[p] \in Seq(Positions(p + 1))
        /\ MoveStart[p] \in [0..Size[p] -> Nat]
        /\ MoveStart[p][0] = 0
        /\ \A x \in Positions(p) : /\ MoveStart[p][x + 1] = MoveStart[p][x] + NumMoves[p][x]
                                   /\ MoveStart[p][x + 1] <= Len(MoveFile[p])
    BY DatabaseAssumption
  <2>2. p + 1 \in 0..DbDepth /\ p \in 0..DbDepth
    BY <1>1 DEF Plies
  <2>3. Positions(p + 1) \subseteq Nat
    BY <1>1, <2>2 DEF Positions
  <2>4. \A x \in Positions(p) : x \in 0..Size[p] /\ x + 1 \in 0..Size[p]
    BY <1>1, <2>2 DEF Positions
  <2>5. MoveFile[p] \in Seq(Nat)
    BY <2>1, <2>3
  <2>. QED
    BY <2>1, <2>4, <2>5
<1>. QED
  BY <1>1, <1>2

(* The parts of a split lie in the last ply and do not overlap.            *)
LEMMA CutFacts ==
  ASSUME NEW c \in Cuts
  PROVE  /\ DOMAIN c = 1..Len(c) /\ 1 \in DOMAIN c
         /\ \A p \in DOMAIN c : /\ c[p].from \in Nat /\ c[p].num \in Nat
                                /\ Interval(c[p]) \subseteq LastPly
         /\ \A p, q \in DOMAIN c : p # q => Interval(c[p]) \cap Interval(c[q]) = {}
<1>1. c \in Seq([from : Nat, num : Nat]) /\ c # <<>>
  BY PartsAssumption
<1>2. Len(c) \in Nat /\ DOMAIN c = 1..Len(c) /\ Len(c) # 0
  BY <1>1
<1>3. ASSUME NEW p \in DOMAIN c PROVE c[p].from \in Nat /\ c[p].num \in Nat
  <2>1. c[p] \in [from : Nat, num : Nat]
    BY <1>1, <1>2, ElementOfSeq
  <2>. QED
    BY <2>1
<1>4. /\ \A p \in DOMAIN c : Interval(c[p]) \subseteq LastPly
      /\ \A p, q \in DOMAIN c : p # q => Interval(c[p]) \cap Interval(c[q]) = {}
  BY PartsAssumption
<1>. QED
  BY <1>2, <1>3, <1>4

(* The last ply is as large as its size says, and a set of its positions   *)
(* of that size is all of it.                                              *)
LEMMA LastPlySize ==
  /\ Size[DbDepth] \in Nat \ {0}
  /\ IsFiniteSet(LastPly) /\ Cardinality(LastPly) = Size[DbDepth]
<1>1. Size[DbDepth] \in Nat \ {0}
  BY DatabaseFacts
<1>2. 0 \in Int /\ Size[DbDepth] - 1 \in Int
  BY <1>1
<1>3. /\ IsFiniteSet(0..Size[DbDepth] - 1)
      /\ Cardinality(0..Size[DbDepth] - 1)
           = IF 0 > Size[DbDepth] - 1 THEN 0 ELSE Size[DbDepth] - 1 - 0 + 1
  BY <1>2, FS_Interval
<1>. QED
  BY <1>1, <1>3 DEF LastPly, Positions

LEMMA WholePly ==
  ASSUME NEW S, S \subseteq LastPly, Cardinality(S) = Size[DbDepth]
  PROVE  S = LastPly
BY LastPlySize, FS_Subset

(* One part more.                                                          *)
LEMMA OneMorePart ==
  ASSUME NEW c \in Cuts, NEW F \in SUBSET DOMAIN c, NEW p \in DOMAIN c \ F,
         IsFiniteSet(UNION {Interval(c[q]) : q \in F})
  PROVE  LET before == UNION {Interval(c[q]) : q \in F}
             after  == UNION {Interval(c[q]) : q \in F \cup {p}}
         IN  /\ after = before \cup Interval(c[p])
             /\ IsFiniteSet(after)
             /\ Cardinality(after) = Cardinality(before) + c[p].num
<1>. DEFINE before == UNION {Interval(c[q]) : q \in F}
            after  == UNION {Interval(c[q]) : q \in F \cup {p}}
<1>1. after = before \cup Interval(c[p])
  OBVIOUS
<1>2. before \cap Interval(c[p]) = {}
  BY CutFacts
<1>3. c[p].from \in Nat /\ c[p].num \in Nat
  BY CutFacts
<1>4. IsFiniteSet(Interval(c[p])) /\ Cardinality(Interval(c[p])) = c[p].num
  <2>. DEFINE a == c[p].from
              b == c[p].from + c[p].num - 1
  <2>1. a \in Int /\ b \in Int
    BY <1>3
  <2>. HIDE DEF a, b
  <2>2. IsFiniteSet(a..b) /\ Cardinality(a..b) = IF a > b THEN 0 ELSE b - a + 1
    BY <2>1, FS_Interval
  <2>. QED
    BY <1>3, <2>2 DEF Interval, a, b
<1>5. Cardinality(before) \in Nat
  BY FS_CardinalityType
<1>6. IsFiniteSet(after) /\ Cardinality(after)
        = Cardinality(before) + Cardinality(Interval(c[p])) - Cardinality(before \cap Interval(c[p]))
  BY <1>1, <1>4, FS_Union
<1>7. Cardinality(before \cap Interval(c[p])) = 0
  BY <1>2, FS_EmptySet
<1>. QED
  BY <1>1, <1>3, <1>4, <1>5, <1>6, <1>7

(* A piece of a sequence.                                                  *)
LEMMA Piece ==
  ASSUME NEW s \in Seq(Nat), NEW m \in Nat, NEW n \in m..Len(s)
  PROVE  /\ SubSeq(s, m + 1, n) \in Seq(Nat)
         /\ Len(SubSeq(s, m + 1, n)) = n - m
         /\ \A k \in 1..n - m : SubSeq(s, m + 1, n)[k] = s[m + k]
<1>1. Len(s) \in Nat /\ n \in Nat /\ m + 1 \in Int /\ n \in Int
  OBVIOUS
<1>2. \A k \in m + 1..n : s[k] \in Nat
  BY <1>1, ElementOfSeq
<1>3. /\ SubSeq(s, m + 1, n) \in Seq(Nat)
      /\ Len(SubSeq(s, m + 1, n)) = IF m + 1 <= n THEN n - (m + 1) + 1 ELSE 0
      /\ \A k \in 1..n - (m + 1) + 1 : SubSeq(s, m + 1, n)[k] = s[(m + 1) + k - 1]
  BY <1>1, <1>2, SubSeqProperties
<1>. QED
  BY <1>1, <1>3

-----------------------------------------------------------------------------
(* The move buffer: after Refilled it still holds what follows the moves   *)
(* of the positions before i, and the moves of position i are its next.    *)
LEMMA RefillKeeps ==
  ASSUME ply \in Plies, i \in Positions(ply), Buffered(buf, index, offset),
         NEW next, next = Refilled(NumMoves[ply][i])
  PROVE  Buffered(next.buf, next.index, next.offset)
<1>. DEFINE F == MoveFile[ply]
            num == NumMoves[ply][i]
            rest == SubSeq(buf, index + 1, Len(buf))
            to == Smaller(offset + MoveEntries - Len(rest), Len(F))
            more == SubSeq(F, offset + 1, to)
<1>1. /\ F \in Seq(Nat) /\ num \in 0..MoveEntries /\ MoveStart[ply][i] \in Nat
  BY DatabaseFacts
<1>2. /\ buf \in Seq(Nat) /\ index \in 0..Len(buf) /\ offset \in Len(buf)..Len(F)
      /\ offset - Len(buf) + index = MoveStart[ply][i]
      /\ \A k \in 1..Len(buf) : buf[k] = F[offset - Len(buf) + k]
  BY DEF Buffered
<1>3. CASE index + num <= Len(buf)
  BY <1>3 DEF Refilled
<1>4. CASE ~(index + num <= Len(buf))
  <2>1. next = [buf |-> rest \o more, index |-> 0, offset |-> to]
    BY <1>4 DEF Refilled
  <2>2. Len(F) \in Nat /\ Len(buf) \in Nat /\ MoveEntries \in Nat
    BY <1>1, <1>2, LimitAssumption
  <2>. HIDE DEF F, num
  <2>3. /\ rest \in Seq(Nat) /\ Len(rest) = Len(buf) - index
        /\ \A k \in 1..Len(rest) : rest[k] = buf[index + k]
    BY <1>2, <2>2, Piece
  <2>. HIDE DEF rest
  <2>4. to \in offset..Len(F)
    BY <1>1, <1>2, <1>4, <2>2, <2>3 DEF Smaller
  <2>. HIDE DEF to
  <2>5. /\ more \in Seq(Nat) /\ Len(more) = to - offset
        /\ \A k \in 1..Len(more) : more[k] = F[offset + k]
    <3>1. offset \in Nat /\ to \in offset..Len(F)
      BY <1>2, <2>2, <2>4
    <3>. QED
      BY <1>1, <3>1, Piece
  <2>. HIDE DEF more
  <2>6. /\ rest \o more \in Seq(Nat) /\ Len(rest \o more) = Len(rest) + Len(more)
        /\ \A k \in 1..Len(rest) + Len(more) :
             (rest \o more)[k] = IF k <= Len(rest) THEN rest[k] ELSE more[k - Len(rest)]
    BY <2>3, <2>5, ConcatProperties
  <2>7. to - Len(rest \o more) = offset - Len(rest)
    BY <1>2, <2>2, <2>3, <2>4, <2>5, <2>6
  <2>8. \A k \in 1..Len(rest \o more) : (rest \o more)[k] = F[to - Len(rest \o more) + k]
    <3>. SUFFICES ASSUME NEW k \in 1..Len(rest \o more)
                  PROVE  (rest \o more)[k] = F[offset - Len(rest) + k]
      BY <2>7
    <3>1. k \in Nat /\ Len(rest) \in Nat /\ Len(more) \in Nat /\ offset \in Nat /\ index \in Nat
      BY <1>2, <2>2, <2>3, <2>4, <2>5, <2>6
    <3>2. CASE k <= Len(rest)
      <4>1. (rest \o more)[k] = buf[index + k] /\ index + k \in 1..Len(buf)
        <5>1. k \in 1..Len(rest) /\ k \in 1..Len(rest) + Len(more)
          BY <3>1, <3>2
        <5>2. (rest \o more)[k] = rest[k]
          BY <2>6, <3>2, <5>1
        <5>3. rest[k] = buf[index + k]
          BY <2>3, <5>1
        <5>4. index + k \in 1..Len(buf)
          BY <2>2, <2>3, <3>1, <5>1
        <5>. QED
          BY <5>2, <5>3, <5>4
      <4>2. offset - Len(buf) + (index + k) = offset - Len(rest) + k
        BY <2>2, <2>3, <3>1
      <4>. QED
        BY <1>2, <4>1, <4>2
    <3>3. CASE ~(k <= Len(rest))
      <4>1. (rest \o more)[k] = more[k - Len(rest)] /\ k - Len(rest) \in 1..Len(more)
        BY <2>6, <3>1, <3>3
      <4>2. offset + (k - Len(rest)) = offset - Len(rest) + k
        BY <3>1
      <4>. QED
        BY <2>5, <4>1, <4>2
    <3>. QED
      BY <3>2, <3>3
  <2>9. to - Len(rest \o more) + 0 = MoveStart[ply][i] /\ to \in Len(rest \o more)..Len(F)
    BY <1>1, <1>2, <2>2, <2>3, <2>4, <2>5, <2>6, <2>7
  <2>10. 0 \in 0..Len(rest \o more)
    BY <2>3, <2>5, <2>6
  <2>. QED
    BY <2>1, <2>6, <2>8, <2>9, <2>10 DEF Buffered, F
<1>. QED
  BY <1>3, <1>4

(* The moves of position i are the next in a buffer that holds them.       *)
LEMMA NextMoves ==
  ASSUME ply \in Plies, i \in Positions(ply), NEW b, NEW at, NEW to, Buffered(b, at, to),
         at + NumMoves[ply][i] <= Len(b)
  PROVE  SubSeq(b, at + 1, at + NumMoves[ply][i]) = MovesOf(ply, i)
<1>. DEFINE F == MoveFile[ply]
            num == NumMoves[ply][i]
            from == MoveStart[ply][i]
            s == SubSeq(b, at + 1, at + num)
            t == SubSeq(F, from + 1, from + num)
<1>1. /\ F \in Seq(Nat) /\ num \in Nat /\ from \in Nat /\ MoveEntries \in Nat
      /\ MoveStart[ply][i + 1] = from + num /\ from + num <= Len(F)
  BY DatabaseFacts, LimitAssumption
<1>2. /\ b \in Seq(Nat) /\ at \in 0..Len(b) /\ to \in Len(b)..Len(F)
      /\ to - Len(b) + at = from
      /\ \A k \in 1..Len(b) : b[k] = F[to - Len(b) + k]
  BY DEF Buffered
<1>3. Len(b) \in Nat /\ Len(F) \in Nat /\ at \in Nat
  BY <1>1, <1>2
<1>. HIDE DEF F, num, from
<1>4. at + num <= Len(b)
  BY DEF num
<1>5. /\ s \in Seq(Nat) /\ Len(s) = num
      /\ \A k \in 1..num : s[k] = b[at + k]
  <2>1. at + num \in at..Len(b)
    BY <1>1, <1>3, <1>4
  <2>2. /\ s \in Seq(Nat) /\ Len(s) = (at + num) - at
        /\ \A k \in 1..(at + num) - at : s[k] = b[at + k]
    BY <1>2, <1>3, <2>1, Piece
  <2>3. (at + num) - at = num
    BY <1>1, <1>3
  <2>. QED
    BY <2>2, <2>3
<1>6. /\ t \in Seq(Nat) /\ Len(t) = num
      /\ \A k \in 1..num : t[k] = F[from + k]
  <2>1. from + num \in from..Len(F)
    BY <1>1, <1>3
  <2>2. /\ t \in Seq(Nat) /\ Len(t) = (from + num) - from
        /\ \A k \in 1..(from + num) - from : t[k] = F[from + k]
    BY <1>1, <2>1, Piece
  <2>3. (from + num) - from = num
    BY <1>1
  <2>. QED
    BY <2>2, <2>3
<1>. HIDE DEF s, t
<1>7. \A k \in 1..num : s[k] = t[k]
  <2>. SUFFICES ASSUME NEW k \in 1..num PROVE b[at + k] = F[from + k]
    BY <1>5, <1>6
  <2>1. /\ to \in Nat /\ k \in Nat /\ k >= 1 /\ k <= num
        /\ num \in Nat /\ to - Len(b) + at = from
    BY <1>1, <1>2, <1>3
  <2>2. at + k \in 1..Len(b)
    BY <1>3, <1>4, <2>1
  <2>3. to - Len(b) + (at + k) = from + k
    BY <1>3, <2>1
  <2>. QED
    BY <1>2, <2>2, <2>3
<1>8. s = t
  BY <1>5, <1>6, <1>7, SeqEqual
<1>. QED
  BY <1>1, <1>8 DEF MovesOf, s, t, F, num, from

-----------------------------------------------------------------------------
(* The first state satisfies the invariant.                                *)
LEMMA InitIInv == Init => IInv
<1>. SUFFICES ASSUME Init PROVE IInv
  OBVIOUS
<1>1. cut \in Cuts /\ DOMAIN cut = 1..Len(cut) /\ 1 \in Parts
  BY CutFacts DEF Init, Parts
<1>2. DbDepth \in Nat /\ DbDepth > 1 /\ 0 \in Plies /\ Size[0] \in Nat \ {0}
  BY DatabaseFacts DEF Plies
<1>3. asked \in Nat \ {0} /\ limit \in Nat /\ leaf \in [LastPly -> Nat]
  BY PartsAssumption, LimitAssumption DEF Init
<1>4. Shapes
  BY <1>1, <1>2, <1>3 DEF Init, Shapes
<1>5. Scanning
  <2>1. Finished = {}
    BY DEF Init, Finished, Taken
  <2>2. Covered = {}
    BY <2>1 DEF Covered
  <2>. QED
    BY <2>1, <2>2, FS_EmptySet DEF Init, Scanning
<1>. QED
  BY <1>4, <1>5 DEF Init, IInv, Modest, SumsAreRight, Summing, BufferIsFile, Accepted

(* A thread that gives up.                                                 *)
LEMMA DieStep ==
  ASSUME IInv, NEW why, Die(why), UNCHANGED <<disk, result>>,
         why \in {"files", "header", "database", "odd", "counter", "short", "nofiles", "total"}
  PROVE  IInv'
<1>1. /\ main' = "done" /\ exit' = why
      /\ UNCHANGED <<asked, made, cut, leaf, files, limit, left, open, file, got, found,
                     depth, table, ply, i, offset, buf, index, count>>
  BY DEF Die, disk, scan, pass
<1>2. Shapes'
  BY <1>1 DEF IInv, Shapes, Parts, Files, Numbered
<1>. QED
  BY <1>1, <1>2 DEF IInv, Scanning, Modest, SumsAreRight, Summing, BufferIsFile, Accepted

(* What is known of asked, of the parts and of a results file.             *)
LEMMA DiskFacts ==
  ASSUME IInv
  PROVE  /\ asked \in Nat \ {0}
         /\ \A p \in Parts :
              /\ cut[p].from \in Nat /\ cut[p].num \in Nat /\ files[p].entries \in Nat
              /\ asked > DbDepth => /\ files[p].entries <= cut[p].num
                                    /\ files[p].torn => files[p].entries < cut[p].num
              /\ files[p] = [header |-> files[p].header, entries |-> files[p].entries,
                             torn |-> files[p].torn]
              /\ files[p].torn \in BOOLEAN
<1>1. asked \in Nat \ {0}
  BY PartsAssumption DEF IInv, Shapes
<1>2. ASSUME NEW p \in Parts
      PROVE  /\ cut[p].from \in Nat /\ cut[p].num \in Nat /\ files[p].entries \in Nat
             /\ asked > DbDepth => /\ files[p].entries <= cut[p].num
                                   /\ files[p].torn => files[p].entries < cut[p].num
             /\ files[p] = [header |-> files[p].header, entries |-> files[p].entries,
                            torn |-> files[p].torn]
             /\ files[p].torn \in BOOLEAN
  <2>1. cut[p].from \in Nat /\ cut[p].num \in Nat
    BY CutFacts DEF IInv, Shapes, Parts
  <2>2. /\ files[p] \in [header : {"none", "short", "full"}, entries : 0..Numbered(p), torn : BOOLEAN]
        /\ files[p].torn => files[p].entries < Numbered(p)
    BY DEF IInv, Shapes, Files
  <2>3. Numbered(p) \in Nat /\ (asked > DbDepth => Numbered(p) = cut[p].num)
    BY <2>1 DEF Numbered
  <2>. QED
    BY <2>1, <2>2, <2>3
<1>. QED
  BY <1>1, <1>2

(* The next results file is opened.                                        *)
LEMMA TakeStep ==
  ASSUME IInv, NEW p \in left, main = "scan", open < limit, files[p].header = "full",
         made = DbDepth, Take(p), UNCHANGED <<disk, result>>
  PROVE  IInv'
<1>1. /\ open' = open + 1 /\ left' = left \ {p} /\ depth' = asked
      /\ \/ main' = "check" /\ asked <= DbDepth /\ UNCHANGED <<file, got>>
         \/ main' = "read" /\ asked > DbDepth /\ file' = p /\ got' = 0
      /\ UNCHANGED <<found, table, ply, i, offset, buf, index, count, exit,
                     asked, made, cut, leaf, files, limit, perft, ply1>>
  BY DEF Take, Goto, disk, pass, result
<1>2. p \in Parts /\ limit \in Nat /\ asked \in Nat \ {0} /\ DbDepth \in Nat
  BY DiskFacts, DatabaseFacts, LimitAssumption DEF IInv, Shapes
<1>3. Shapes'
  BY <1>1, <1>2 DEF IInv, Shapes, Parts, Files, Numbered
<1>4. Scanning'
  <2>1. CASE asked > DbDepth
    <3>1. main' = "read" /\ file' = p /\ got' = 0
      BY <1>1, <1>2, <2>1
    <3>2. Taken' = Taken \cup {p} /\ p \notin Taken
      BY <1>1, <1>2 DEF Taken, Parts
    <3>3. Finished' = Finished
      BY <3>1, <3>2 DEF Finished
    <3>4. Covered' = Covered
      BY <1>1, <3>3 DEF Covered
    <3>5. cut[p].from \in Nat /\ files[p].entries \in Nat
      BY <1>2, DiskFacts
    <3>6. cut[p].from..cut[p].from + 0 - 1 = {}
      BY <3>5
    <3>7. IsFiniteSet(Covered) /\ Cardinality(Covered) = found
      BY <2>1 DEF IInv, Scanning
    <3>8. /\ \A q \in Finished : Complete(q)
          /\ \A x \in Covered : table[x] = leaf[x]
      BY <2>1 DEF IInv, Scanning
    <3>. QED
      BY <1>1, <3>1, <3>2, <3>3, <3>4, <3>5, <3>6, <3>7, <3>8 DEF Scanning, Complete
  <2>2. CASE ~(asked > DbDepth)
    BY <1>1, <2>2 DEF Scanning
  <2>. QED
    BY <2>1, <2>2
<1>. QED
  BY <1>1, <1>2, <1>3, <1>4 DEF IInv, Shapes, Modest, SumsAreRight, Summing, BufferIsFile, Accepted

(* Results are put into the table.                                         *)
LEMMA StoreStep ==
  ASSUME IInv, main = "read", NEW n, n = Smaller(ResultEntries, files[file].entries - got),
         Store(n), UNCHANGED <<disk, result>>
  PROVE  IInv'
<1>. DEFINE from == cut[file].from
            num == cut[file].num
<1>1. /\ got' = got + n
      /\ table' = [x \in LastPly |-> IF x \in from + got..from + got + n - 1 THEN leaf[x] ELSE table[x]]
      /\ \/ main' = "scan" /\ got' = num /\ found' = found + num
         \/ UNCHANGED <<main, found>> /\ got' # num
      /\ UNCHANGED <<left, open, file, depth, ply, i, offset, buf, index, count, exit,
                     asked, made, cut, leaf, files, limit, perft, ply1>>
  BY DEF Store, disk, pass, result
<1>2. /\ asked > DbDepth /\ depth # 0 /\ depth = asked /\ file \in Taken /\ file \in Parts
      /\ got \in Nat /\ found \in Nat /\ got <= files[file].entries
      /\ files[file].header = "full"
      /\ table \in [LastPly -> Nat] /\ leaf \in [LastPly -> Nat]
      /\ cut \in Cuts
  BY DEF IInv, Shapes, Modest, Scanning, Taken
<1>3. /\ from \in Nat /\ num \in Nat /\ files[file].entries \in Nat /\ files[file].entries <= num
      /\ files[file].torn => files[file].entries < num
      /\ files[file] = [header |-> files[file].header, entries |-> files[file].entries,
                        torn |-> files[file].torn]
      /\ files[file].torn \in BOOLEAN
  BY <1>2, DiskFacts
<1>4. n \in Nat /\ got + n <= files[file].entries /\ got + n \in Nat
  BY <1>2, <1>3, LimitAssumption DEF Smaller
<1>5. table' \in [LastPly -> Nat]
  BY <1>1, <1>2
<1>6. Interval(cut[file]) = from..from + num - 1 /\ Interval(cut[file]) \subseteq LastPly
  BY <1>2, CutFacts DEF Interval, Parts
<1>7. \A x \in from..from + got + n - 1 : table'[x] = leaf[x]
  <2>. SUFFICES ASSUME NEW x \in from..from + got + n - 1 PROVE table'[x] = leaf[x]
    OBVIOUS
  <2>1. x \in LastPly
    <3>1. x \in from..from + num - 1
      BY <1>2, <1>3, <1>4
    <3>. QED
      BY <1>6, <3>1
  <2>2. x \in from..from + got - 1 => table[x] = leaf[x]
    BY <1>2 DEF IInv, Scanning
  <2>3. x \in from..from + got - 1 \/ x \in from + got..from + got + n - 1
    BY <1>2, <1>3, <1>4
  <2>. QED
    BY <1>1, <2>1, <2>2, <2>3
<1>8. Finished = Taken \ {file} /\ Taken' = Taken /\ Finished \subseteq Parts
  BY <1>1 DEF Finished, Taken, Parts
<1>9. /\ IsFiniteSet(Covered) /\ Cardinality(Covered) = found
      /\ \A p \in Finished : Complete(p)
      /\ \A x \in Covered : table[x] = leaf[x]
  BY <1>2 DEF IInv, Scanning
<1>10. \A x \in Covered : table'[x] = leaf[x]
  <2>. SUFFICES ASSUME NEW p \in Finished, NEW x \in Interval(cut[p])
                PROVE  table'[x] = leaf[x]
    BY DEF Covered
  <2>1. Interval(cut[p]) \cap Interval(cut[file]) = {} /\ Interval(cut[p]) \subseteq LastPly
    BY <1>2, <1>8, CutFacts DEF Parts
  <2>2. x \in LastPly /\ x \notin from..from + num - 1 /\ x \in Int
    BY <1>6, <2>1 DEF Interval
  <2>3. x \notin from + got..from + got + n - 1
    BY <1>2, <1>3, <1>4, <2>2
  <2>4. table[x] = leaf[x]
    BY <1>9 DEF Covered
  <2>. QED
    BY <1>1, <2>2, <2>3, <2>4
<1>11. Modest' /\ Accepted'
  <2>1. exit' = "none" /\ made' = DbDepth /\ ~(asked' <= DbDepth) /\ asked' > DbDepth
        /\ depth' # 0
    BY <1>1, <1>2, DiskFacts, DatabaseFacts DEF IInv, Shapes, Modest
  <2>. QED
    BY <1>1, <2>1 DEF Modest, Accepted
<1>12. CASE main' = "scan" /\ got' = num /\ found' = found + num
  <2>1. Complete(file)
    <3>1. files[file].entries = num
      BY <1>1, <1>2, <1>3, <1>4, <1>12
    <3>2. files[file].torn = FALSE
      BY <1>3, <3>1
    <3>. QED
      BY <1>2, <1>3, <3>1, <3>2 DEF Complete
  <2>2. Finished' = Finished \cup {file} /\ file \notin Finished
    BY <1>2, <1>8, <1>12 DEF Finished
  <2>3. /\ Covered' = Covered \cup Interval(cut[file])
        /\ IsFiniteSet(Covered') /\ Cardinality(Covered') = Cardinality(Covered) + num
    <3>1. Covered' = UNION {Interval(cut[q]) : q \in Finished \cup {file}}
      BY <1>1, <2>2 DEF Covered
    <3>2. Finished \in SUBSET DOMAIN cut /\ file \in DOMAIN cut \ Finished
      BY <1>2, <1>8, <2>2 DEF Parts
    <3>3. IsFiniteSet(UNION {Interval(cut[q]) : q \in Finished})
      BY <1>9 DEF Covered
    <3>. QED
      BY <1>2, <3>1, <3>2, <3>3, OneMorePart DEF Covered
  <2>4. \A x \in Interval(cut[file]) : table'[x] = leaf[x]
    <3>1. from + got + n - 1 = from + num - 1
      BY <1>1, <1>2, <1>3, <1>4, <1>12
    <3>. QED
      BY <1>6, <1>7, <3>1
  <2>5. \A p \in Finished' : Complete(p)'
    BY <1>1, <1>9, <2>1, <2>2 DEF Complete
  <2>6. \A x \in Covered' : table'[x] = leaf'[x]
    BY <1>1, <1>10, <2>3, <2>4
  <2>7. Scanning'
    BY <1>9, <1>12, <2>3, <2>5, <2>6 DEF Scanning
  <2>8. Shapes'
    <3>1. got' \in Nat /\ found' \in Nat /\ exit' = "none"
      BY <1>1, <1>2, <1>3, <1>12 DEF IInv, Shapes
    <3>. QED
      BY <1>1, <1>5, <1>12, <3>1 DEF IInv, Shapes, Parts, Files, Numbered
  <2>. QED
    BY <1>12, <1>11, <2>7, <2>8 DEF IInv, SumsAreRight, Summing, BufferIsFile
<1>13. CASE UNCHANGED <<main, found>> /\ got' # num
  <2>1. Finished' = Finished /\ Covered' = Covered
    BY <1>1, <1>8, <1>13 DEF Finished, Covered
  <2>2. \A p \in Finished' : Complete(p)'
    BY <1>1, <1>9, <2>1 DEF Complete
  <2>3. /\ file' \in Taken' /\ got' <= files'[file'].entries
        /\ \A x \in cut'[file'].from..cut'[file'].from + got' - 1 : table'[x] = leaf'[x]
    <3>1. from + got' - 1 = from + got + n - 1
      BY <1>1, <1>2, <1>3, <1>4
    <3>. QED
      BY <1>1, <1>2, <1>4, <1>7, <1>8, <3>1
  <2>4. IsFiniteSet(Covered') /\ Cardinality(Covered') = found'
        /\ \A x \in Covered' : table'[x] = leaf'[x]
    BY <1>1, <1>9, <1>10, <1>13, <2>1
  <2>5. Scanning'
    BY <1>1, <1>2, <2>2, <2>3, <2>4 DEF Scanning
  <2>6. Shapes'
    <3>1. got' \in Nat
      BY <1>1, <1>4
    <3>. QED
      BY <1>1, <1>5, <1>13, <3>1 DEF IInv, Shapes, Parts, Files, Numbered
  <2>. QED
    BY <1>13, <1>11, <2>5, <2>6 DEF IInv, SumsAreRight, Summing, BufferIsFile
<1>. QED
  BY <1>1, <1>12, <1>13

(* All files have been looked at.                                          *)
LEMMA ScannedStep == IInv /\ Scanned => IInv'
<1>. SUFFICES ASSUME IInv, Scanned PROVE IInv'
  OBVIOUS
<1>1. /\ main = "scan" /\ main' = "check"
      /\ UNCHANGED <<left, open, file, got, found, depth, table, ply, i, offset, buf, index,
                     count, exit, asked, made, cut, leaf, files, limit, perft, ply1>>
  BY DEF Scanned, Goto, disk, scan, pass, result
<1>2. Shapes'
  BY <1>1 DEF IInv, Shapes, Parts, Files, Numbered
<1>3. Finished' = Finished /\ Covered' = Covered
  BY <1>1 DEF Finished, Taken, Covered, Parts
<1>4. Scanning'
  BY <1>1, <1>3 DEF IInv, Scanning, Complete
<1>. QED
  BY <1>1, <1>2, <1>4 DEF IInv, Shapes, Modest, SumsAreRight, Summing, BufferIsFile, Accepted

(* If as many results were found as the last ply has positions, they are   *)
(* the results of all parts, and the table has what the counts found.      *)
LEMMA EveryResult ==
  ASSUME IInv, main = "check", asked > DbDepth, found = Size[DbDepth]
  PROVE  table = leaf /\ \A p \in Parts : cut[p].num > 0 => Complete(p)
<1>1. /\ cut \in Cuts /\ table \in [LastPly -> Nat] /\ leaf \in [LastPly -> Nat]
      /\ Cardinality(Covered) = found
      /\ \A p \in Finished : Complete(p)
      /\ \A x \in Covered : table[x] = leaf[x]
      /\ Finished \subseteq Parts
  BY DEF IInv, Shapes, Scanning, Finished, Taken
<1>2. /\ \A p \in Parts : /\ cut[p].from \in Nat /\ cut[p].num \in Nat
                           /\ Interval(cut[p]) \subseteq LastPly
      /\ \A p, q \in Parts : p # q => Interval(cut[p]) \cap Interval(cut[q]) = {}
  BY <1>1, CutFacts DEF Parts
<1>3. Covered = LastPly
  <2>1. Covered \subseteq LastPly
    BY <1>1, <1>2 DEF Covered
  <2>. QED
    BY <1>1, <2>1, WholePly
<1>4. table = leaf
  BY <1>1, <1>3
<1>5. ASSUME NEW p \in Parts, cut[p].num > 0 PROVE Complete(p)
  <2>1. cut[p].from \in Interval(cut[p])
    BY <1>2, <1>5 DEF Interval
  <2>2. PICK q \in Finished : cut[p].from \in Interval(cut[q])
    BY <1>2, <1>3, <2>1 DEF Covered
  <2>3. q = p
    BY <1>1, <1>2, <2>1, <2>2
  <2>. QED
    BY <1>1, <2>3
<1>. QED
  BY <1>4, <1>5

-----------------------------------------------------------------------------
(* A pass begins with the first position and an empty buffer.              *)
LEMMA StartPassKeeps ==
  ASSUME IInv, NEW what \in {"deep", "last", "tree"}, NEW p \in Plies, StartPass(what, p),
         UNCHANGED <<disk, result>>, exit = "none"
  PROVE  /\ Shapes'  /\ BufferIsFile' /\ Accepted'
         /\ main' = what /\ ply' = p /\ i' = 0
         /\ UNCHANGED <<left, open, file, got, found, depth, table, count, exit,
                        asked, made, cut, leaf, files, limit, perft, ply1>>
<1>1. /\ main' = what /\ ply' = p /\ i' = 0 /\ offset' = 0 /\ buf' = <<>> /\ index' = 0
      /\ UNCHANGED <<left, open, file, got, found, depth, table, count, exit,
                     asked, made, cut, leaf, files, limit, perft, ply1>>
  BY DEF StartPass, disk, scan, result
<1>2. /\ DbDepth \in Nat /\ Size[p] \in Nat \ {0} /\ MoveStart[p][0] = 0
      /\ MoveFile[p] \in Seq(Nat)
  BY DatabaseFacts DEF Plies
<1>3. Shapes'
  BY <1>1, <1>2 DEF IInv, Shapes, Parts, Files, Numbered
<1>4. BufferIsFile'
  <2>1. buf' \in Seq(Nat) /\ Len(buf') = 0
    BY <1>1, EmptySeq
  <2>2. Len(MoveFile[ply']) \in Nat
    BY <1>1, <1>2
  <2>3. index' \in 0..Len(buf') /\ offset' \in Len(buf')..Len(MoveFile[ply'])
    BY <1>1, <2>1, <2>2
  <2>4. offset' - Len(buf') + index' = MoveStart[ply'][i']
    <3>1. 0 - 0 + 0 = MoveStart[p][0]
      BY <1>2
    <3>. QED
      BY <1>1, <2>1, <3>1
  <2>5. \A k \in 1..Len(buf') : buf'[k] = MoveFile[ply'][offset' - Len(buf') + k]
    BY <2>1
  <2>. QED
    BY <2>1, <2>3, <2>4, <2>5 DEF BufferIsFile, Buffered
<1>. QED
  BY <1>1, <1>3, <1>4 DEF Accepted

(* The sums leave what was scanned alone.                                  *)
LEMMA ScanKept ==
  ASSUME IInv, main \notin {"scan", "read", "done"}, main' \notin {"scan", "read", "done"},
         UNCHANGED <<left, open, file, got, found, depth, table,
                     asked, made, cut, leaf, files, limit>>
  PROVE  Scanning' /\ Modest'
<1>1. Finished' = Finished /\ Covered' = Covered
  BY DEF Finished, Taken, Covered, Parts
<1>2. Scanning'
  BY <1>1 DEF IInv, Scanning, Complete
<1>. QED
  BY <1>2 DEF IInv, Modest

(* The total is compared, and the first pass begins.                       *)
LEMMA CheckTotalStep == IInv /\ CheckTotal => IInv'
<1>. SUFFICES ASSUME IInv, CheckTotal PROVE IInv'
  OBVIOUS
<1>1. main = "check" /\ exit = "none" /\ UNCHANGED <<disk, result>>
  BY DEF CheckTotal, IInv, Shapes
<1>2. /\ asked \in Nat \ {0} /\ DbDepth \in Nat /\ DbDepth > 1 /\ depth \in {0, asked}
  BY DiskFacts, DatabaseFacts DEF IInv, Shapes
<1>3. CASE Die("nofiles") \/ Die("total") \/ Die("files")
  BY <1>1, <1>3, DieStep
<1>4. CASE depth > DbDepth /\ found = Size[DbDepth] /\ StartPass("deep", DbDepth - 1)
  <2>1. DbDepth - 1 \in Plies /\ depth = asked /\ asked > DbDepth /\ depth # 0
    BY <1>2, <1>4 DEF Plies
  <2>2. table = leaf /\ \A p \in Parts : cut[p].num > 0 => Complete(p)
    BY <1>1, <1>4, <2>1, EveryResult
  <2>3. /\ Shapes' /\ BufferIsFile' /\ Accepted'
        /\ main' = "deep" /\ ply' = DbDepth - 1 /\ i' = 0
        /\ UNCHANGED <<left, open, file, got, found, depth, table, count, exit,
                       asked, made, cut, leaf, files, limit, perft, ply1>>
    BY <1>1, <1>4, <2>1, StartPassKeeps
  <2>4. Scanning' /\ Modest'
    BY <1>1, <2>3, ScanKept
  <2>5. Top' = DbDepth - 1 /\ asked' > DbDepth /\ depth' = asked'
    BY <2>1, <2>3 DEF Top
  <2>6. \A p \in Plies : ~(p > ply' /\ p <= Top')
    BY <1>2, <2>3, <2>5 DEF Plies
  <2>7. \A x \in Positions(ply') : ~(x < i')
    BY <1>2, <2>3, DatabaseFacts DEF Positions, Plies
  <2>8. table' = leaf' /\ \A p \in Parts' : cut'[p].num > 0 => Complete(p)'
    BY <2>2, <2>3 DEF Parts, Complete
  <2>9. SumsAreRight'
    BY <2>3, <2>5, <2>6, <2>7, <2>8 DEF SumsAreRight
  <2>. QED
    BY <2>3, <2>4, <2>9 DEF IInv
<1>5. CASE depth \in 1..DbDepth /\ StartPass("last", depth - 1)
  <2>1. depth - 1 \in Plies /\ depth = asked /\ asked <= DbDepth /\ ~(asked > DbDepth)
    BY <1>2, <1>5 DEF Plies
  <2>2. /\ Shapes' /\ BufferIsFile' /\ Accepted'
        /\ main' = "last" /\ ply' = asked - 1 /\ i' = 0
        /\ UNCHANGED <<left, open, file, got, found, depth, table, count, exit,
                       asked, made, cut, leaf, files, limit, perft, ply1>>
    BY <1>1, <1>5, <2>1, StartPassKeeps
  <2>3. Scanning' /\ Modest'
    BY <1>1, <2>2, ScanKept
  <2>4. Top' = asked - 1 /\ asked' <= DbDepth /\ ~(asked' > DbDepth) /\ depth' = asked'
        /\ ply' = asked' - 1
    BY <2>1, <2>2 DEF Top
  <2>5. \A p \in Plies : ~(p > ply' /\ p <= Top')
    BY <1>2, <2>2, <2>4 DEF Plies
  <2>6. \A x \in Positions(ply') : ~(x < i')
    BY <1>2, <2>1, <2>2, DatabaseFacts DEF Positions, Plies
  <2>7. SumsAreRight'
    BY <2>2, <2>4, <2>5, <2>6 DEF SumsAreRight
  <2>. QED
    BY <2>2, <2>3, <2>7 DEF IInv
<1>. QED
  BY <1>3, <1>4, <1>5 DEF CheckTotal

(* One counter is written: what was right stays right.                     *)
LEMMA OneCounter ==
  ASSUME IInv, Summing, i < Size[ply], NEW v,
         count' = [count EXCEPT ![ply][i] = v], i' = i + 1,
         UNCHANGED <<disk, scan, ply, main, exit, result>>
  PROVE  /\ i \in Positions(ply) /\ ply \in Plies /\ i' \in 0..Size[ply]
         /\ Shapes' /\ Scanning' /\ Modest' /\ Accepted'
         /\ count'[ply][i] = v
         /\ \A p \in Plies : p # ply => count'[p] = count[p]
         /\ \A x \in Positions(ply) : x # i => count'[ply][x] = count[ply][x]
<1>1. /\ ply \in Plies /\ i \in 0..Size[ply] /\ exit = "none"
      /\ count = [p \in Plies |-> count[p]]
      /\ \A p \in Plies : count[p] = [x \in Positions(p) |-> count[p][x]]
  BY DEF IInv, Shapes, Summing
<1>2. Size[ply] \in Nat \ {0} /\ ply \in Nat
  BY <1>1, DatabaseFacts DEF Plies
<1>3. i \in Positions(ply) /\ i' \in 0..Size[ply]
  BY <1>1, <1>2 DEF Positions
<1>4. UNCHANGED <<left, open, file, got, found, depth, table, ply, main, exit,
                  asked, made, cut, leaf, files, limit, perft, ply1>>
  BY DEF disk, scan, result
<1>5. /\ count' = [p \in Plies |-> IF p = ply THEN [count[ply] EXCEPT ![i] = v] ELSE count[p]]
      /\ count'[ply] = [x \in Positions(ply) |-> IF x = i THEN v ELSE count[ply][x]]
      /\ \A p \in Plies : p # ply => count'[p] = count[p]
  <2>1. count' = [p \in Plies |-> IF p = ply THEN [count[ply] EXCEPT ![i] = v] ELSE count[p]]
    BY <1>1
  <2>2. count'[ply] = [count[ply] EXCEPT ![i] = v]
    BY <1>1, <2>1
  <2>3. [count[ply] EXCEPT ![i] = v] = [x \in Positions(ply) |-> IF x = i THEN v ELSE count[ply][x]]
    <3>. DEFINE row == count[ply]
    <3>1. row = [x \in Positions(ply) |-> row[x]]
      BY <1>1
    <3>. HIDE DEF row
    <3>2. [row EXCEPT ![i] = v] = [x \in Positions(ply) |-> IF x = i THEN v ELSE row[x]]
      BY <3>1
    <3>. QED
      BY <3>2 DEF row
  <2>. QED
    BY <1>1, <2>1, <2>2, <2>3
<1>6. /\ count' = [p \in Plies |-> count'[p]]
      /\ \A p \in Plies : count'[p] = [x \in Positions(p) |-> count'[p][x]]
  BY <1>1, <1>5
<1>7. Shapes'
  BY <1>3, <1>4, <1>6 DEF IInv, Shapes, Parts, Files, Numbered
<1>8. Scanning' /\ Modest'
  BY <1>4, ScanKept DEF Summing
<1>9. Accepted'
  BY <1>1, <1>4 DEF Accepted
<1>. QED
  BY <1>1, <1>3, <1>5, <1>7, <1>8, <1>9

(* The counter written is right if it is formed as it should be.           *)
LEMMA OneSum ==
  ASSUME IInv, Summing, i < Size[ply], NEW v,
         v = IF ply = asked - 1 THEN NumMoves[ply][i]
             ELSE Sum(IF ply = DbDepth - 1 THEN leaf ELSE count[ply + 1], MovesOf(ply, i)),
         count' = [count EXCEPT ![ply][i] = v], i' = i + 1,
         UNCHANGED <<disk, scan, ply, main, exit, result>>
  PROVE  SumsAreRight'
<1>1. /\ i \in Positions(ply) /\ ply \in Plies
      /\ count'[ply][i] = v
      /\ \A p \in Plies : p # ply => count'[p] = count[p]
      /\ \A x \in Positions(ply) : x # i => count'[ply][x] = count[ply][x]
  BY OneCounter
<1>2. /\ DbDepth \in Nat /\ ply \in Nat /\ i \in Nat
      /\ \A x \in Positions(ply) : x \in Nat
  BY <1>1, DatabaseFacts DEF Plies, Positions
<1>3. UNCHANGED <<left, open, file, got, found, depth, table, ply, main,
                  asked, made, cut, leaf, files, limit>>
  BY DEF disk, scan
<1>4. \A p \in Plies : p >= ply => p = DbDepth - 1 \/ count'[p + 1] = count[p + 1]
  BY <1>1, <1>2 DEF Plies
<1>5. ASSUME NEW p \in Plies, p > ply, NEW x, RightAt(p, x)
      PROVE  RightAt(p, x)'
  <2>1. p # ply /\ p >= ply
    BY <1>2, <1>5 DEF Plies
  <2>2. count'[p] = count[p] /\ (p = DbDepth - 1 \/ count'[p + 1] = count[p + 1])
    BY <1>1, <1>4, <2>1
  <2>. QED
    BY <1>3, <1>5, <2>2 DEF RightAt
<1>6. ASSUME NEW x \in Positions(ply), x < i' PROVE RightAt(ply, x)'
  <2>1. ply = DbDepth - 1 \/ count'[ply + 1] = count[ply + 1]
    BY <1>1, <1>2, <1>4
  <2>2. CASE x = i
    BY <1>1, <1>3, <2>1, <2>2 DEF RightAt
  <2>3. CASE x # i
    <3>1. x < i
      BY <1>2, <1>6, <2>3
    <3>2. RightAt(ply, x)
      BY <3>1 DEF IInv, SumsAreRight
    <3>. QED
      BY <1>1, <1>3, <2>1, <2>3, <3>2 DEF RightAt
  <2>. QED
    BY <2>2, <2>3
<1>7. Top' = Top
  BY <1>3 DEF Top
<1>8. \A p \in Plies : p > ply' /\ p <= Top' => \A x \in Positions(p) : RightAt(p, x)'
  BY <1>3, <1>5, <1>7 DEF IInv, SumsAreRight
<1>9. \A x \in Positions(ply') : x < i' => RightAt(ply, x)'
  BY <1>3, <1>6
<1>10. /\ depth' = asked'
       /\ asked' > DbDepth => table' = leaf' /\ \A p \in Parts' : cut'[p].num > 0 => Complete(p)'
       /\ main' = "deep" => asked' > DbDepth /\ ply' = DbDepth - 1
       /\ main' = "last" => asked' <= DbDepth /\ ply' = asked' - 1
       /\ main' = "tree" => ply' < Top'
  BY <1>3, <1>7 DEF IInv, SumsAreRight, Parts, Complete
<1>. QED
  BY <1>3, <1>8, <1>9, <1>10 DEF SumsAreRight, RightAt

(* A position whose moves are counted.                                     *)
LEMMA CountMovesStep == IInv /\ CountMoves => IInv'
<1>. SUFFICES ASSUME IInv, CountMoves PROVE IInv'
  OBVIOUS
<1>1. /\ main = "last" /\ i < Size[ply] /\ Summing
      /\ count' = [count EXCEPT ![ply][i] = NumMoves[ply][i]] /\ i' = i + 1
      /\ UNCHANGED <<disk, scan, ply, main, exit, result>>
  BY DEF CountMoves, Summing
<1>2. ply = asked - 1
  BY <1>1 DEF IInv, SumsAreRight
<1>3. Shapes' /\ Scanning' /\ Modest' /\ Accepted'
  BY <1>1, OneCounter
<1>4. SumsAreRight'
  BY <1>1, <1>2, OneSum
<1>5. BufferIsFile'
  BY <1>1 DEF BufferIsFile
<1>. QED
  BY <1>3, <1>4, <1>5 DEF IInv

(* A position whose moves are summed up.                                   *)
LEMMA SumPositionStep == IInv /\ SumPosition => IInv'
<1>. SUFFICES ASSUME IInv, SumPosition PROVE IInv'
  OBVIOUS
<1>. DEFINE num == NumMoves[ply][i]
            next == Refilled(num)
            row == IF main = "deep" THEN table ELSE count[ply + 1]
            moves == SubSeq(next.buf, next.index + 1, next.index + num)
<1>1. /\ main \in {"deep", "tree"} /\ i < Size[ply] /\ Summing
      /\ next.index + num <= Len(next.buf)
      /\ count' = [count EXCEPT ![ply][i] = Sum(row, moves)]
      /\ buf' = next.buf /\ offset' = next.offset /\ index' = next.index + num /\ i' = i + 1
      /\ UNCHANGED <<disk, scan, ply, main, exit, result>>
  BY DEF SumPosition, Summing
<1>. HIDE DEF next, row, moves
<1>2. i \in Positions(ply) /\ ply \in Plies /\ Shapes' /\ Scanning' /\ Modest' /\ Accepted'
  BY <1>1, OneCounter
<1>3. Buffered(next.buf, next.index, next.offset)
  BY <1>1, <1>2, RefillKeeps DEF IInv, BufferIsFile, next
<1>4. moves = MovesOf(ply, i)
  BY <1>1, <1>2, <1>3, NextMoves DEF moves
<1>5. row = (IF ply = DbDepth - 1 THEN leaf ELSE count[ply + 1]) /\ ply # asked - 1
  <2>1. asked \in Nat \ {0} /\ DbDepth \in Nat /\ ply \in Nat
    BY <1>2, DiskFacts, DatabaseFacts DEF Plies
  <2>2. CASE main = "deep"
    BY <1>1, <2>1, <2>2 DEF IInv, SumsAreRight, row
  <2>3. CASE main = "tree"
    BY <1>1, <2>1, <2>3 DEF IInv, SumsAreRight, Top, row
  <2>. QED
    BY <1>1, <2>2, <2>3
<1>6. SumsAreRight'
  BY <1>1, <1>4, <1>5, OneSum
<1>7. BufferIsFile'
  <2>1. /\ num \in Nat /\ MoveStart[ply][i] \in Nat /\ MoveStart[ply][i + 1] = MoveStart[ply][i] + num
        /\ MoveFile[ply] \in Seq(Nat)
    BY <1>2, DatabaseFacts, LimitAssumption
  <2>2. /\ next.buf \in Seq(Nat) /\ next.index \in 0..Len(next.buf)
        /\ next.offset \in Len(next.buf)..Len(MoveFile[ply])
        /\ next.offset - Len(next.buf) + next.index = MoveStart[ply][i]
        /\ \A k \in 1..Len(next.buf) : next.buf[k] = MoveFile[ply][next.offset - Len(next.buf) + k]
    BY <1>3 DEF Buffered
  <2>. HIDE DEF num
  <2>3. /\ next.index + num \in 0..Len(next.buf)
        /\ next.offset - Len(next.buf) + (next.index + num) = MoveStart[ply][i + 1]
    <3>1. Len(next.buf) \in Nat /\ Len(MoveFile[ply]) \in Nat
      BY <2>1, <2>2
    <3>2. next.offset \in Nat /\ next.index \in Nat
      BY <2>2, <3>1
    <3>3. next.index + num <= Len(next.buf) /\ num \in Nat
      BY <1>1, <2>1
    <3>4. next.offset - Len(next.buf) + next.index = MoveStart[ply][i] /\ MoveStart[ply][i] \in Nat
      BY <2>1, <2>2
    <3>5. next.index + num \in 0..Len(next.buf)
      BY <3>1, <3>2, <3>3
    <3>6. next.offset - Len(next.buf) + (next.index + num) = MoveStart[ply][i] + num
      BY <3>1, <3>2, <3>3, <3>4
    <3>. QED
      BY <2>1, <3>5, <3>6
  <2>. QED
    BY <1>1, <2>2, <2>3 DEF BufferIsFile, Buffered
<1>. QED
  BY <1>2, <1>6, <1>7 DEF IInv

(* The pass over the ply before begins.                                    *)
LEMMA NextPlyStep == IInv /\ NextPly => IInv'
<1>. SUFFICES ASSUME IInv, NextPly PROVE IInv'
  OBVIOUS
<1>1. /\ asked \in Nat \ {0} /\ DbDepth \in Nat /\ DbDepth > 1 /\ ply \in Plies /\ ply \in Nat
      /\ Summing /\ depth = asked /\ exit = "none"
      /\ i = Size[ply] /\ UNCHANGED <<disk, result>>
  BY DiskFacts, DatabaseFacts DEF NextPly, IInv, Shapes, SumsAreRight, Summing, Plies
<1>2. ply <= Top /\ ply > 0 /\ StartPass("tree", ply - 1)
  <2>1. CASE main = "deep" /\ depth > 1 /\ StartPass("tree", IF depth > DbDepth THEN DbDepth - 2 ELSE depth - 2)
    <3>1. asked > DbDepth /\ ply = DbDepth - 1
      BY <2>1 DEF IInv, SumsAreRight, Summing
    <3>2. ply - 1 = DbDepth - 2 /\ ply > 0 /\ ply <= Top
      BY <1>1, <3>1 DEF Top
    <3>. QED
      BY <1>1, <2>1, <3>1, <3>2
  <2>2. CASE main = "last" /\ depth > 1 /\ StartPass("tree", IF depth > DbDepth THEN DbDepth - 2 ELSE depth - 2)
    <3>1. ~(asked > DbDepth) /\ ply = asked - 1 /\ asked > 1
      BY <1>1, <2>2 DEF IInv, SumsAreRight, Summing
    <3>2. ply - 1 = asked - 2 /\ ply > 0 /\ ply <= Top
      BY <1>1, <3>1 DEF Top
    <3>. QED
      BY <1>1, <2>2, <3>1, <3>2
  <2>3. CASE main = "tree" /\ ply > 0 /\ StartPass("tree", ply - 1)
    <3>1. ply < Top
      BY <2>3 DEF IInv, SumsAreRight, Summing
    <3>. QED
      BY <1>1, <2>3, <3>1 DEF Top
  <2>. QED
    BY <2>1, <2>2, <2>3 DEF NextPly
<1>3. ply - 1 \in Plies
  BY <1>1, <1>2 DEF Plies
<1>4. /\ Shapes' /\ BufferIsFile' /\ Accepted'
      /\ main' = "tree" /\ ply' = ply - 1 /\ i' = 0
      /\ UNCHANGED <<left, open, file, got, found, depth, table, count, exit,
                     asked, made, cut, leaf, files, limit, perft, ply1>>
  BY <1>1, <1>2, <1>3, StartPassKeeps
<1>5. Scanning' /\ Modest'
  BY <1>1, <1>4, ScanKept DEF Summing
<1>6. Top' = Top /\ ply' < Top'
  BY <1>1, <1>2, <1>4 DEF Top
<1>7. ASSUME NEW p \in Plies, p > ply', p <= Top, NEW x \in Positions(p)
      PROVE  RightAt(p, x)'
  <2>1. p \in Nat /\ (p = ply \/ p > ply)
    BY <1>1, <1>4, <1>7 DEF Plies
  <2>2. CASE p = ply
    <3>1. Size[ply] \in Nat /\ x < i
      BY <1>1, <1>7, <2>2, DatabaseFacts DEF Plies, Positions
    <3>. QED
      BY <1>1, <1>4, <1>7, <2>2, <3>1 DEF IInv, SumsAreRight, RightAt
  <2>3. CASE p > ply
    BY <1>1, <1>4, <1>7, <2>3 DEF IInv, SumsAreRight, RightAt
  <2>. QED
    BY <2>1, <2>2, <2>3
<1>8. \A x \in Positions(ply') : ~(x < i')
  BY <1>3, <1>4, DatabaseFacts DEF Positions, Plies
<1>9. asked' > DbDepth => table' = leaf' /\ \A p \in Parts' : cut'[p].num > 0 => Complete(p)'
  BY <1>1, <1>4 DEF IInv, SumsAreRight, Parts, Complete
<1>10. \A p \in Plies : p > ply' /\ p <= Top' => \A x \in Positions(p) : RightAt(p, x)'
  BY <1>6, <1>7
<1>11. SumsAreRight'
  BY <1>1, <1>4, <1>6, <1>8, <1>9, <1>10 DEF SumsAreRight
<1>. QED
  BY <1>4, <1>5, <1>11 DEF IInv

(* The result is given.                                                    *)
LEMMA ReportStep == IInv /\ Report => IInv'
<1>. SUFFICES ASSUME IInv, Report PROVE IInv'
  OBVIOUS
<1>1. /\ asked \in Nat \ {0} /\ DbDepth \in Nat /\ DbDepth > 1 /\ ply \in Plies /\ ply \in Nat
      /\ Summing /\ depth = asked /\ i = Size[ply]
      /\ main' = "done" /\ exit' = "ok" /\ perft' = count[0][0]
      /\ UNCHANGED <<left, open, file, got, found, depth, table, ply, i, offset, buf, index,
                     count, asked, made, cut, leaf, files, limit>>
  BY DiskFacts, DatabaseFacts
     DEF Report, IInv, Shapes, SumsAreRight, Summing, Plies, disk, scan, pass
<1>2. ply = 0
  BY <1>1 DEF Report, IInv, SumsAreRight
<1>3. Shapes'
  BY <1>1 DEF IInv, Shapes, Parts, Files, Numbered
<1>4. Top' = Top
  BY <1>1 DEF Top
<1>5. ASSUME NEW p \in Plies, p <= Top, NEW x \in Positions(p) PROVE RightAt(p, x)'
  <2>1. RightAt(p, x)
    <3>1. p \in Nat /\ (p = ply \/ p > ply)
      BY <1>1, <1>2 DEF Plies
    <3>2. p = ply => x < i
      BY <1>1, DatabaseFacts DEF Plies, Positions
    <3>. QED
      BY <1>1, <1>5, <3>1, <3>2 DEF IInv, SumsAreRight
  <2>. QED
    BY <1>1, <2>1 DEF RightAt
<1>6. asked > DbDepth => /\ made = DbDepth /\ table = leaf
                         /\ \A p \in Parts : cut[p].num > 0 => Complete(p)
  BY <1>1 DEF IInv, Modest, SumsAreRight, Summing
<1>7. Accepted'
  <2>1. asked' > DbDepth => /\ made' = DbDepth /\ table' = leaf'
                            /\ \A p \in Parts' : cut'[p].num > 0 => Complete(p)'
    BY <1>1, <1>6 DEF Parts, Complete
  <2>2. \A p \in Plies : p <= Top' => \A x \in Positions(p) : RightAt(p, x)'
    BY <1>4, <1>5
  <2>3. perft' = count'[0][0]
    BY <1>1
  <2>. QED
    BY <2>1, <2>2, <2>3 DEF Accepted
<1>. QED
  BY <1>1, <1>3, <1>7 DEF IInv, Scanning, Modest, SumsAreRight, Summing, BufferIsFile

-----------------------------------------------------------------------------
(* Every step keeps the invariant.                                         *)
LEMMA NextIInv == IInv /\ [Next]_vars => IInv'
<1>. SUFFICES ASSUME IInv, [Next]_vars PROVE IInv'
  OBVIOUS
<1>1. CASE \E p \in left : OpenFile(p)
  <2>1. PICK p \in left : OpenFile(p)
    BY <1>1
  <2>2. CASE Die("files") \/ Die("header") \/ Die("database")
    BY <2>1, <2>2, DieStep DEF OpenFile
  <2>3. CASE open < limit /\ files[p].header = "full" /\ made = DbDepth /\ Take(p)
    BY <2>1, <2>3, TakeStep DEF OpenFile
  <2>. QED
    BY <2>1, <2>2, <2>3 DEF OpenFile
<1>2. CASE ReadResults
  <2>. DEFINE n == Smaller(ResultEntries, files[file].entries - got)
  <2>1. main = "read" /\ UNCHANGED <<disk, result>>
        /\ (Die("odd") \/ Die("counter") \/ Die("short") \/ Store(n))
    BY <1>2 DEF ReadResults
  <2>2. CASE Store(n)
    BY <2>1, <2>2, StoreStep
  <2>3. CASE Die("odd") \/ Die("counter") \/ Die("short")
    BY <2>1, <2>3, DieStep
  <2>. QED
    BY <2>1, <2>2, <2>3
<1>3. CASE UNCHANGED vars
  <2>1. UNCHANGED <<asked, made, cut, leaf, files, limit, left, open, file, got, found, depth,
                    table, ply, i, offset, buf, index, count, main, exit, perft, ply1>>
    BY <1>3 DEF vars, disk, scan, pass, result
  <2>2. Shapes' /\ Modest'
    BY <2>1 DEF IInv, Shapes, Modest, Parts, Files, Numbered
  <2>3. Scanning'
    BY <2>1 DEF IInv, Scanning, Covered, Finished, Taken, Parts, Complete
  <2>4. SumsAreRight'
    BY <2>1 DEF IInv, SumsAreRight, Summing, Parts, Complete, Top, RightAt
  <2>5. BufferIsFile' /\ Accepted'
    BY <2>1 DEF IInv, BufferIsFile, Buffered, Accepted, Parts, Complete, Top, RightAt
  <2>. QED
    BY <2>2, <2>3, <2>4, <2>5 DEF IInv
<1>. QED
  BY <1>1, <1>2, <1>3, ScannedStep, CheckTotalStep, CountMovesStep, SumPositionStep,
     NextPlyStep, ReportStep DEF Next, Step, Done

(* The inductive invariant holds in every reachable state.                 *)
THEOREM Invariance == Spec => []IInv
<1>. QED
  BY InitIInv, NextIInv, PTL DEF Spec

(* brd_db_aggregate accepts only sums that add up, for every database,     *)
(* every split of its last ply and every state of the results files.       *)
THEOREM CountsAddUpAlways == Spec => []CountsAddUp
<1>1. ASSUME IInv PROVE CountsAddUp
  <2>. SUFFICES ASSUME exit = "ok" PROVE CountsAddUp!2
    BY DEF CountsAddUp
  <2>1. /\ perft = count[0][0]
        /\ \A p \in Plies : p <= Top => \A x \in Positions(p) : RightAt(p, x)
    BY <1>1 DEF IInv, Accepted
  <2>2. asked \in Nat \ {0} /\ DbDepth \in Nat
    BY <1>1, DiskFacts, DatabaseFacts
  <2>3. ASSUME NEW p \in Plies, NEW x \in Positions(p)
        PROVE  /\ p < asked - 1 =>
                    count[p][x] = Sum(IF p = DbDepth - 1 THEN leaf ELSE count[p + 1], MovesOf(p, x))
               /\ p = asked - 1 => count[p][x] = NumMoves[p][x]
    <3>1. p \in Nat /\ p <= DbDepth - 1
      BY <2>2 DEF Plies
    <3>2. p <= asked - 1 => p <= Top
      BY <2>2, <3>1 DEF Top
    <3>. QED
      BY <2>1, <2>2, <3>1, <3>2 DEF RightAt
  <2>. QED
    BY <2>1, <2>3
<1>. QED
  BY <1>1, Invariance, PTL

(* It never accepts before the results of every part are complete, and     *)
(* then the table has what the counts found.                               *)
THEOREM NothingMissingAlways == Spec => []NothingMissing
<1>1. IInv => NothingMissing
  BY DEF IInv, Accepted, NothingMissing, Complete
<1>. QED
  BY <1>1, Invariance, PTL

-----------------------------------------------------------------------------
(* Induction.  The theorems of the library that take a predicate cannot be *)
(* instantiated; that every set of naturals has a smallest member can, and *)
(* the set may be that of the numbers with some property.                  *)
LEMMA Induction ==
  ASSUME NEW T, 0 \in T, \A n \in Nat : n \in T => n + 1 \in T
  PROVE  \A n \in Nat : n \in T
<1>. DEFINE R == {ss \in Nat \X Nat : ss[1] < ss[2]}
            B == Nat \ T
<1>1. SUFFICES ASSUME B # {} PROVE FALSE
  OBVIOUS
<1>2. PICK x \in B : \A y \in B : ~ (<<y, x>> \in R)
  <2>1. IsWellFoundedOn(R, Nat)
    BY NatLessThanWellFounded DEF OpToRel
  <2>. HIDE DEF R
  <2>. QED
    BY <1>1, <2>1, WFMin
<1>3. x \in Nat /\ x # 0
  OBVIOUS
<1>4. x - 1 \in B
  BY <1>3
<1>5. <<x - 1, x>> \in R
  BY <1>3, <1>4
<1>. QED
  BY <1>2, <1>4, <1>5

(* The sum of a row over a sequence of positions: what is added last is    *)
(* the entry for the last position.                                        *)
SumOf(row, q, f, d) == IF d = {} THEN 0 ELSE f[d \ {Max(d)}] + row[q[Max(d)]]

Sums(row, q) == CHOOSE f : f = [d \in SUBSET DOMAIN q |-> SumOf(row, q, f, d)]

(* Sum is that recursive function.                                         *)
LEMMA SumIs ==
  ASSUME NEW row, NEW q
  PROVE  Sum(row, q) = Sums(row, q)[DOMAIN q]
BY DEF Sum, FoldLeft, MapThenFoldSet, Sums, SumOf

(* A set of positions has a largest one, which Max chooses.                *)
LEMMA MaxFacts ==
  ASSUME NEW N \in Nat, NEW d \in SUBSET (1..N), d # {}
  PROVE  Max(d) \in d /\ \A y \in d : Max(d) >= y
<1>. DEFINE Has(e) == \E x \in e : \A y \in e : x >= y
            T == {n \in Nat : \A e \in SUBSET (1..n) : e # {} => Has(e)}
<1>1. 0 \in T
  <2>1. \A e \in SUBSET (1..0) : e = {}
    OBVIOUS
  <2>. QED
    BY <2>1
<1>2. ASSUME NEW n \in Nat, n \in T
      PROVE  n + 1 \in T
  <2>1. ASSUME NEW e \in SUBSET (1..n + 1), e # {}
        PROVE  Has(e)
    <3>1. CASE n + 1 \in e
      BY <3>1
    <3>2. CASE n + 1 \notin e
      BY <1>2, <2>1, <3>2
    <3>. QED
      BY <3>1, <3>2
  <2>. QED
    BY <2>1
<1>. HIDE DEF T
<1>3. N \in T
  BY <1>1, <1>2, Induction
<1>4. Has(d)
  BY <1>3 DEF T
<1>. QED
  BY <1>4 DEF Max

(* The fold is well-founded: it removes a position at a time.              *)
LEMMA SumsUnfolds ==
  ASSUME NEW row, NEW q, NEW N \in Nat, DOMAIN q = 1..N
  PROVE  \A d \in SUBSET (1..N) : Sums(row, q)[d] = SumOf(row, q, Sums(row, q), d)
<1>. DEFINE Of(f, n) == [d \in SUBSET (1..n) |-> SumOf(row, q, f, d)]
            T == {n \in Nat : \E f : f = Of(f, n)}
<1>1. 0 \in T
  <2>. DEFINE f == [d \in SUBSET (1..0) |-> 0]
  <2>1. \A d \in SUBSET (1..0) : SumOf(row, q, f, d) = 0
    BY DEF SumOf
  <2>2. f = Of(f, 0)
    BY <2>1
  <2>. QED
    BY <2>2
<1>2. ASSUME NEW n \in Nat, n \in T
      PROVE  n + 1 \in T
  <2>1. PICK f : f = Of(f, n)
    BY <1>2
  <2>. DEFINE h == Of(f, n + 1)
  <2>2. ASSUME NEW d \in SUBSET (1..n)
        PROVE  h[d] = f[d]
    <3>1. f[d] = SumOf(row, q, f, d)
      BY <2>1
    <3>2. d \in SUBSET (1..n + 1)
      OBVIOUS
    <3>. QED
      BY <3>1, <3>2
  <2>3. ASSUME NEW d \in SUBSET (1..n + 1)
        PROVE  SumOf(row, q, h, d) = SumOf(row, q, f, d)
    <3>1. CASE d = {}
      BY <3>1 DEF SumOf
    <3>2. CASE d # {}
      <4>1. Max(d) \in d /\ \A y \in d : Max(d) >= y
        <5>1. n + 1 \in Nat
          OBVIOUS
        <5>. QED
          BY <3>2, <5>1, MaxFacts
      <4>2. d \ {Max(d)} \in SUBSET (1..n)
        <5>1. ASSUME NEW y \in d, y # Max(d) PROVE y \in 1..n
          <6>1. Max(d) \in 1..n + 1 /\ y \in 1..n + 1 /\ Max(d) >= y
            BY <4>1
          <6>. QED
            BY <5>1, <6>1
        <5>. QED
          BY <5>1
      <4>3. h[d \ {Max(d)}] = f[d \ {Max(d)}]
        BY <2>2, <4>2
      <4>. HIDE DEF h
      <4>. QED
        BY <4>3 DEF SumOf
    <3>. QED
      BY <3>1, <3>2
  <2>4. h = Of(h, n + 1)
    BY <2>3
  <2>. HIDE DEF h
  <2>. QED
    BY <2>4
<1>. HIDE DEF T
<1>3. N \in T
  BY <1>1, <1>2, Induction
<1>. DEFINE S == Sums(row, q)
<1>4. S = Of(S, N)
  BY <1>3 DEF T, Sums
<1>. HIDE DEF S
<1>5. \A d \in SUBSET (1..N) : S[d] = SumOf(row, q, S, d)
  BY <1>4
<1>. QED
  BY <1>5 DEF S

(* The sum is that of the positions before the last one, plus the last.    *)
LEMMA SumGrows ==
  ASSUME NEW row, NEW q, NEW N \in Nat, DOMAIN q = 1..N
  PROVE  /\ Sums(row, q)[1..0] = 0
         /\ \A k \in 0..N - 1 : Sums(row, q)[1..k + 1] = Sums(row, q)[1..k] + row[q[k + 1]]
         /\ Sum(row, q) = Sums(row, q)[1..N]
<1>. DEFINE S == Sums(row, q)
<1>1. \A d \in SUBSET (1..N) : S[d] = SumOf(row, q, S, d)
  BY SumsUnfolds
<1>2. Sum(row, q) = S[1..N]
  BY SumIs
<1>. HIDE DEF S
<1>3. S[1..0] = 0
  <2>1. 1..0 \in SUBSET (1..N) /\ 1..0 = {}
    OBVIOUS
  <2>. QED
    BY <1>1, <2>1 DEF SumOf
<1>4. ASSUME NEW k \in 0..N - 1
      PROVE  S[1..k + 1] = S[1..k] + row[q[k + 1]]
  <2>1. 1..k + 1 \in SUBSET (1..N) /\ 1..k + 1 # {} /\ k + 1 \in Nat /\ k + 1 \in 1..k + 1
    <3>1. k + 1 \in Nat /\ k + 1 <= N /\ k + 1 \in 1..k + 1
      OBVIOUS
    <3>2. \A y \in 1..k + 1 : y \in 1..N
      OBVIOUS
    <3>. QED
      BY <3>1, <3>2
  <2>2. Max(1..k + 1) \in 1..k + 1 /\ \A y \in 1..k + 1 : Max(1..k + 1) >= y
    BY <2>1, MaxFacts
  <2>3. Max(1..k + 1) = k + 1
    BY <2>1, <2>2
  <2>4. (1..k + 1) \ {k + 1} = 1..k
    OBVIOUS
  <2>5. S[1..k + 1] = SumOf(row, q, S, 1..k + 1)
    BY <1>1, <2>1
  <2>. QED
    BY <2>1, <2>3, <2>4, <2>5 DEF SumOf
<1>. QED
  BY <1>2, <1>3, <1>4 DEF S

(* A sum of naturals is one, and that of ones counts the positions.  By    *)
(* induction over the positions.                                           *)
LEMMA SumFacts ==
  ASSUME NEW row, NEW q, NEW N \in Nat, DOMAIN q = 1..N, \A k \in 1..N : row[q[k]] \in Nat
  PROVE  /\ Sum(row, q) \in Nat
         /\ (\A k \in 1..N : row[q[k]] = 1) => Sum(row, q) = N
<1>. DEFINE S == Sums(row, q)
            ones == \A k \in 1..N : row[q[k]] = 1
            T == {k \in Nat : k <= N => S[1..k] \in Nat /\ (ones => S[1..k] = k)}
<1>1. S[1..0] = 0 /\ Sum(row, q) = S[1..N]
  BY SumGrows
<1>2. \A k \in 0..N - 1 : S[1..k + 1] = S[1..k] + row[q[k + 1]]
  BY SumGrows
<1>. HIDE DEF S
<1>3. 0 \in T
  BY <1>1
<1>4. ASSUME NEW k \in Nat, k \in T PROVE k + 1 \in T
  <2>. SUFFICES ASSUME k + 1 <= N
                PROVE  S[1..k + 1] \in Nat /\ (ones => S[1..k + 1] = k + 1)
    OBVIOUS
  <2>1. S[1..k] \in Nat /\ (ones => S[1..k] = k)
    BY <1>4
  <2>2. S[1..k + 1] = S[1..k] + row[q[k + 1]]
    BY <1>2
  <2>3. k + 1 \in 1..N
    OBVIOUS
  <2>4. row[q[k + 1]] \in Nat /\ (ones => row[q[k + 1]] = 1)
    BY <2>3
  <2>. QED
    BY <2>1, <2>2, <2>4
<1>5. \A k \in Nat : k \in T
  <2>. HIDE DEF T
  <2>. QED
    BY <1>3, <1>4, Induction
<1>6. N \in T
  BY <1>5
<1>. QED
  BY <1>1, <1>6

(* The moves of a position lead to positions of the next ply, and there    *)
(* are as many as were counted.                                            *)
LEMMA MovesFacts ==
  ASSUME NEW p \in Plies, NEW x \in Positions(p)
  PROVE  /\ NumMoves[p][x] \in Nat
         /\ DOMAIN MovesOf(p, x) = 1..NumMoves[p][x]
         /\ \A k \in 1..NumMoves[p][x] : MovesOf(p, x)[k] \in Positions(p + 1)
<1>. DEFINE F == MoveFile[p]
            from == MoveStart[p][x]
            n == NumMoves[p][x]
<1>1. /\ F \in Seq(Nat) /\ n \in Nat /\ from \in Nat
      /\ MoveStart[p][x + 1] = from + n /\ from + n <= Len(F)
  BY DatabaseFacts, LimitAssumption
<1>2. F \in Seq(Positions(p + 1))
  BY DatabaseAssumption
<1>3. MovesOf(p, x) = SubSeq(F, from + 1, from + n)
  BY <1>1 DEF MovesOf
<1>. HIDE DEF F, from, n
<1>4. from + n \in from..Len(F) /\ Len(F) \in Nat /\ (from + n) - from = n
  BY <1>1
<1>5. /\ MovesOf(p, x) \in Seq(Nat) /\ Len(MovesOf(p, x)) = n
      /\ \A k \in 1..n : MovesOf(p, x)[k] = F[from + k]
  <2>1. /\ SubSeq(F, from + 1, from + n) \in Seq(Nat)
        /\ Len(SubSeq(F, from + 1, from + n)) = (from + n) - from
        /\ \A k \in 1..(from + n) - from : SubSeq(F, from + 1, from + n)[k] = F[from + k]
    BY <1>1, <1>4, Piece
  <2>. QED
    BY <1>3, <1>4, <2>1
<1>6. \A k \in 1..n : F[from + k] \in Positions(p + 1)
  <2>1. \A k \in 1..n : from + k \in 1..Len(F)
    BY <1>1, <1>4
  <2>. QED
    BY <1>2, <2>1, ElementOfSeq
<1>7. DOMAIN MovesOf(p, x) = 1..n
  BY <1>5
<1>. QED
  BY <1>1, <1>5, <1>6, <1>7 DEF n

-----------------------------------------------------------------------------
(* The values that the sums are formed of.                                 *)
Values ==
  /\ \A p \in Plies : count[p] \in [Positions(p) -> Nat]
  /\ offset \in Nat /\ index \in Nat /\ buf \in Seq(Nat)
  /\ perft \in Nat /\ ply1 \in [Positions(1) -> Nat]

(* A sum over the counters of the next ply is a natural number.            *)
LEMMA RowIsNatural ==
  ASSUME IInv, Values, NEW p \in Plies, NEW x \in Positions(p)
  PROVE  LET row == IF p = DbDepth - 1 THEN leaf ELSE count[p + 1]
         IN  Sum(row, MovesOf(p, x)) \in Nat
<1>. DEFINE row == IF p = DbDepth - 1 THEN leaf ELSE count[p + 1]
<1>1. \A y \in Positions(p + 1) : row[y] \in Nat
  <2>1. CASE p = DbDepth - 1
    <3>1. p + 1 = DbDepth
      BY <2>1, DatabaseFacts
    <3>2. leaf \in [Positions(p + 1) -> Nat]
      BY <3>1 DEF IInv, Shapes, LastPly
    <3>. QED
      BY <2>1, <3>2
  <2>2. CASE p # DbDepth - 1
    <3>1. p + 1 \in Plies
      BY <2>2, DatabaseFacts DEF Plies
    <3>2. count[p + 1] \in [Positions(p + 1) -> Nat]
      BY <3>1 DEF Values
    <3>. QED
      BY <2>2, <3>2
  <2>. QED
    BY <2>1, <2>2
<1>. HIDE DEF row
<1>2. \A k \in 1..NumMoves[p][x] : row[MovesOf(p, x)[k]] \in Nat
  BY <1>1, MovesFacts
<1>3. Sum(row, MovesOf(p, x)) \in Nat
  BY <1>2, MovesFacts, SumFacts
<1>. QED
  BY <1>3 DEF row

(* Each step keeps them: what was summed up is right, hence such a sum.    *)
LEMMA ValuesStep ==
  ASSUME IInv, IInv', Values, [Next]_vars
  PROVE  Values'
<1>1. CASE UNCHANGED <<count, offset, index, buf, perft, ply1>>
  BY <1>1 DEF Values
<1>2. ASSUME NEW why, Die(why), UNCHANGED result PROVE Values'
  BY <1>1, <1>2 DEF Die, pass, result
<1>3. ASSUME NEW what, NEW p, StartPass(what, p), UNCHANGED result PROVE Values'
  <2>1. offset' = 0 /\ index' = 0 /\ buf' = <<>> /\ UNCHANGED <<count, perft, ply1>>
    BY <1>3 DEF StartPass, result
  <2>2. <<>> \in Seq(Nat)
    OBVIOUS
  <2>. QED
    BY <2>1, <2>2 DEF Values
<1>4. CASE \E p \in left : OpenFile(p)
  <2>1. PICK p \in left : OpenFile(p)
    BY <1>4
  <2>2. CASE Take(p)
    BY <1>1, <2>1, <2>2 DEF OpenFile, Take, pass, result
  <2>. QED
    BY <1>2, <2>1, <2>2 DEF OpenFile
<1>5. CASE ReadResults
  BY <1>1, <1>2, <1>5 DEF ReadResults, Store, pass, result
<1>6. CASE Scanned \/ UNCHANGED vars
  BY <1>1, <1>6 DEF Scanned, vars, pass, result
<1>7. CASE CheckTotal
  BY <1>2, <1>3, <1>7 DEF CheckTotal
<1>8. CASE NextPly
  BY <1>3, <1>8 DEF NextPly
<1>9. ASSUME Summing, i < Size[ply], NEW v, count' = [count EXCEPT ![ply][i] = v], i' = i + 1,
             UNCHANGED <<disk, scan, ply, main, exit, result>>
      PROVE  \A p \in Plies : count'[p] \in [Positions(p) -> Nat]
  <2>1. /\ i \in Positions(ply) /\ ply \in Plies
        /\ \A p \in Plies : p # ply => count'[p] = count[p]
        /\ \A x \in Positions(ply) : x # i => count'[ply][x] = count[ply][x]
    BY <1>9, OneCounter
  <2>2. count'[ply] = [x \in Positions(ply) |-> count'[ply][x]]
    BY <2>1 DEF IInv, Shapes
  <2>3. UNCHANGED <<asked, leaf, cut, main, ply>>
    BY <1>9 DEF disk
  <2>a. PICK y : y = i
    OBVIOUS
  <2>4. RightAt(ply, y)'
    <3>1. Summing' /\ ply' = ply /\ y < i' /\ y \in Positions(ply')
      BY <1>9, <2>1, <2>3, <2>a, DatabaseFacts DEF Summing, Positions, Plies
    <3>. QED
      BY <3>1 DEF IInv, SumsAreRight
  <2>5. count'[ply][i] \in Nat
    <3>1. ply + 1 \in Plies \/ ply = DbDepth - 1
      BY <2>1, DatabaseFacts DEF Plies
    <3>2. ply + 1 # ply
      BY <2>1, DatabaseFacts DEF Plies
    <3>3. ply = DbDepth - 1 \/ count'[ply + 1] = count[ply + 1]
      BY <2>1, <3>1, <3>2
    <3>4. LET row == IF ply = DbDepth - 1 THEN leaf ELSE count[ply + 1]
          IN  Sum(row, MovesOf(ply, i)) \in Nat
      BY <2>1, RowIsNatural
    <3>5. NumMoves[ply][i] \in Nat
      BY <2>1, MovesFacts
    <3>. QED
      BY <2>3, <2>4, <2>a, <3>3, <3>4, <3>5 DEF RightAt
  <2>6. \A x \in Positions(ply) : count'[ply][x] \in Nat
    BY <2>1, <2>5 DEF Values
  <2>. QED
    BY <2>1, <2>2, <2>6 DEF Values
<1>10. CASE CountMoves
  <2>1. /\ Summing /\ i < Size[ply] /\ count' = [count EXCEPT ![ply][i] = NumMoves[ply][i]]
        /\ i' = i + 1 /\ UNCHANGED <<disk, scan, ply, main, exit, result, offset, buf, index>>
    BY <1>10 DEF CountMoves, Summing
  <2>2. \A p \in Plies : count'[p] \in [Positions(p) -> Nat]
    BY <1>9, <2>1
  <2>. QED
    BY <2>1, <2>2 DEF Values, result
<1>11. CASE SumPosition
  <2>1. /\ Summing /\ main \in {"deep", "tree"} /\ i < Size[ply] /\ i' = i + 1
        /\ \E v : count' = [count EXCEPT ![ply][i] = v]
        /\ UNCHANGED <<disk, scan, ply, main, exit, result>>
    BY <1>11 DEF SumPosition, Summing
  <2>2. \A p \in Plies : count'[p] \in [Positions(p) -> Nat]
    BY <1>9, <2>1
  <2>3. Buffered(buf, index, offset)'
    BY <2>1 DEF IInv, BufferIsFile
  <2>4. offset' \in Nat /\ index' \in Nat /\ buf' \in Seq(Nat)
    <3>1. buf' \in Seq(Nat) /\ index' \in 0..Len(buf') /\ offset' \in Len(buf')..Len(MoveFile[ply'])
      BY <2>3 DEF Buffered
    <3>2. Len(buf') \in Nat
      BY <3>1
    <3>3. Len(MoveFile[ply']) \in Nat
      BY DatabaseFacts DEF IInv, Shapes
    <3>. QED
      BY <3>1, <3>2, <3>3
  <2>. QED
    BY <2>1, <2>2, <2>4 DEF Values, result
<1>12. CASE Report
  <2>1. perft' = count[0][0] /\ ply1' = count[1] /\ UNCHANGED <<count, offset, index, buf>>
    BY <1>12 DEF Report, pass
  <2>2. 0 \in Plies /\ 1 \in Plies /\ 0 \in Positions(0)
    BY DatabaseFacts DEF Plies, Positions
  <2>. QED
    BY <2>1, <2>2 DEF Values
<1>. QED
  BY <1>4, <1>5, <1>6, <1>7, <1>8, <1>10, <1>11, <1>12 DEF Next, Step, Done

(* Every variable keeps its type; the sums are natural numbers.            *)
THEOREM TypeCorrect == Spec => []TypeOK
<1>1. Init => Values
  <2>. SUFFICES ASSUME Init PROVE Values
    OBVIOUS
  <2>1. <<>> \in Seq(Nat)
    OBVIOUS
  <2>. QED
    BY <2>1 DEF Init, Values
<1>2. IInv /\ IInv' /\ Values /\ [Next]_vars => Values'
  BY ValuesStep
<1>3. IInv /\ Values => TypeOK
  <2>. SUFFICES ASSUME IInv, Values PROVE TypeOK
    OBVIOUS
  <2>1. leaf \in Leaves
    BY DEF IInv, Shapes
  <2>2. depth \in Nat
    BY DiskFacts DEF IInv, Shapes
  <2>. QED
    BY <2>1, <2>2 DEF IInv, Shapes, Values, TypeOK
<1>. QED
  BY <1>1, <1>2, <1>3, Invariance, PTL DEF Spec

-----------------------------------------------------------------------------
(* Perft, by its definition.                                               *)
PerftOf(f, p) ==
  [x \in Positions(p) |->
     IF p = asked THEN 1
     ELSE IF p = DbDepth THEN leaf[x]
     ELSE Sum(f[p + 1], MovesOf(p, x))]

(* Perft is that function.                                                 *)
LEMMA PerftIs == Perft = CHOOSE f : f = [p \in 0..DbDepth |-> PerftOf(f, p)]
BY DEF Perft, PerftOf

(* The recursion is well-founded: it ends at the last ply of the database. *)
LEMMA PerftUnfolds ==
  ASSUME DbDepth \in Nat
  PROVE  \A p \in 0..DbDepth : Perft[p] = PerftOf(Perft, p)
<1>. DEFINE Of(f, n) == [p \in DbDepth - n..DbDepth |-> PerftOf(f, p)]
            T == {n \in Nat : \E f : f = Of(f, n)}
<1>1. 0 \in T
  <2>. DEFINE f == [p \in DbDepth..DbDepth |->
                      [x \in Positions(DbDepth) |-> IF DbDepth = asked THEN 1 ELSE leaf[x]]]
  <2>1. \A p \in DbDepth..DbDepth : p = DbDepth
    OBVIOUS
  <2>2. \A p \in DbDepth..DbDepth : PerftOf(f, p) = f[p]
    BY <2>1 DEF PerftOf
  <2>3. f = [p \in DbDepth..DbDepth |-> f[p]]
    OBVIOUS
  <2>4. DbDepth - 0 = DbDepth
    OBVIOUS
  <2>. HIDE DEF f
  <2>5. f = Of(f, 0)
    BY <2>2, <2>3, <2>4
  <2>. QED
    BY <2>5
<1>2. ASSUME NEW n \in Nat, n \in T PROVE n + 1 \in T
  <2>1. PICK f : f = Of(f, n)
    BY <1>2
  <2>. DEFINE h == Of(f, n + 1)
  <2>2. ASSUME NEW p \in DbDepth - (n + 1)..DbDepth, p # DbDepth
        PROVE  h[p + 1] = f[p + 1]
    <3>1. p + 1 \in DbDepth - n..DbDepth /\ p + 1 \in DbDepth - (n + 1)..DbDepth
      BY <2>2
    <3>2. f[p + 1] = PerftOf(f, p + 1)
      BY <2>1, <3>1
    <3>. QED
      BY <3>1, <3>2
  <2>3. ASSUME NEW p \in DbDepth - (n + 1)..DbDepth
        PROVE  PerftOf(h, p) = PerftOf(f, p)
    <3>. HIDE DEF h
    <3>. QED
      BY <2>2 DEF PerftOf
  <2>4. h = Of(h, n + 1)
    BY <2>3
  <2>. HIDE DEF h
  <2>. QED
    BY <2>4
<1>3. \A n \in Nat : n \in T
  <2>. HIDE DEF T
  <2>. QED
    BY <1>1, <1>2, Induction
<1>4. DbDepth \in T /\ DbDepth - DbDepth = 0
  BY <1>3
<1>5. \E f : f = [p \in 0..DbDepth |-> PerftOf(f, p)]
  BY <1>4
<1>6. Perft = [p \in 0..DbDepth |-> PerftOf(Perft, p)]
  BY <1>5, PerftIs
<1>. QED
  BY <1>6

(* What is reported of the first moves.                                    *)
Reported == exit = "ok" => ply1 = count[1] /\ depth = asked

(* Each step keeps it.                                                     *)
LEMMA ReportedStep ==
  ASSUME IInv, Reported, [Next]_vars
  PROVE  Reported'
<1>1. CASE exit' # "ok"
  BY <1>1 DEF Reported
<1>2. CASE main = "done"
  <2>1. UNCHANGED vars
    BY <1>2 DEF Next, Step, Done, OpenFile, ReadResults, Scanned, Goto, CheckTotal, CountMoves,
                SumPosition, NextPly, Report
  <2>. QED
    BY <2>1 DEF Reported, vars, disk, scan, pass, result
<1>3. CASE main # "done"
  <2>1. exit = "none"
    BY <1>3 DEF IInv, Shapes
  <2>2. CASE Report
    <3>1. depth = asked
      BY <2>2 DEF IInv, SumsAreRight, Summing, Report
    <3>. QED
      BY <2>2, <3>1 DEF Report, Reported, disk, scan, pass
  <2>3. CASE exit' = "none" \/ exit' # "ok"
    BY <2>3 DEF Reported
  <2>4. CASE UNCHANGED vars
    BY <2>1, <2>4 DEF vars, Reported
  <2>. QED
    BY <2>1, <2>2, <2>3, <2>4
       DEF Next, Step, Done, OpenFile, Take, ReadResults, Store, Die, Scanned, CheckTotal,
           StartPass, CountMoves, SumPosition, NextPly
<1>. QED
  BY <1>1, <1>2, <1>3

(* The counters of every ply that was summed up are perft of its           *)
(* positions.  By induction over the plies, from the last one summed.      *)
LEMMA CountsArePerft ==
  ASSUME IInv, exit = "ok"
  PROVE  \A p \in 0..Top : count[p] = Perft[p]
<1>1. /\ asked \in Nat \ {0} /\ DbDepth \in Nat /\ DbDepth > 1
  BY DiskFacts, DatabaseFacts
<1>2. /\ Top \in Nat /\ Top < DbDepth /\ Top <= asked - 1
      /\ Top = asked - 1 \/ (Top = DbDepth - 1 /\ asked > DbDepth)
  BY <1>1 DEF Top
<1>3. \A p \in Plies : p <= Top => \A x \in Positions(p) : RightAt(p, x)
  BY DEF IInv, Accepted
<1>4. \A p \in Plies : count[p] = [x \in Positions(p) |-> count[p][x]]
  BY DEF IInv, Shapes
<1>5. \A p \in 0..DbDepth : Perft[p] = PerftOf(Perft, p)
  BY <1>1, PerftUnfolds
<1>6. ASSUME NEW p \in 0..Top, p = Top \/ count[p + 1] = Perft[p + 1]
      PROVE  count[p] = Perft[p]
  <2>1. p \in Plies /\ p \in 0..DbDepth /\ p + 1 \in 0..DbDepth /\ p # asked /\ p # DbDepth
    BY <1>1, <1>2 DEF Plies
  <2>2. Perft[p] = [x \in Positions(p) |-> Sum(Perft[p + 1], MovesOf(p, x))]
    BY <1>5, <2>1 DEF PerftOf
  <2>3. ASSUME NEW x \in Positions(p)
        PROVE  count[p][x] = Sum(Perft[p + 1], MovesOf(p, x))
    <3>1. RightAt(p, x)
      BY <1>3, <2>1
    <3>2. CASE p = asked - 1
      <4>1. p + 1 = asked
        BY <1>1, <3>2
      <4>2. \A y \in Positions(p + 1) : Perft[p + 1][y] = 1
        BY <1>5, <2>1, <4>1 DEF PerftOf
      <4>. DEFINE row == Perft[p + 1]
      <4>. HIDE DEF row
      <4>3. \A k \in 1..NumMoves[p][x] : row[MovesOf(p, x)[k]] = 1
        BY <2>1, <4>2, MovesFacts DEF row
      <4>4. Sum(row, MovesOf(p, x)) = NumMoves[p][x]
        BY <2>1, <4>3, MovesFacts, SumFacts
      <4>. QED
        BY <3>1, <3>2, <4>4 DEF RightAt, row
    <3>3. CASE p # asked - 1 /\ p = DbDepth - 1
      <4>1. p + 1 = DbDepth /\ DbDepth # asked
        BY <1>1, <1>2, <3>3
      <4>2. Perft[p + 1] = [y \in Positions(p + 1) |-> leaf[y]]
        BY <1>5, <2>1, <4>1 DEF PerftOf
      <4>3. leaf = [y \in Positions(p + 1) |-> leaf[y]]
        BY <4>1 DEF IInv, Shapes, LastPly
      <4>. QED
        BY <3>1, <3>3, <4>2, <4>3 DEF RightAt
    <3>4. CASE p # asked - 1 /\ p # DbDepth - 1
      <4>1. p # Top
        BY <1>2, <3>4
      <4>. QED
        BY <1>6, <3>1, <3>4, <4>1 DEF RightAt
    <3>. QED
      BY <3>2, <3>3, <3>4
  <2>. QED
    BY <1>4, <2>1, <2>2, <2>3
<1>. DEFINE T == {n \in Nat : n <= Top => count[Top - n] = Perft[Top - n]}
<1>7. 0 \in T
  BY <1>2, <1>6
<1>8. ASSUME NEW n \in Nat, n \in T PROVE n + 1 \in T
  <2>. SUFFICES ASSUME n + 1 <= Top PROVE count[Top - (n + 1)] = Perft[Top - (n + 1)]
    OBVIOUS
  <2>1. Top - (n + 1) \in 0..Top /\ Top - (n + 1) + 1 = Top - n /\ n <= Top
    BY <1>2
  <2>2. count[Top - n] = Perft[Top - n]
    BY <1>8, <2>1
  <2>. QED
    BY <1>6, <2>1, <2>2
<1>9. \A n \in Nat : n \in T
  <2>. HIDE DEF T
  <2>. QED
    BY <1>7, <1>8, Induction
<1>10. ASSUME NEW p \in 0..Top PROVE count[p] = Perft[p]
  <2>1. Top - p \in Nat /\ Top - p <= Top /\ Top - (Top - p) = p
    BY <1>2
  <2>2. Top - p \in T
    BY <1>9, <2>1
  <2>. QED
    BY <2>1, <2>2
<1>. QED
  BY <1>10

(* An accepted aggregation reports perft of the start position.            *)
THEOREM PerftIsRightAlways == Spec => []PerftIsRight
<1>1. Init => Reported
  BY DEF Init, Reported
<1>2. IInv /\ Reported /\ [Next]_vars => Reported'
  BY ReportedStep
<1>3. IInv /\ Reported => PerftIsRight
  <2>. SUFFICES ASSUME IInv, Reported, exit = "ok"
                PROVE  perft = Perft[0][0] /\ (depth > 1 => Sum(ply1, MoveFile[0]) = perft)
    BY DEF PerftIsRight
  <2>1. /\ asked \in Nat \ {0} /\ DbDepth \in Nat /\ DbDepth > 1 /\ Top \in Nat
        /\ depth = asked /\ perft = count[0][0] /\ ply1 = count[1]
    BY DiskFacts, DatabaseFacts DEF IInv, Accepted, Reported, Top
  <2>2. perft = Perft[0][0]
    <3>1. 0 \in 0..Top
      BY <2>1
    <3>. QED
      BY <2>1, <3>1, CountsArePerft
  <2>3. ASSUME depth > 1 PROVE Sum(ply1, MoveFile[0]) = perft
    <3>1. 0 \in Plies /\ 0 \in Positions(0) /\ 0 <= Top /\ 0 # asked - 1 /\ 0 # DbDepth - 1
      BY <2>1, <2>3, DatabaseFacts DEF Plies, Positions
    <3>2. RightAt(0, 0)
      BY <3>1 DEF IInv, Accepted
    <3>3. count[0][0] = Sum(count[1], MovesOf(0, 0))
      BY <3>1, <3>2 DEF RightAt
    <3>4. MovesOf(0, 0) = MoveFile[0]
      <4>1. /\ MoveFile[0] \in Seq(Nat) /\ MoveStart[0][0] = 0
            /\ MoveStart[0][1] = Len(MoveFile[0])
        BY <3>1, DatabaseAssumption, DatabaseFacts
      <4>2. MovesOf(0, 0) = SubSeq(MoveFile[0], 1, Len(MoveFile[0]))
        BY <4>1 DEF MovesOf
      <4>. QED
        BY <4>1, <4>2
    <3>. QED
      BY <2>1, <3>3, <3>4
  <2>. QED
    BY <2>2, <2>3
<1>. QED
  BY <1>1, <1>2, <1>3, Invariance, PTL DEF Spec

-----------------------------------------------------------------------------
(* With all there and files enough, nothing has gone wrong and nothing     *)
(* will: the files not yet opened can all be opened, part 1 sets the       *)
(* depth, and the totals are compared when every file was read.            *)
Scans == main \in {"scan", "read", "check"}

Unhindered ==
  AllThere /\ limit >= Cardinality(Parts) + 2 =>
    /\ exit \in {"none", "ok"}
    /\ Scans => /\ open + Cardinality(left) <= Cardinality(Parts)
                /\ 1 \in left \/ depth = asked
    /\ asked <= DbDepth => left \subseteq {1}
    /\ main = "check" => depth = asked /\ (asked > DbDepth => left = {})

(* There are finitely many parts, and a first one.                         *)
LEMMA PartsFinite ==
  ASSUME IInv
  PROVE  /\ IsFiniteSet(Parts) /\ Cardinality(Parts) \in Nat /\ 1 \in Parts
         /\ \A S \in SUBSET Parts : /\ IsFiniteSet(S) /\ Cardinality(S) \in Nat
                                    /\ Cardinality(S) <= Cardinality(Parts)
<1>1. cut \in Cuts /\ Parts = 1..Len(cut) /\ 1 \in Parts
  BY CutFacts DEF IInv, Shapes, Parts
<1>2. Len(cut) \in Nat
  BY <1>1, PartsAssumption
<1>3. IsFiniteSet(Parts)
  BY <1>1, <1>2, FS_Interval
<1>. QED
  BY <1>1, <1>3, FS_CardinalityType, FS_Subset

(* What AllThere says of a part.                                           *)
LEMMA ThereFacts ==
  ASSUME IInv, AllThere, NEW p \in Parts, asked > DbDepth \/ p = 1
  PROVE  /\ files[p].header = "full" /\ files[p].torn = FALSE
         /\ asked > DbDepth => files[p].entries = cut[p].num
<1>1. files[p] = [header |-> "full", entries |-> Numbered(p), torn |-> FALSE]
  BY DEF AllThere
<1>2. asked > DbDepth => Numbered(p) = cut[p].num
  BY DEF Numbered
<1>. QED
  BY <1>1, <1>2

(* Each step keeps it.                                                     *)
LEMMA UnhinderedStep ==
  ASSUME IInv, IInv', Unhindered, [Next]_vars
  PROVE  Unhindered'
<1>. SUFFICES ASSUME AllThere', limit' >= Cardinality(Parts') + 2
              PROVE  /\ exit' \in {"none", "ok"}
                     /\ Scans' => /\ open' + Cardinality(left') <= Cardinality(Parts')
                                  /\ 1 \in left' \/ depth' = asked'
                     /\ asked' <= DbDepth => left' \subseteq {1}
                     /\ main' = "check" => depth' = asked' /\ (asked' > DbDepth => left' = {})
  BY DEF Unhindered
<1>1. UNCHANGED disk
  BY DEF Next, Step, Done, OpenFile, ReadResults, Scanned, CheckTotal, CountMoves, SumPosition,
         NextPly, Report, vars
<1>2. UNCHANGED <<asked, made, cut, leaf, files, limit>> /\ Parts' = Parts
  BY <1>1 DEF disk, Parts
<1>3. AllThere /\ limit >= Cardinality(Parts) + 2
  BY <1>2 DEF AllThere, Numbered
<1>4. /\ exit \in {"none", "ok"}
      /\ Scans => /\ open + Cardinality(left) <= Cardinality(Parts)
                  /\ 1 \in left \/ depth = asked
      /\ asked <= DbDepth => left \subseteq {1}
      /\ main = "check" => depth = asked /\ (asked > DbDepth => left = {})
  BY <1>3 DEF Unhindered
<1>5. /\ asked \in Nat \ {0} /\ DbDepth \in Nat /\ limit \in Nat /\ open \in Nat
      /\ left \subseteq Parts /\ made = DbDepth /\ (main # "done" => exit = "none")
  BY <1>3, DiskFacts, DatabaseFacts, LimitAssumption DEF IInv, Shapes, AllThere
<1>6. CASE \E p \in left : OpenFile(p)
  <2>1. PICK p \in left : OpenFile(p)
    BY <1>6
  <2>2. p \in Parts /\ (asked > DbDepth \/ p = 1)
    BY <1>4, <1>5
  <2>3. files[p].header = "full"
    BY <1>3, <2>2, ThereFacts
  <2>4. /\ IsFiniteSet(left) /\ Cardinality(left) \in Nat /\ Cardinality(Parts) \in Nat
        /\ Cardinality(left \ {p}) = Cardinality(left) - 1
        /\ Cardinality(left \ {p}) \in Nat
    <3>1. /\ IsFiniteSet(left) /\ Cardinality(left) \in Nat /\ Cardinality(Parts) \in Nat
          /\ Cardinality(left \ {p}) \in Nat
      BY <1>5, PartsFinite
    <3>. QED
      BY <2>1, <3>1, FS_RemoveElement
  <2>5. main = "scan" /\ Scans /\ open < limit
    BY <1>3, <1>4, <1>5, <2>1, <2>4 DEF OpenFile, Scans
  <2>6. Take(p)
    BY <1>5, <2>1, <2>3, <2>5 DEF OpenFile
  <2>7. open' = open + 1 /\ left' = left \ {p} /\ depth' = asked /\ exit' = exit
        /\ (main' = "check" => asked <= DbDepth)
    BY <2>6 DEF Take, Goto
  <2>. QED
    BY <1>2, <1>4, <1>5, <2>4, <2>5, <2>7
<1>7. CASE ReadResults
  <2>. DEFINE n == Smaller(ResultEntries, files[file].entries - got)
  <2>1. main = "read" /\ file \in Parts /\ asked > DbDepth /\ got \in Nat
        /\ got <= files[file].entries
    BY <1>7 DEF ReadResults, IInv, Shapes, Modest, Scanning
  <2>2. /\ files[file].torn = FALSE /\ files[file].entries = cut[file].num
        /\ cut[file].num \in Nat /\ cut[file].from \in Nat
    BY <1>3, <2>1, ThereFacts, DiskFacts
  <2>3. \A k \in 0..n - 1 : leaf[cut[file].from + got + k] <= CounterLimit
    <3>1. n \in Nat /\ got + n <= cut[file].num
      BY <2>1, <2>2, LimitAssumption DEF Smaller
    <3>2. ASSUME NEW k \in 0..n - 1 PROVE cut[file].from + got + k \in LastPly
      <4>1. cut[file].from + got + k \in Interval(cut[file])
        <5>. HIDE DEF n
        <5>. QED
          BY <2>1, <2>2, <3>1 DEF Interval
      <4>. QED
        BY <2>1, <4>1, CutFacts DEF IInv, Shapes, Parts
    <3>. QED
      BY <1>3, <3>2 DEF AllThere
  <2>4. ~(n = 0 /\ got # cut[file].num)
    BY <2>1, <2>2, LimitAssumption DEF Smaller
  <2>5. Store(n)
    BY <1>7, <2>2, <2>3, <2>4 DEF ReadResults
  <2>6. UNCHANGED <<left, open, depth, exit>> /\ main' \in {"scan", "read"}
    BY <2>1, <2>5 DEF Store
  <2>. QED
    BY <1>2, <1>4, <2>1, <2>6 DEF Scans
<1>8. CASE Scanned
  <2>1. main = "scan" /\ main' = "check" /\ left = {} /\ UNCHANGED <<left, open, depth, exit>>
    BY <1>8 DEF Scanned, Goto, scan
  <2>. QED
    BY <1>2, <1>4, <2>1 DEF Scans
<1>9. CASE CheckTotal
  <2>1. main = "check" /\ Scans /\ open + 2 <= limit
    <3>1. Cardinality(left) \in Nat /\ Cardinality(Parts) \in Nat
      BY <1>5, PartsFinite
    <3>. QED
      BY <1>3, <1>4, <1>5, <1>9, <3>1 DEF CheckTotal, Scans
  <2>2. depth = asked
    BY <1>4, <2>1
  <2>3. asked > DbDepth => found = Size[DbDepth]
    <3>. SUFFICES ASSUME asked > DbDepth PROVE found = Size[DbDepth]
      OBVIOUS
    <3>1. left = {} /\ \A p \in Parts : files[p].header # "none"
      BY <1>3, <1>4, <2>1, ThereFacts
    <3>2. Finished = Parts
      BY <2>1, <3>1 DEF Finished, Taken
    <3>3. Covered = LastPly
      BY <1>3, <3>2 DEF Covered, AllThere
    <3>4. Cardinality(Covered) = found
      BY <2>1 DEF IInv, Scanning
    <3>. QED
      BY <3>3, <3>4, LastPlySize
  <2>4. exit' = exit /\ main' \in {"deep", "last"} /\ left' = left
    BY <1>5, <1>9, <2>1, <2>2, <2>3 DEF CheckTotal, StartPass, scan
  <2>. QED
    BY <1>2, <1>4, <2>4 DEF Scans
<1>10. CASE CountMoves \/ SumPosition \/ NextPly \/ Report
  <2>1. left' = left /\ exit' \in {exit, "ok"} /\ main' \in {"last", "deep", "tree", "done"}
    BY <1>10 DEF CountMoves, SumPosition, NextPly, StartPass, Report, scan
  <2>. QED
    BY <1>2, <1>4, <2>1 DEF Scans
<1>11. CASE UNCHANGED vars
  <2>1. UNCHANGED <<left, open, depth, main, exit>>
    BY <1>11 DEF vars, scan
  <2>. QED
    BY <1>2, <1>4, <2>1 DEF Scans
<1>. QED
  BY <1>6, <1>7, <1>8, <1>9, <1>10, <1>11 DEF Next, Step, Done

(* With all results there and files enough, it is not refused.             *)
THEOREM NoFalseRefusalEver == Spec => []NoFalseRefusal
<1>1. Init => Unhindered
  <2>. SUFFICES ASSUME Init, AllThere PROVE Unhindered
    BY DEF Unhindered
  <2>1. IInv
    BY InitIInv
  <2>2. 1 \in left
    <3>1. 1 \in Parts
      BY <2>1, PartsFinite
    <3>. QED
      BY <2>1, <3>1, ThereFacts DEF Init
  <2>3. left \subseteq Parts /\ (asked <= DbDepth => left \subseteq {1})
    BY DEF Init
  <2>4. 0 + Cardinality(left) <= Cardinality(Parts)
    BY <2>1, <2>3, PartsFinite
  <2>. QED
    BY <2>2, <2>3, <2>4 DEF Init, Unhindered
<1>2. IInv /\ IInv' /\ Unhindered /\ [Next]_vars => Unhindered'
  BY UnhinderedStep
<1>3. Unhindered => NoFalseRefusal
  BY DEF Unhindered, NoFalseRefusal
<1>. QED
  BY <1>1, <1>2, <1>3, Invariance, PTL DEF Spec
=============================================================================
