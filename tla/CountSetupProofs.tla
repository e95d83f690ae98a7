--------------------------- MODULE CountSetupProofs ---------------------------
(***************************************************************************)
(* Proofs about count-setup, for every number of positions and of parts.   *)
(***************************************************************************)
EXTENDS CountSetup, WellFoundedInduction, TLAPS

(* The number of positions before the k-th part.                           *)
Fewer(a, b) == IF a <= b THEN a ELSE b

Before(d, s, k) ==
  IF d <= PlyDepth THEN 0
  ELSE k * (Positions \div s) + Fewer(k, Positions % s)

-----------------------------------------------------------------------------
(* Every set of natural numbers has a least element.                       *)
LEMMA LeastElement ==
  ASSUME NEW T, T \subseteq Nat, T # {}
  PROVE  \E m \in T : \A k \in T : m <= k
<1>. DEFINE R == {ss \in Nat \X Nat : ss[1] < ss[2]}
<1>1. IsWellFoundedOn(R, Nat)
  BY NatLessThanWellFounded DEF OpToRel
<1>2. \A k, m \in Nat : <<k, m>> \in R <=> k < m
  OBVIOUS
<1>. HIDE DEF R
<1>3. PICK m \in T : \A k \in T : ~ (<<k, m>> \in R)
  BY <1>1, WFMin
<1>4. ASSUME NEW k \in T PROVE m <= k
  <2>1. k \in Nat /\ m \in Nat
    OBVIOUS
  <2>2. ~(k < m)
    BY <1>2, <1>3, <2>1
  <2>. QED
    BY <2>1, <2>2
<1>. QED
  BY <1>4

(* Division with remainder.                                                *)
LEMMA Division ==
  ASSUME NEW s \in Nat \ {0}
  PROVE  /\ Positions \div s \in Nat /\ Positions % s \in Nat
         /\ Positions % s < s
         /\ Positions = s * (Positions \div s) + (Positions % s)
BY SetupAssumption

(* Multiplication by a natural number keeps the order.                     *)
LEMMA Monotone ==
  ASSUME NEW q \in Nat, NEW a \in Nat, NEW b \in Nat, a <= b
  PROVE  a * q \in Nat /\ b * q \in Nat /\ a * q <= b * q
<1>1. b - a \in Nat /\ (b - a) * q \in Nat
  OBVIOUS
<1>2. b * q = a * q + (b - a) * q /\ a * q \in Nat /\ b * q \in Nat
  OBVIOUS
<1>. QED
  BY <1>1, <1>2

(* The parts before the k-th, and the k-th itself, make up those before    *)
(* the next; the first starts at 0 and the last ends with the ply.         *)
LEMMA BeforeStep ==
  ASSUME NEW d \in Nat, NEW s \in Nat \ {0}, NEW k \in 0..s - 1
  PROVE  /\ Before(d, s, k) \in Nat
         /\ Quota(d, s, k) \in Nat
         /\ Before(d, s, k + 1) = Before(d, s, k) + Quota(d, s, k)
<1>. DEFINE q == Positions \div s
            r == Positions % s
<1>1. q \in Nat /\ r \in Nat
  BY Division
<1>. HIDE DEF q, r
<1>2. k * q \in Nat /\ (k + 1) * q = k * q + q
  BY <1>1
<1>3. Fewer(k + 1, r) = Fewer(k, r) + (IF k < r THEN 1 ELSE 0) /\ Fewer(k, r) \in Nat
  BY <1>1 DEF Fewer
<1>4. CASE d <= PlyDepth
  BY <1>4 DEF Before, Quota
<1>5. CASE ~(d <= PlyDepth)
  <2>1. /\ Before(d, s, k) = k * q + Fewer(k, r)
        /\ Before(d, s, k + 1) = (k + 1) * q + Fewer(k + 1, r)
        /\ Quota(d, s, k) = q + (IF k < r THEN 1 ELSE 0)
    BY <1>5 DEF Before, Quota, q, r
  <2>2. (IF k < r THEN 1 ELSE 0) \in Nat
    OBVIOUS
  <2>. QED
    BY <1>1, <1>2, <1>3, <2>1, <2>2
<1>. QED
  BY <1>4, <1>5

LEMMA BeforeEnds ==
  ASSUME NEW d \in Nat, NEW s \in Nat \ {0}
  PROVE  /\ Before(d, s, 0) = 0
         /\ d > PlyDepth => Before(d, s, s) = Positions
<1>. DEFINE q == Positions \div s
            r == Positions % s
<1>1. q \in Nat /\ r \in Nat /\ r < s /\ Positions = s * q + r
  BY Division
<1>. HIDE DEF q, r
<1>2. Fewer(s, r) = r /\ Fewer(0, r) = 0 /\ 0 * q = 0
  BY <1>1 DEF Fewer
<1>3. CASE d <= PlyDepth
  BY <1>3, SetupAssumption DEF Before
<1>4. CASE ~(d <= PlyDepth)
  <2>1. /\ Before(d, s, 0) = 0 * q + Fewer(0, r)
        /\ Before(d, s, s) = s * q + Fewer(s, r)
    BY <1>4 DEF Before, q, r
  <2>. QED
    BY <1>1, <1>2, <2>1
<1>. QED
  BY <1>3, <1>4

LEMMA BeforeMonotone ==
  ASSUME NEW d \in Nat, NEW s \in Nat \ {0}, NEW k \in 0..s, NEW m \in k..s
  PROVE  /\ Before(d, s, k) \in Nat /\ Before(d, s, m) \in Nat
         /\ Before(d, s, k) <= Before(d, s, m)
         /\ Before(d, s, m) <= Positions
<1>. DEFINE q == Positions \div s
            r == Positions % s
<1>1. q \in Nat /\ r \in Nat /\ r < s /\ Positions = s * q + r
  BY Division
<1>. HIDE DEF q, r
<1>2. k * q \in Nat /\ m * q \in Nat /\ s * q \in Nat /\ k * q <= m * q /\ m * q <= s * q
  BY <1>1, Monotone
<1>3. /\ Fewer(k, r) \in Nat /\ Fewer(m, r) \in Nat
      /\ Fewer(k, r) <= Fewer(m, r) /\ Fewer(m, r) <= r
  BY <1>1 DEF Fewer
<1>4. CASE d <= PlyDepth
  BY <1>4, SetupAssumption DEF Before
<1>5. CASE ~(d <= PlyDepth)
  <2>1. /\ Before(d, s, k) = k * q + Fewer(k, r)
        /\ Before(d, s, m) = m * q + Fewer(m, r)
    BY <1>5 DEF Before, q, r
  <2>. QED
    BY <1>1, <1>2, <1>3, <2>1
<1>. QED
  BY <1>4, <1>5

(* Every position of the ply lies in one of the parts.                     *)
LEMMA SomePart ==
  ASSUME NEW d \in Nat, d > PlyDepth, NEW s \in Nat \ {0}, NEW x \in 0..Positions - 1
  PROVE  \E k \in 0..s - 1 : Before(d, s, k) <= x /\ x < Before(d, s, k + 1)
<1>. DEFINE T == {k \in 0..s - 1 : x < Before(d, s, k + 1)}
<1>1. s - 1 \in T /\ T \subseteq Nat
  BY BeforeEnds, SetupAssumption
<1>2. PICK k \in T : \A j \in T : k <= j
  BY <1>1, LeastElement
<1>3. CASE k = 0
  BY <1>2, <1>3, BeforeEnds, SetupAssumption
<1>4. CASE k # 0
  <2>1. k - 1 \in 0..s - 1 /\ k - 1 \notin T /\ (k - 1) + 1 = k
    BY <1>2, <1>4
  <2>2. Before(d, s, k) \in Nat
    BY <1>2, BeforeStep
  <2>. QED
    BY <1>2, <2>1, <2>2, SetupAssumption
<1>. QED
  BY <1>3, <1>4

-----------------------------------------------------------------------------
(* The inductive invariant.  The files that are there are those of some    *)
(* valid set-up, each with the header that the closed form Before gives;   *)
(* the loop has written the first i of its own and accumulated Before(i).  *)

Full(d, s, p) == Header(d, s, p - 1, Before(d, s, p - 1))

Valid(d, s) == /\ d \in Nat \ {0} /\ s \in 1..MaxParts
               /\ d <= PlyDepth => s = 1

FilesOf(f, d, s) ==
  /\ f = [p \in DOMAIN f |-> f[p]]
  /\ DOMAIN f \subseteq 1..s
  /\ \A p \in DOMAIN f : f[p] \in {NoHeader, Full(d, s, p)}

AllOf(f, d, s) ==
  /\ DOMAIN f = 1..s
  /\ \A p \in 1..s : f[p] = Full(d, s, p)

FilesAgree ==
  /\ \E d, s \in Nat : Valid(d, s) /\ FilesOf(workloads, d, s) /\ FilesOf(results, d, s)
  /\ exit = "ok" => \E d \in Nat, s \in Splits : Valid(d, s) /\ AllOf(workloads, d, s)

LoopAgrees ==
  /\ main \in {"open", "write"} =>
       /\ Valid(depth, split)
       /\ start = Before(depth, split, i)
       /\ FilesOf(workloads, depth, split)
       /\ \A p \in 1..i : workloads[p] = Full(depth, split, p)
  /\ main = "open" => i <= split /\ DOMAIN workloads = 1..i
  /\ main = "write" => i < split /\ DOMAIN workloads = 1..i + 1
  /\ main \in {"check", "open", "write"} => results = Nothing
  /\ main \in {"erase results", "check"} => workloads = Nothing

IInv ==
  /\ main \in {"idle", "erase", "erase results", "check", "open", "write"}
  /\ exit \in {"none", "unsupported", "split", "ok", "killed"}
  /\ depth \in Nat /\ split \in 0..MaxParts
  /\ i \in 0..MaxParts /\ start \in 0..Positions
  /\ main # "idle" => exit = "none" /\ Supported(depth, split) /\ split \in Splits
  /\ main \in {"erase", "erase results", "check"} => i = 0 /\ start = 0
  /\ main = "idle" => i = 0 /\ start = 0
  /\ FilesAgree
  /\ LoopAgrees

-----------------------------------------------------------------------------
(* What a header of a valid set-up says.                                   *)
LEMMA FullHeader ==
  ASSUME NEW d \in Nat, NEW s \in Nat, Valid(d, s), NEW p \in 1..s
  PROVE  /\ Full(d, s, p) \in Headers
         /\ Full(d, s, p) # NoHeader
         /\ Full(d, s, p).depth = d /\ Full(d, s, p).split = s
         /\ Full(d, s, p).num = Quota(d, s, p - 1)
         /\ Before(d, s, p) = Before(d, s, p - 1) + Quota(d, s, p - 1)
         /\ \A x \in Int : x \in Covers(Full(d, s, p)) <=>
                             Before(d, s, p - 1) <= x /\ x < Before(d, s, p)
<1>. DEFINE k == p - 1
            h == Full(d, s, p)
<1>0. s \in Nat \ {0} /\ d \in Nat \ {0} /\ p \in 1..MaxParts /\ p <= s
  BY SetupAssumption DEF Valid
<1>1. k \in 0..s - 1 /\ k + 1 = p
  OBVIOUS
<1>2. /\ Before(d, s, k) \in Nat /\ Quota(d, s, k) \in Nat
      /\ Before(d, s, p) = Before(d, s, k) + Quota(d, s, k)
  BY <1>0, <1>1, BeforeStep
<1>3. Before(d, s, p) <= Positions
  BY <1>0, <1>1, BeforeMonotone
<1>4. h = [depth |-> d, split |-> s, part |-> p, num |-> Quota(d, s, k),
           start |-> IF Quota(d, s, k) = 0 THEN 0 ELSE Before(d, s, k),
           end |-> IF Quota(d, s, k) = 0 THEN 0 ELSE Before(d, s, k) + Quota(d, s, k) - 1]
  BY <1>1 DEF Full, Header
<1>. HIDE DEF h
<1>5. h \in Headers
  BY <1>0, <1>2, <1>3, <1>4, SetupAssumption DEF Headers
<1>6. h # NoHeader
  BY <1>0, <1>4 DEF NoHeader
<1>7. ASSUME NEW x \in Int
      PROVE  x \in Covers(h) <=> Before(d, s, k) <= x /\ x < Before(d, s, p)
  BY <1>2, <1>4, <1>6 DEF Covers
<1>. QED
  BY <1>2, <1>4, <1>5, <1>6, <1>7 DEF h

(* The empty directory belongs to every set-up.                            *)
LEMMA NothingOf ==
  ASSUME NEW d, NEW s
  PROVE  FilesOf(Nothing, d, s)
BY DEF FilesOf, Nothing

(* Erasing files and adding one of the set-up keeps them of the set-up.    *)
LEMMA WithoutOf ==
  ASSUME NEW f, NEW d, NEW s, FilesOf(f, d, s), NEW gone
  PROVE  FilesOf(Without(f, gone), d, s)
BY DEF FilesOf, Without

-----------------------------------------------------------------------------
(* The first state satisfies the invariant.                                *)
LEMMA InitIInv == Init => IInv
<1>. SUFFICES ASSUME Init PROVE IInv
  OBVIOUS
<1>1. Valid(PlyDepth + 1, 1)
  BY SetupAssumption DEF Valid
<1>2. FilesAgree
  <2>1. FilesOf(workloads, PlyDepth + 1, 1) /\ FilesOf(results, PlyDepth + 1, 1)
    BY NothingOf DEF Init
  <2>. QED
    BY <1>1, <2>1, SetupAssumption DEF FilesAgree, Init
<1>. QED
  BY <1>2, SetupAssumption DEF IInv, Init, LoopAgrees

(* A set-up that ends, for whatever reason but success.                    *)
LEMMA LeaveStep ==
  ASSUME IInv, NEW why \in {"unsupported", "split", "killed"}, Leave(why),
         \E d, s \in Nat : Valid(d, s) /\ FilesOf(workloads', d, s) /\ FilesOf(results', d, s)
  PROVE  IInv'
<1>1. /\ main' = "idle" /\ exit' = why
      /\ depth' = 0 /\ split' = 0 /\ i' = 0 /\ start' = 0
  BY DEF Leave
<1>2. FilesAgree' /\ LoopAgrees'
  BY <1>1 DEF FilesAgree, LoopAgrees
<1>3. 0 \in Nat /\ 0 \in 0..MaxParts /\ 0 \in 0..Positions
  BY SetupAssumption
<1>. QED
  BY <1>1, <1>2, <1>3 DEF IInv

(* Every step keeps the invariant.                                         *)
LEMMA NextIInv == IInv /\ [Next]_vars => IInv'
<1>. SUFFICES ASSUME IInv, [Next]_vars PROVE IInv'
  OBVIOUS
<1>0. PICK d0, s0 \in Nat :
        Valid(d0, s0) /\ FilesOf(workloads, d0, s0) /\ FilesOf(results, d0, s0)
  BY DEF IInv, FilesAgree
<1>1. ASSUME NEW d \in Depths, NEW s \in Splits, Call(d, s) PROVE IInv'
  <2>1. CASE ~Supported(d, s)
    BY <1>0, <1>1, <2>1, LeaveStep DEF Call
  <2>2. CASE Supported(d, s)
    <3>1. d \in Nat /\ s \in Nat
      BY SetupAssumption
    <3>2. /\ main = "idle" /\ main' = "erase" /\ depth' = d /\ split' = s /\ exit' = "none"
          /\ UNCHANGED <<workloads, results, i, start>>
      BY <1>1, <2>2 DEF Call, loop
    <3>3. FilesAgree' /\ LoopAgrees'
      BY <1>0, <3>2 DEF FilesAgree, LoopAgrees
    <3>. QED
      BY <2>2, <3>1, <3>2, <3>3 DEF IInv, Supported
  <2>. QED
    BY <2>1, <2>2
<1>2. CASE EraseWorkloads
  <2>1. FilesAgree'
    BY <1>0, <1>2, NothingOf DEF EraseWorkloads, IInv, FilesAgree, Goto
  <2>2. LoopAgrees'
    BY <1>2 DEF EraseWorkloads, IInv, LoopAgrees, Goto
  <2>. QED
    BY <1>2, <2>1, <2>2 DEF EraseWorkloads, IInv, Goto, args, loop, Supported
<1>3. CASE EraseResults
  <2>1. FilesAgree'
    BY <1>0, <1>3, NothingOf DEF EraseResults, IInv, FilesAgree, Goto
  <2>2. LoopAgrees'
    BY <1>3 DEF EraseResults, IInv, LoopAgrees, Goto
  <2>. QED
    BY <1>3, <2>1, <2>2 DEF EraseResults, IInv, Goto, args, loop, Supported
<1>4. CASE CheckSplit
  <2>1. CASE depth <= PlyDepth /\ split > 1
    BY <1>0, <1>4, <2>1, LeaveStep DEF CheckSplit
  <2>2. CASE ~(depth <= PlyDepth /\ split > 1)
    <3>1. /\ main = "check" /\ main' = "open"
          /\ UNCHANGED <<workloads, results, depth, split, i, start, exit>>
      BY <1>4, <2>2 DEF CheckSplit, Goto, args, loop
    <3>2. /\ depth \in Nat /\ split \in Nat /\ split >= 1 /\ depth >= 1 /\ i = 0 /\ start = 0
          /\ workloads = Nothing /\ results = Nothing
      BY <3>1 DEF IInv, Supported, LoopAgrees
    <3>3. Valid(depth, split)
      BY <2>2, <3>1, <3>2, SetupAssumption DEF Valid, IInv
    <3>4. start = Before(depth, split, i) /\ FilesOf(workloads, depth, split)
      BY <3>2, BeforeEnds, NothingOf
    <3>5. DOMAIN workloads = 1..i
      BY <3>2 DEF Nothing
    <3>6. LoopAgrees'
      BY <3>1, <3>2, <3>3, <3>4, <3>5 DEF LoopAgrees
    <3>7. FilesAgree'
      BY <1>0, <3>1 DEF FilesAgree, IInv
    <3>. QED
      BY <3>1, <3>6, <3>7 DEF IInv, Supported
  <2>. QED
    BY <2>1, <2>2
<1>5. CASE OpenWorkload
  <2>1. /\ main = "open" /\ main' = "write" /\ i < split
        /\ workloads' = Put(workloads, i + 1, NoHeader)
        /\ UNCHANGED <<results, depth, split, i, start, exit>>
    BY <1>5 DEF OpenWorkload, Goto, args, loop
  <2>2. /\ Valid(depth, split) /\ depth \in Nat /\ split \in Nat /\ i \in Nat
        /\ FilesOf(workloads, depth, split) /\ DOMAIN workloads = 1..i
        /\ i + 1 \in 1..split /\ results = Nothing
    BY <2>1 DEF IInv, LoopAgrees
  <2>3. /\ FilesOf(workloads', depth, split)
        /\ DOMAIN workloads' = 1..i \cup {i + 1}
        /\ \A q \in 1..i : workloads'[q] = workloads[q]
    <3>1. NoHeader \in {NoHeader, Full(depth, split, i + 1)}
      OBVIOUS
    <3>2. /\ FilesOf(Put(workloads, i + 1, NoHeader), depth, split)
          /\ DOMAIN Put(workloads, i + 1, NoHeader) = DOMAIN workloads \cup {i + 1}
          /\ \A q \in DOMAIN workloads \ {i + 1} :
               Put(workloads, i + 1, NoHeader)[q] = workloads[q]
      BY <2>2, <3>1, SMT DEF FilesOf, Put
    <3>3. \A q \in 1..i : q \in DOMAIN workloads \ {i + 1}
      BY <2>2
    <3>. QED
      BY <2>1, <2>2, <3>2, <3>3
  <2>4. LoopAgrees'
    <3>1. 1..i \cup {i + 1} = 1..i + 1
      BY <2>2
    <3>2. \A q \in 1..i : workloads[q] = Full(depth, split, q)
      BY <2>1 DEF IInv, LoopAgrees
    <3>3. start = Before(depth, split, i)
      BY <2>1 DEF IInv, LoopAgrees
    <3>. QED
      BY <2>1, <2>2, <2>3, <3>1, <3>2, <3>3 DEF LoopAgrees
  <2>5. FilesAgree'
    BY <2>1, <2>2, <2>3, NothingOf DEF FilesAgree, IInv
  <2>. QED
    BY <2>1, <2>4, <2>5 DEF IInv, Supported
<1>6. CASE WriteWorkload
  <2>1. /\ main = "write" /\ main' = "open"
        /\ workloads' = Put(workloads, i + 1, Header(depth, split, i, start))
        /\ i' = i + 1 /\ start' = start + Quota(depth, split, i)
        /\ UNCHANGED <<results, depth, split, exit>>
    BY <1>6 DEF WriteWorkload, Goto, args
  <2>2. /\ Valid(depth, split) /\ depth \in Nat /\ split \in Nat \ {0} /\ i \in 0..split - 1
        /\ FilesOf(workloads, depth, split) /\ DOMAIN workloads = 1..i + 1
        /\ i + 1 \in 1..split /\ results = Nothing /\ start = Before(depth, split, i)
    BY <2>1 DEF IInv, LoopAgrees
  <2>3. Header(depth, split, i, start) = Full(depth, split, i + 1)
    BY <2>2 DEF Full
  <2>4. /\ FilesOf(workloads', depth, split)
        /\ DOMAIN workloads' = 1..i + 1
        /\ workloads'[i + 1] = Full(depth, split, i + 1)
        /\ \A q \in 1..i : workloads'[q] = workloads[q]
    <3>. DEFINE h == Full(depth, split, i + 1)
    <3>1. h \in {NoHeader, Full(depth, split, i + 1)}
      OBVIOUS
    <3>. HIDE DEF h
    <3>2. /\ FilesOf(Put(workloads, i + 1, h), depth, split)
          /\ DOMAIN Put(workloads, i + 1, h) = DOMAIN workloads \cup {i + 1}
          /\ Put(workloads, i + 1, h)[i + 1] = h
          /\ \A q \in DOMAIN workloads \ {i + 1} : Put(workloads, i + 1, h)[q] = workloads[q]
      BY <2>2, <3>1, SMT DEF FilesOf, Put
    <3>3. \A q \in 1..i : q \in DOMAIN workloads \ {i + 1}
      BY <2>2
    <3>4. workloads' = Put(workloads, i + 1, h)
      BY <2>1, <2>3 DEF h
    <3>5. DOMAIN workloads \cup {i + 1} = 1..i + 1
      BY <2>2
    <3>. QED
      BY <3>2, <3>3, <3>4, <3>5 DEF h
  <2>5. start' = Before(depth, split, i + 1) /\ start' \in 0..Positions
    <3>1. start' = Before(depth, split, i + 1)
      BY <2>1, <2>2, BeforeStep
    <3>2. Before(depth, split, i + 1) \in Nat /\ Before(depth, split, i + 1) <= Positions
      BY <2>2, BeforeMonotone
    <3>. QED
      BY <3>1, <3>2, SetupAssumption
  <2>6. LoopAgrees'
    <3>1. \A q \in 1..i : workloads[q] = Full(depth, split, q)
      BY <2>1 DEF IInv, LoopAgrees
    <3>2. \A q \in 1..i + 1 : workloads'[q] = Full(depth, split, q)
      <4>1. \A q \in 1..i + 1 : q \in 1..i \/ q = i + 1
        BY <2>2
      <4>. QED
        BY <2>4, <3>1, <4>1
    <3>. QED
      BY <2>1, <2>2, <2>4, <2>5, <3>2 DEF LoopAgrees
  <2>7. FilesAgree'
    BY <2>1, <2>2, <2>4, NothingOf DEF FilesAgree, IInv
  <2>8. i' \in 0..MaxParts
    BY <2>1, <2>2, SetupAssumption DEF Valid
  <2>. QED
    BY <2>1, <2>5, <2>6, <2>7, <2>8 DEF IInv, Supported
<1>7. CASE Finish
  <2>1. /\ main = "open" /\ i >= split /\ Leave("ok") /\ UNCHANGED <<workloads, results>>
    BY <1>7 DEF Finish
  <2>2. Valid(depth, split) /\ AllOf(workloads, depth, split) /\ split \in Splits /\ depth \in Nat
    BY <2>1 DEF IInv, LoopAgrees, AllOf
  <2>3. FilesAgree'
    BY <1>0, <2>1, <2>2 DEF FilesAgree
  <2>. QED
    BY <2>1, <2>3, SetupAssumption DEF IInv, Leave, LoopAgrees
<1>8. CASE Interrupt
  <2>1. \E d, s \in Nat : Valid(d, s) /\ FilesOf(workloads', d, s) /\ FilesOf(results', d, s)
    BY <1>0, <1>8, WithoutOf DEF Interrupt
  <2>. QED
    BY <1>8, <2>1, LeaveStep DEF Interrupt
<1>9. ASSUME NEW p \in 1..MaxParts, Count(p) PROVE IInv'
  <2>1. /\ main = "idle" /\ p \in DOMAIN workloads /\ workloads[p] # NoHeader
        /\ results' = Put(results, p, workloads[p])
        /\ UNCHANGED <<workloads, main, depth, split, i, start, exit>>
    BY <1>9 DEF Count, args, loop
  <2>2. p \in 1..s0 /\ workloads[p] = Full(d0, s0, p)
    BY <1>0, <2>1 DEF FilesOf
  <2>3. FilesOf(results', d0, s0)
    <3>1. workloads[p] \in {NoHeader, Full(d0, s0, p)}
      BY <2>2
    <3>2. FilesOf(Put(results, p, workloads[p]), d0, s0)
      BY <1>0, <2>2, <3>1 DEF FilesOf, Put
    <3>. QED
      BY <2>1, <3>2
  <2>4. FilesAgree' /\ LoopAgrees'
    BY <1>0, <2>1, <2>3 DEF FilesAgree, IInv, LoopAgrees
  <2>. QED
    BY <2>1, <2>4 DEF IInv, Supported
<1>10. CASE UNCHANGED vars
  BY <1>10 DEF vars, args, loop, IInv, FilesAgree, LoopAgrees, Supported
<1>. QED
  BY <1>1, <1>2, <1>3, <1>4, <1>5, <1>6, <1>7, <1>8, <1>9, <1>10 DEF Next

(* The inductive invariant holds in every behaviour.                       *)
THEOREM Invariance == Spec => []IInv
BY InitIInv, NextIInv, PTL DEF Spec

-----------------------------------------------------------------------------
(* Every header on disk, whatever was interrupted, has a part number and   *)
(* bounds within those of the ply and of the split.                        *)
THEOREM TypeCorrect == Spec => []TypeOK
<1>1. IInv => TypeOK
  <2>1. ASSUME NEW f, NEW d \in Nat, NEW s \in Nat, Valid(d, s), FilesOf(f, d, s)
        PROVE  IsFiles(f)
    <3>1. ASSUME NEW p \in DOMAIN f PROVE f[p] \in Headers \cup {NoHeader}
      <4>1. p \in 1..s /\ f[p] \in {NoHeader, Full(d, s, p)}
        BY <2>1 DEF FilesOf
      <4>2. Full(d, s, p) \in Headers
        BY <2>1, <4>1, FullHeader
      <4>. QED
        BY <4>1, <4>2
    <3>2. DOMAIN f \subseteq 1..MaxParts
      BY <2>1, SetupAssumption DEF FilesOf, Valid
    <3>. QED
      BY <2>1, <3>1, <3>2 DEF FilesOf, IsFiles
  <2>. QED
    BY <2>1 DEF IInv, FilesAgree, TypeOK
<1>. QED
  BY <1>1, Invariance, PTL

(* The workload files and the results next to them always come from one    *)
(* set-up, whenever a set-up was killed and run again.                     *)
THEOREM OneSetupAlways == Spec => []OneSetup
<1>1. IInv => OneSetup
  <2>. SUFFICES ASSUME IInv PROVE OneSetup
    OBVIOUS
  <2>1. PICK d, s \in Nat :
          Valid(d, s) /\ FilesOf(workloads, d, s) /\ FilesOf(results, d, s)
    BY DEF IInv, FilesAgree
  <2>2. ASSUME NEW f, FilesOf(f, d, s), NEW p \in DOMAIN f
        PROVE  f[p] = NoHeader \/ (f[p].depth = d /\ f[p].split = s)
    BY <2>1, <2>2, FullHeader DEF FilesOf
  <2>. QED
    BY <2>1, <2>2 DEF OneSetup, Agree
<1>. QED
  BY <1>1, Invariance, PTL

(* No position of the ply ever belongs to two parts.                       *)
THEOREM NoOverlapAlways == Spec => []NoOverlap
<1>1. ASSUME NEW d \in Nat, NEW s \in Nat, Valid(d, s),
             NEW p \in 1..s, NEW q \in 1..s, p < q, NEW x \in Int,
             x \in Covers(Full(d, s, p)), x \in Covers(Full(d, s, q))
      PROVE  FALSE
  <2>1. x < Before(d, s, p) /\ Before(d, s, q - 1) <= x
    BY <1>1, FullHeader
  <2>2. s \in Nat \ {0} /\ p \in 0..s /\ q - 1 \in p..s
    BY <1>1
  <2>3. /\ Before(d, s, p) \in Nat /\ Before(d, s, q - 1) \in Nat
        /\ Before(d, s, p) <= Before(d, s, q - 1)
    BY <2>2, BeforeMonotone
  <2>. QED
    BY <2>1, <2>3
<1>2. ASSUME NEW d \in Nat, NEW s \in Nat, Valid(d, s), NEW f, FilesOf(f, d, s),
             NEW p \in DOMAIN f, NEW q \in DOMAIN f \ {p},
             NEW x \in Covers(f[p]), x \in Covers(f[q])
      PROVE  FALSE
  <2>1. p \in 1..s /\ q \in 1..s /\ (p < q \/ q < p)
    BY <1>2 DEF FilesOf
  <2>2. f[p] = Full(d, s, p) /\ f[q] = Full(d, s, q)
    BY <1>2 DEF FilesOf, Covers
  <2>3. x \in Int
    <3>1. Full(d, s, p) \in Headers
      BY <1>2, <2>1, FullHeader
    <3>. QED
      BY <1>2, <2>2, <3>1 DEF Headers, Covers
  <2>. QED
    BY <1>1, <1>2, <2>1, <2>2, <2>3
<1>3. IInv => NoOverlap
  BY <1>2 DEF IInv, FilesAgree, NoOverlap
<1>. QED
  BY <1>3, Invariance, PTL

(* A set-up that ended well has shared out the whole ply, evenly.          *)
THEOREM SetupIsCompleteAlways == Spec => []SetupIsComplete
<1>1. IInv => SetupIsComplete
  <2>. SUFFICES ASSUME IInv, exit = "ok" PROVE SetupIsComplete
    BY DEF SetupIsComplete
  <2>1. PICK d \in Nat, s \in Splits : Valid(d, s) /\ AllOf(workloads, d, s)
    BY DEF IInv, FilesAgree
  <2>2. s \in Nat /\ s \in Nat \ {0} /\ DOMAIN workloads = 1..s
    BY <2>1, SetupAssumption DEF Valid, AllOf
  <2>3. ASSUME NEW p \in 1..s
        PROVE  /\ workloads[p] = Full(d, s, p)
               /\ workloads[p] # NoHeader /\ workloads[p].depth = d
               /\ workloads[p].num = Quota(d, s, p - 1)
               /\ \A x \in Int : x \in Covers(workloads[p]) <=>
                                   Before(d, s, p - 1) <= x /\ x < Before(d, s, p)
    <3>1. workloads[p] = Full(d, s, p)
      BY <2>1 DEF AllOf
    <3>. QED
      BY <2>1, <2>2, <3>1, FullHeader
  <2>4. \A p, q \in 1..s : workloads[p].num <= workloads[q].num + 1
    <3>1. Positions \div s \in Nat
      BY <2>2, Division
    <3>. QED
      BY <2>3, <3>1 DEF Quota
  <2>5. ASSUME d > PlyDepth
        PROVE  UNION {Covers(workloads[p]) : p \in 1..s} = 0..Positions - 1
    <3>1. ASSUME NEW p \in 1..s, NEW x \in Covers(workloads[p])
          PROVE  x \in 0..Positions - 1
      <4>1. x \in Int
        <5>1. workloads[p] \in Headers
          BY <2>1, <2>2, <2>3, FullHeader
        <5>. QED
          BY <5>1 DEF Headers, Covers
      <4>2. Before(d, s, p - 1) <= x /\ x < Before(d, s, p)
        BY <2>3, <4>1
      <4>3. p - 1 \in 0..s /\ p \in (p - 1)..s
        BY <2>2
      <4>4. Before(d, s, p - 1) \in Nat /\ Before(d, s, p) \in Nat /\ Before(d, s, p) <= Positions
        BY <2>2, <4>3, BeforeMonotone
      <4>. QED
        BY <4>1, <4>2, <4>4, SetupAssumption
    <3>2. ASSUME NEW x \in 0..Positions - 1
          PROVE  \E p \in 1..s : x \in Covers(workloads[p])
      <4>1. PICK k \in 0..s - 1 : Before(d, s, k) <= x /\ x < Before(d, s, k + 1)
        BY <2>2, <2>5, SomePart
      <4>2. k + 1 \in 1..s /\ (k + 1) - 1 = k /\ x \in Int
        BY <2>2
      <4>. QED
        BY <2>3, <4>1, <4>2
    <3>. QED
      BY <3>1, <3>2
  <2>6. 1 \in 1..s
    BY <2>2
  <2>. QED
    BY <2>1, <2>2, <2>3, <2>4, <2>5, <2>6 DEF SetupIsComplete
<1>. QED
  BY <1>1, Invariance, PTL
=============================================================================
