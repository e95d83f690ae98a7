--------------------------- MODULE DeepCountProofs ---------------------------
(***************************************************************************)
(* Proofs about DeepCount: for any set of parts, any number of positions,  *)
(* cores and chunk entries, and any number of interruptions and power      *)
(* failures.                                                               *)
(***************************************************************************)
EXTENDS DeepCount, SequenceTheorems, TLAPS

(* Every file holds a prefix of what it should hold, within the position   *)
(* file.                                                                   *)
FilesAreRight ==
  /\ temp.state = "headed" =>
       /\ temp.part \in Parts
       /\ temp.data = Expected(temp.part, Len(temp.data))
       /\ First[temp.part] + Len(temp.data) <= Positions
  /\ temp.state # "headed" => temp.part = 0 /\ temp.data = <<>>
  /\ \A p \in Parts :
       /\ results[p].data = Expected(p, Len(results[p].data))
       /\ First[p] + Len(results[p].data) <= Positions
       /\ ~results[p].there => results[p].data = <<>>
       /\ results[p].there /\ losses = 0 => Len(results[p].data) = Num[p]

(* What the process knows agrees with its temp_result.                     *)
Unresolved == First[part] + Len(temp.data)   \* the first position without a result

ProcessAgrees ==
  /\ main # "idle" => part \in Parts
  /\ main \notin {"idle", "open"} => ~results[part].there
  /\ main = "temp" => pos = First[part]
  /\ main = "header" => temp.state = "empty" /\ pos = First[part]
  /\ main \in {"read", "join", "write", "check", "rename"} =>
       temp.state = "headed" /\ temp.part = part
  /\ main \in {"idle", "open", "temp", "header"} => extracted = 0
  /\ main \in {"idle", "open", "temp", "header", "read"} => more
  /\ main = "read" => pos = Unresolved
  /\ main \in {"join", "write"} =>
       /\ base = Unresolved
       /\ base + n <= Positions
       /\ more => pos = base + n
  /\ main = "read" \/ (main \in {"join", "write"} /\ more) => extracted < Num[part]
  /\ main = "rename" => Len(temp.data) = Num[part]

(* The buffer holds the counts of the claimed positions of this chunk that *)
(* are not being searched; the rest of it is from earlier chunks.          *)
Searching(w, i) == at[w] = "search" /\ mine[w] = i

ChunkIsRight ==
  /\ main # "join" => at = [w \in Cores |-> "none"]
  /\ main \in {"temp", "header", "read"} => \A i \in Slots : buffer[i] < pos
  /\ main \in {"idle", "open"} => \A i \in Slots : buffer[i] < 0
  /\ main = "join" =>
       /\ \A w \in Cores : /\ at[w] # "none"
                           /\ at[w] = "search" => mine[w] < index /\ mine[w] < n
                           /\ at[w] = "done" => index >= n
       /\ \A v, w \in Cores : at[v] = "search" /\ at[w] = "search" /\ mine[v] = mine[w] => v = w
       /\ \A i \in Slots :
            IF i < index /\ i < n /\ ~\E w \in Cores : Searching(w, i)
            THEN buffer[i] = base + i
            ELSE buffer[i] < base
  /\ main = "write" => \A i \in Slots : IF i < n THEN buffer[i] = base + i
                                                ELSE buffer[i] < base

IInv == TypeOK /\ FilesAreRight /\ ProcessAgrees /\ ChunkIsRight

-----------------------------------------------------------------------------
(* Sequences of results.                                                   *)

(* The first k results are a sequence of k numbers.                        *)
LEMMA ExpectedSeq ==
  ASSUME NEW p \in Parts, NEW k \in Nat
  PROVE  Expected(p, k) \in Seq(Int) /\ Len(Expected(p, k)) = k
<1>1. First[p] \in Nat
  BY CountAssumption
<1>2. \A i \in 1..k : First[p] + i - 1 \in Int
  BY <1>1
<1> QED
  BY <1>2, SMT DEF Expected

(* The results of a chunk, appended to those before it.                    *)
LEMMA ExpectedExtends ==
  ASSUME NEW p \in Parts, NEW k \in Nat, NEW m \in Nat, m <= ChunkEntries,
         \A i \in Slots : i < m => buffer[i] = First[p] + k + i
  PROVE  Expected(p, k) \o [i \in 1..m |-> buffer[i - 1]] = Expected(p, k + m)
<1> DEFINE new == [i \in 1..m |-> buffer[i - 1]]
<1>1. First[p] \in Nat /\ ChunkEntries \in Nat
  BY CountAssumption
<1>2. \A i \in 1..m : i - 1 \in Slots /\ buffer[i - 1] = First[p] + k + (i - 1)
  BY <1>1 DEF Slots
<1>3. new \in Seq(Int) /\ Len(new) = m
  BY <1>1, <1>2
<1>4. Expected(p, k) \in Seq(Int) /\ Len(Expected(p, k)) = k
  BY ExpectedSeq
<1>5. Expected(p, k + m) \in Seq(Int) /\ Len(Expected(p, k + m)) = k + m
  BY ExpectedSeq
<1>6. Expected(p, k) \o new \in Seq(Int) /\ Len(Expected(p, k) \o new) = k + m
  BY <1>3, <1>4
<1>7. ASSUME NEW i \in 1..(k + m)
      PROVE  (Expected(p, k) \o new)[i] = Expected(p, k + m)[i]
  <2>1. Expected(p, k + m)[i] = First[p] + i - 1
    BY DEF Expected
  <2>2. CASE i <= k
    <3>1. (Expected(p, k) \o new)[i] = Expected(p, k)[i]
      BY <1>3, <1>4, <2>2
    <3>2. Expected(p, k)[i] = First[p] + i - 1
      BY <2>2 DEF Expected
    <3> QED
      BY <2>1, <3>1, <3>2
  <2>3. CASE i > k
    <3>1. (Expected(p, k) \o new)[i] = new[i - k] /\ i - k \in 1..m
      BY <1>3, <1>4, <2>3
    <3>2. new[i - k] = buffer[(i - k) - 1]
      BY <3>1
    <3>3. buffer[(i - k) - 1] = First[p] + k + ((i - k) - 1)
      BY <1>2, <3>1
    <3>4. First[p] + k + ((i - k) - 1) = First[p] + i - 1
      BY <1>1
    <3> QED
      BY <2>1, <3>1, <3>2, <3>3, <3>4
  <2>4. i <= k \/ i > k
    OBVIOUS
  <2> QED
    BY <2>2, <2>3, <2>4
<1> HIDE DEF new
<1>8. Expected(p, k) \o new = Expected(p, k + m)
  BY <1>5, <1>6, <1>7, SeqEqual
<1> QED
  BY <1>8 DEF new

(* What is left when a file loses its end.                                 *)
LEMMA ExpectedCut ==
  ASSUME NEW p \in Parts, NEW k \in Nat, NEW m \in 0..k
  PROVE  Cut(Expected(p, k), m) = Expected(p, m)
<1>1. Expected(p, k) \in Seq(Int) /\ Len(Expected(p, k)) = k
  BY ExpectedSeq
<1>2. Expected(p, m) \in Seq(Int) /\ Len(Expected(p, m)) = m
  BY ExpectedSeq
<1>3. Cut(Expected(p, k), m) \in Seq(Int) /\ Len(Cut(Expected(p, k), m)) = m
  BY <1>1, SubSeqProperties DEF Cut
<1>4. ASSUME NEW i \in 1..m
      PROVE  Cut(Expected(p, k), m)[i] = Expected(p, m)[i]
  <2>1. Cut(Expected(p, k), m)[i] = Expected(p, k)[i]
    BY <1>1, SubSeqProperties DEF Cut
  <2>2. Expected(p, k)[i] = First[p] + i - 1 /\ Expected(p, m)[i] = First[p] + i - 1
    BY DEF Expected
  <2> QED
    BY <2>1, <2>2
<1> QED
  BY <1>2, <1>3, <1>4, SeqEqual

-----------------------------------------------------------------------------
(* The invariant is inductive: what it needs of the files, and of a        *)
(* process that ends.                                                      *)

FilesTyped ==
  /\ temp \in [state : {"absent", "empty", "headed"}, part : Parts \cup {0}, data : Seq(Int)]
  /\ results \in [Parts -> [there : BOOLEAN, data : Seq(Int)]]

Exits == Errors \cup {"none", "ok", "killed", "power"}

LEMMA Initially == Init => IInv
<1> SUFFICES ASSUME Init
             PROVE  IInv
  OBVIOUS
<1> USE CountAssumption
<1>1. TypeOK
  BY DEF Init, TypeOK, Absent, Slots, Junk, Steps
<1>2. FilesAreRight
  <2>1. \A p \in Parts : Expected(p, 0) \in Seq(Int) /\ Len(Expected(p, 0)) = 0
    BY ExpectedSeq
  <2>2. \A p \in Parts : Expected(p, 0) = <<>>
    BY <2>1, EmptySeq
  <2>3. First \in [Parts -> Nat] /\ Positions \in Nat /\ Num \in [Parts -> Nat]
        /\ \A p \in Parts : First[p] + Num[p] <= Positions
    BY CountAssumption
  <2> QED
    BY <2>2, <2>3 DEF Init, FilesAreRight, Absent
<1>3. ProcessAgrees
  BY DEF Init, ProcessAgrees
<1>4. ChunkIsRight
  BY DEF Init, ChunkIsRight, Junk
<1> QED
  BY <1>1, <1>2, <1>3, <1>4 DEF IInv

(* A process that ends leaves nothing but the files.                       *)
LEMMA DeathIsFine ==
  ASSUME NEW why \in Exits, Die(why), FilesTyped', FilesAreRight',
         faults' \in 0..MaxFaults, losses' \in 0..MaxLosses
  PROVE  IInv'
<1> USE CountAssumption
<1>1. TypeOK'
  BY DEF Die, TypeOK, FilesTyped, Slots, Junk, Steps, Exits
<1>2. ProcessAgrees'
  BY DEF Die, ProcessAgrees
<1>3. ChunkIsRight'
  BY DEF Die, ChunkIsRight, Junk
<1> QED
  BY <1>1, <1>2, <1>3 DEF IInv

(* Files that are not touched stay as they are.                            *)
LEMMA SameFiles ==
  ASSUME IInv, UNCHANGED files, UNCHANGED losses
  PROVE  FilesTyped' /\ FilesAreRight'
<1>1. FilesTyped /\ FilesAreRight
  BY DEF IInv, TypeOK, FilesTyped
<1>2. FilesTyped'
  BY <1>1 DEF FilesTyped, files
<1>3. FilesAreRight'
  BY <1>1 DEF FilesAreRight, files, Expected
<1> QED
  BY <1>2, <1>3

(* Appending results of the chunk, all or some, extends the prefix.        *)
LEMMA SaveExtends ==
  ASSUME IInv, main = "write", NEW k \in 0..n, Save(k), UNCHANGED <<results, losses>>
  PROVE  /\ FilesTyped' /\ FilesAreRight'
         /\ temp'.state = "headed" /\ temp'.part = part
         /\ Len(temp'.data) = Len(temp.data) + k
<1> DEFINE l == Len(temp.data)
           new == [i \in 1..k |-> buffer[i - 1]]
<1>1. /\ part \in Parts /\ temp.state = "headed" /\ temp.part = part
      /\ base = First[part] + l /\ base + n <= Positions
      /\ temp \in [state : {"absent", "empty", "headed"}, part : Parts \cup {0}, data : Seq(Int)]
      /\ n \in 0..ChunkEntries
      /\ temp.data = Expected(part, l)
  BY DEF IInv, TypeOK, ProcessAgrees, FilesAreRight, Unresolved
<1>2. First[part] \in Nat /\ ChunkEntries \in Nat /\ l \in Nat /\ k \in Nat /\ k <= n
  BY <1>1, CountAssumption
<1>10. part \in Parts /\ l + k \in Nat /\ k <= ChunkEntries
  BY <1>1, <1>2
<1>3. \A i \in Slots : i < k => buffer[i] = First[part] + l + i
  <2>1. \A i \in Slots : i < n => buffer[i] = base + i
    BY DEF IInv, ChunkIsRight
  <2> QED
    BY <1>1, <1>2, <2>1 DEF Slots
<1> HIDE DEF l
<1>4. Expected(part, l) \o new = Expected(part, l + k)
  BY <1>2, <1>10, <1>3, ExpectedExtends
<1>5. Expected(part, l + k) \in Seq(Int) /\ Len(Expected(part, l + k)) = l + k
  BY <1>10, ExpectedSeq
<1> USE DEF l
<1>6. temp' = [temp EXCEPT !.data = Expected(part, l + k)]
  BY <1>1, <1>4 DEF Save
<1>7. /\ temp'.state = "headed" /\ temp'.part = part
      /\ temp'.data = Expected(part, l + k)
      /\ Len(temp'.data) = l + k
  BY <1>1, <1>5, <1>6
<1>8. FilesTyped'
  BY <1>1, <1>5, <1>6 DEF FilesTyped, IInv, TypeOK
<1>9. FilesAreRight'
  <2>1. First[part] + (l + k) <= Positions
    BY <1>1, <1>2, CountAssumption
  <2> QED
    BY <1>1, <1>7, <2>1 DEF FilesAreRight, IInv, Expected
<1> QED
  BY <1>7, <1>8, <1>9

(* A power failure leaves shorter prefixes.                                *)
LEMMA LossLeavesPrefixes ==
  ASSUME IInv, PowerFails
  PROVE  FilesTyped' /\ FilesAreRight' /\ losses' \in 0..MaxLosses /\ losses' > 0
<1> USE CountAssumption
<1>1. FilesTyped /\ FilesAreRight
  BY DEF IInv, TypeOK, FilesTyped
<1>2. losses' \in 0..MaxLosses /\ losses' > 0
  <2>1. losses \in 0..MaxLosses /\ losses < MaxLosses /\ losses' = losses + 1
    BY DEF IInv, TypeOK, PowerFails
  <2> QED
    BY <2>1
<1>3. /\ temp' \in [state : {"absent", "empty", "headed"}, part : Parts \cup {0}, data : Seq(Int)]
      /\ temp'.state = "headed" =>
           /\ temp'.part \in Parts
           /\ temp'.data = Expected(temp'.part, Len(temp'.data))
           /\ First[temp'.part] + Len(temp'.data) <= Positions
      /\ temp'.state # "headed" => temp'.part = 0 /\ temp'.data = <<>>
  <2>1. CASE temp' = Absent \/ temp' = Empty
    <3>1. <<>> \in Seq(Int) /\ 0 \in Parts \cup {0}
      BY EmptySeq
    <3>2. temp'.state # "headed" /\ temp'.part = 0 /\ temp'.data = <<>>
      BY <2>1 DEF Absent, Empty
    <3>3. temp' \in [state : {"absent", "empty", "headed"}, part : Parts \cup {0}, data : Seq(Int)]
      <4>1. Absent \in [state : {"absent", "empty", "headed"}, part : Parts \cup {0}, data : Seq(Int)]
        BY <3>1 DEF Absent
      <4>2. Empty \in [state : {"absent", "empty", "headed"}, part : Parts \cup {0}, data : Seq(Int)]
        BY <3>1 DEF Empty
      <4> QED
        BY <2>1, <4>1, <4>2
    <3> QED
      BY <3>2, <3>3
  <2>2. CASE /\ temp.state = "headed"
             /\ \E k \in 0..Len(temp.data) : temp' = Headed(temp.part, Cut(temp.data, k))
    <3>1. PICK k \in 0..Len(temp.data) : temp' = Headed(temp.part, Cut(temp.data, k))
      BY <2>2
    <3> DEFINE l == Len(temp.data)
    <3>2. /\ temp.part \in Parts /\ l \in Nat
          /\ temp.data = Expected(temp.part, l)
          /\ First[temp.part] + l <= Positions
      BY <1>1, <2>2, <3>1 DEF FilesTyped, FilesAreRight
    <3>6. k \in 0..l /\ k \in Nat
      BY <3>2
    <3>7. First[temp.part] \in Nat
      BY <3>2
    <3> HIDE DEF l
    <3>8. Cut(Expected(temp.part, l), k) = Expected(temp.part, k)
      BY <3>2, <3>6, ExpectedCut
    <3>3. Cut(temp.data, k) = Expected(temp.part, k)
      BY <3>2, <3>8
    <3>4. Expected(temp.part, k) \in Seq(Int) /\ Len(Expected(temp.part, k)) = k
      BY <3>2, <3>6, ExpectedSeq
    <3>5. First[temp.part] + k <= Positions
      BY <3>2, <3>6, <3>7
    <3> QED
      BY <3>1, <3>2, <3>3, <3>4, <3>5 DEF Headed
  <2> QED
    BY <2>1, <2>2 DEF PowerFails
<1>4. PICK left \in [Parts -> 0..Positions] :
        /\ \A p \in Parts : left[p] <= Len(results[p].data)
        /\ results' = [p \in Parts |-> [results[p] EXCEPT !.data = Cut(@, left[p])]]
  BY DEF PowerFails
<1>5. ASSUME NEW p \in Parts
      PROVE  /\ results'[p] \in [there : BOOLEAN, data : Seq(Int)]
             /\ results'[p].data = Expected(p, Len(results'[p].data))
             /\ First[p] + Len(results'[p].data) <= Positions
             /\ ~results'[p].there => results'[p].data = <<>>
  <2> DEFINE d == results[p].data
  <2>1. /\ results[p] \in [there : BOOLEAN, data : Seq(Int)]
        /\ d = Expected(p, Len(d)) /\ Len(d) \in Nat
        /\ First[p] + Len(d) <= Positions
        /\ ~results[p].there => d = <<>>
        /\ left[p] \in 0..Len(d)
    BY <1>1, <1>4 DEF FilesTyped, FilesAreRight
  <2>2. results'[p] = [results[p] EXCEPT !.data = Cut(d, left[p])]
    BY <1>4
  <2>3. Cut(d, left[p]) = Expected(p, left[p])
    <3>1. Cut(Expected(p, Len(d)), left[p]) = Expected(p, left[p])
      BY <2>1, ExpectedCut
    <3> HIDE DEF d
    <3> QED
      BY <2>1, <3>1
  <2>4. Expected(p, left[p]) \in Seq(Int) /\ Len(Expected(p, left[p])) = left[p]
    BY <2>1, ExpectedSeq
  <2>5. results'[p].there = results[p].there /\ results'[p].data = Expected(p, left[p])
    BY <2>1, <2>2, <2>3
  <2>6. results'[p] \in [there : BOOLEAN, data : Seq(Int)]
    BY <2>1, <2>2, <2>3, <2>4
  <2>7. First[p] + left[p] <= Positions
    BY <2>1
  <2>8. ~results[p].there => Expected(p, left[p]) = <<>>
    <3>1. ~results[p].there => left[p] = 0
      BY <2>1
    <3> QED
      BY <2>4, <3>1, EmptySeq
  <2> QED
    BY <2>4, <2>5, <2>6, <2>7, <2>8
<1>6. results' \in [Parts -> [there : BOOLEAN, data : Seq(Int)]]
  BY <1>4, <1>5
<1>7. FilesTyped'
  BY <1>3, <1>6 DEF FilesTyped
<1>8. FilesAreRight'
  BY <1>2, <1>3, <1>5 DEF FilesAreRight, Expected
<1> QED
  BY <1>2, <1>7, <1>8

-----------------------------------------------------------------------------
(* The steps.                                                              *)

(* Before the search.                                                      *)
LEMMA OpeningKeeps ==
  ASSUME IInv, (\E p \in Parts : Start(p)) \/ CheckResult \/ Resume
  PROVE  IInv'
<1> USE CountAssumption
<1>1. CASE \E p \in Parts : Start(p)
  <2>1. PICK p \in Parts : Start(p)
    BY <1>1
  <2>2. FilesTyped' /\ FilesAreRight'
    BY <2>1, SameFiles DEF Start
  <2>3. TypeOK'
    BY <2>1, <2>2 DEF IInv, TypeOK, FilesTyped, Start, Goto, chunk, Steps
  <2>4. ProcessAgrees'
    BY <2>1 DEF IInv, ProcessAgrees, Start, Goto, chunk, files
  <2>5. ChunkIsRight'
    BY <2>1 DEF IInv, ChunkIsRight, Start, Goto, chunk
  <2> QED
    BY <2>2, <2>3, <2>4, <2>5 DEF IInv
<1>2. CASE CheckResult
  <2>1. UNCHANGED files /\ UNCHANGED <<faults, losses>>
    BY <1>2 DEF CheckResult, env
  <2>2. FilesTyped' /\ FilesAreRight'
    BY <2>1, SameFiles
  <2>3. CASE Die("exists")
    BY <2>1, <2>2, <2>3, DeathIsFine DEF IInv, TypeOK, Exits, Errors
  <2>4. CASE /\ Goto("open", "temp") /\ ~results[part].there
             /\ pos' = First[part]
             /\ UNCHANGED <<files, part, extracted, more, chunk, env>>
    <3>1. part \in Parts /\ First[part] \in 0..Positions
      <4>1. part \in Parts
        BY <2>4 DEF IInv, ProcessAgrees, Goto
      <4>2. First[part] \in Nat /\ Num[part] \in Nat /\ First[part] + Num[part] <= Positions
        BY <4>1
      <4> QED
        BY <4>1, <4>2
    <3>2. TypeOK'
      BY <2>2, <2>4, <3>1 DEF IInv, TypeOK, FilesTyped, Goto, chunk, Steps, env
    <3>3. ProcessAgrees'
      BY <2>4 DEF IInv, ProcessAgrees, Goto, chunk, files
    <3>4. ChunkIsRight'
      BY <2>4, <3>1 DEF IInv, TypeOK, ChunkIsRight, Goto, chunk
    <3> QED
      BY <2>2, <3>2, <3>3, <3>4 DEF IInv
  <2> QED
    BY <1>2, <2>3, <2>4 DEF CheckResult
<1>3. CASE Resume
  <2>1. FilesTyped' /\ FilesAreRight'
    BY <1>3, SameFiles DEF Resume, env
  <2>2. /\ part \in Parts /\ First[part] \in Nat /\ Num[part] \in Nat
        /\ Len(temp.data) \in Nat /\ pos = First[part]
        /\ pos' = Unresolved /\ Unresolved <= Positions
    BY <1>3 DEF IInv, TypeOK, FilesAreRight, ProcessAgrees, Resume, Goto, Unresolved
  <2>6. pos' \in 0..Positions
    BY <2>2 DEF Unresolved
  <2>7. main' \in Steps
    BY <1>3 DEF Resume, Goto, Search, Steps
  <2>3. TypeOK'
    BY <1>3, <2>1, <2>6, <2>7 DEF IInv, TypeOK, FilesTyped, Resume, chunk, env
  <2>4. ProcessAgrees'
    BY <1>3, <2>2 DEF IInv, ProcessAgrees, Resume, Goto, chunk, files, Search, Unresolved
  <2>5. ChunkIsRight'
    BY <1>3, <2>2 DEF IInv, TypeOK, ChunkIsRight, Resume, Goto, chunk, Search, Unresolved
  <2> QED
    BY <2>1, <2>3, <2>4, <2>5 DEF IInv
<1> QED
  BY <1>1, <1>2, <1>3

(* A new temp_result, or one that is refused.                              *)
LEMMA HeaderKeeps ==
  ASSUME IInv, Create \/ Refuse \/ WriteHeader
  PROVE  IInv'
<1> USE CountAssumption
<1>1. <<>> \in Seq(Int)
  BY EmptySeq
<1>2. CASE Create
  <2>1. FilesTyped'
    BY <1>1, <1>2 DEF IInv, TypeOK, FilesTyped, Create, Empty
  <2>2. FilesAreRight'
    BY <1>2 DEF IInv, FilesAreRight, Create, Empty, env, Expected
  <2>3. TypeOK'
    BY <1>2, <2>1 DEF IInv, TypeOK, FilesTyped, Create, Goto, progress, chunk, env, Steps
  <2>4. ProcessAgrees'
    BY <1>2 DEF IInv, ProcessAgrees, Create, Goto, progress, chunk, Empty
  <2>5. ChunkIsRight'
    BY <1>2 DEF IInv, ChunkIsRight, Create, Goto, progress, chunk
  <2> QED
    BY <2>2, <2>3, <2>4, <2>5 DEF IInv
<1>3. CASE Refuse
  <2>1. FilesTyped' /\ FilesAreRight'
    BY <1>3, SameFiles DEF Refuse
  <2>2. PICK why \in {"noheader", "mismatch"} : Die(why)
    BY <1>3 DEF Refuse
  <2> QED
    BY <1>3, <2>1, <2>2, DeathIsFine DEF Refuse, IInv, TypeOK, Exits, Errors
<1>4. CASE WriteHeader
  <2>1. part \in Parts /\ First[part] \in Nat /\ Num[part] \in Nat
        /\ First[part] + Num[part] <= Positions
        /\ temp.state = "empty" /\ temp.data = <<>> /\ pos = First[part]
    BY <1>4 DEF IInv, FilesAreRight, ProcessAgrees, WriteHeader, Goto
  <2>2. temp'.state = "headed" /\ temp'.part = part /\ temp'.data = <<>>
        /\ Len(temp'.data) = 0
    BY <1>4, <2>1, EmptySeq DEF WriteHeader, Headed
  <2>3. FilesTyped'
    BY <1>1, <1>4, <2>1 DEF IInv, TypeOK, FilesTyped, WriteHeader, Headed
  <2>4. Expected(part, 0) = <<>>
    BY <2>1, ExpectedSeq, EmptySeq
  <2>5. First[part] + 0 <= Positions
    BY <2>1
  <2>6. FilesAreRight'
    BY <1>4, <2>1, <2>2, <2>4, <2>5 DEF IInv, FilesAreRight, WriteHeader, env, Expected
  <2>7. main' \in {"read", "check"} /\ (main' = "read" => Num[part] > 0)
    BY <1>4, <2>1 DEF WriteHeader, Goto, Search
  <2>8. TypeOK'
    BY <1>4, <2>3, <2>7 DEF IInv, TypeOK, FilesTyped, WriteHeader, progress, chunk, env, Steps
  <2>9. First[part] + Len(temp'.data) = pos
    BY <2>1, <2>2
  <2>10. ProcessAgrees'
    BY <1>4, <2>1, <2>2, <2>7, <2>9 DEF IInv, ProcessAgrees, WriteHeader, Goto, progress, chunk, Unresolved
  <2>11. ChunkIsRight'
    BY <1>4, <2>7 DEF IInv, ChunkIsRight, WriteHeader, Goto, progress, chunk
  <2> QED
    BY <2>6, <2>8, <2>10, <2>11 DEF IInv
<1> QED
  BY <1>2, <1>3, <1>4

LEMMA ReadKeeps ==
  ASSUME IInv, Read
  PROVE  IInv'
<1> USE CountAssumption
<1>1. FilesTyped' /\ FilesAreRight'
  BY SameFiles DEF Read, env
<1>2. main = "read"
  BY DEF Read, Goto
<1>3. part \in Parts /\ Num[part] \in Nat /\ extracted \in Nat /\ extracted < Num[part]
      /\ pos = Unresolved /\ more
  BY <1>2 DEF IInv, TypeOK, ProcessAgrees
<1>4. CASE Goto("read", "check") /\ UNCHANGED <<files, progress, chunk, env>>
  <2>1. TypeOK'
    BY <1>1, <1>4 DEF IInv, TypeOK, FilesTyped, Goto, progress, chunk, env, Steps
  <2>2. ProcessAgrees'
    BY <1>4 DEF IInv, ProcessAgrees, Goto, files, progress, chunk
  <2>3. ChunkIsRight'
    BY <1>4 DEF IInv, ChunkIsRight, Goto, chunk
  <2> QED
    BY <1>1, <2>1, <2>2, <2>3 DEF IInv
<1>5. ASSUME NEW k \in Readable,
             /\ pos' = pos + k
             /\ Launch(Entries(k))
             /\ IF extracted + k >= Num[part]
                THEN more' = FALSE /\ UNCHANGED extracted
                ELSE extracted' = extracted + k /\ UNCHANGED more
             /\ UNCHANGED <<files, part, buffer, mine, env>>
      PROVE  IInv'
  <2>1. k \in 1..ChunkEntries /\ pos + k <= Positions
    BY DEF IInv, TypeOK, Readable, Least
  <2>2. PICK j \in 0..k : /\ Launch(j)
                          /\ more' => more /\ j = k /\ extracted' < Num[part]
                          /\ more' \in BOOLEAN /\ extracted' \in Nat
    <3>1. k \in Nat
      BY <2>1
    <3>2. CASE extracted + k >= Num[part]
      <4>1. Num[part] - extracted \in 0..k
        BY <1>3, <3>1, <3>2
      <4> QED
        BY <1>3, <1>5, <3>2, <4>1 DEF Entries
    <3>3. CASE ~(extracted + k >= Num[part])
      <4>1. k \in 0..k /\ extracted + k < Num[part] /\ extracted + k \in Nat
        BY <1>3, <3>1, <3>3
      <4> QED
        BY <1>3, <1>5, <3>3, <4>1 DEF Entries
    <3> QED
      BY <3>2, <3>3
  <2>3. /\ main' = "join" /\ base' = pos /\ n' = j /\ index' = 0
        /\ at' = [w \in Cores |-> "take"]
    BY <2>2 DEF Launch
  <2>4. pos \in 0..Positions /\ Positions \in Nat /\ ChunkEntries \in Nat
    BY DEF IInv, TypeOK
  <2>5. pos' \in 0..Positions /\ base' \in 0..Positions /\ n' \in 0..ChunkEntries
        /\ base' + n' <= Positions /\ (more' => pos' = base' + n')
    BY <1>5, <2>1, <2>2, <2>3, <2>4
  <2>6. TypeOK'
    BY <1>1, <1>5, <2>2, <2>3, <2>5 DEF IInv, TypeOK, FilesTyped, env, Steps
  <2>7. ProcessAgrees'
    BY <1>2, <1>3, <1>5, <2>2, <2>3, <2>5 DEF IInv, ProcessAgrees, files, Unresolved
  <2>8. ChunkIsRight'
    <3>1. \A i \in Slots : buffer[i] < pos /\ ~(i < 0)
      BY <1>2 DEF IInv, ChunkIsRight, Slots
    <3> QED
      BY <1>5, <2>3, <3>1 DEF ChunkIsRight, Searching
  <2> QED
    BY <1>1, <2>6, <2>7, <2>8 DEF IInv
<1> QED
  BY <1>4, <1>5 DEF Read

LEMMA ReadTornKeeps ==
  ASSUME IInv, ReadTorn
  PROVE  IInv'
<1>1. FilesTyped' /\ FilesAreRight'
  BY SameFiles DEF ReadTorn
<1>2. faults' \in 0..MaxFaults /\ losses' \in 0..MaxLosses
  BY CountAssumption DEF ReadTorn, IInv, TypeOK
<1> QED
  BY <1>1, <1>2, DeathIsFine DEF ReadTorn, Exits, Errors

(* The search threads.                                                     *)
LEMMA TakeKeeps ==
  ASSUME IInv, NEW t \in Cores, Take(t)
  PROVE  IInv'
<1>1. FilesTyped' /\ FilesAreRight'
  BY SameFiles DEF Take, env
<1>2. main = "join"
  BY DEF IInv, ChunkIsRight, Take
<1>3. /\ index \in Nat /\ n \in Nat /\ index' = index + 1
      /\ mine \in [Cores -> Nat] /\ mine' = [mine EXCEPT ![t] = index]
      /\ at \in [Cores -> {"none", "take", "search", "done"}] /\ at[t] = "take"
      /\ at' = [at EXCEPT ![t] = IF index >= n THEN "done" ELSE "search"]
      /\ UNCHANGED <<main, n, base, buffer>>
  BY CountAssumption DEF IInv, TypeOK, Take
<1>4. TypeOK'
  BY <1>1, <1>3 DEF IInv, TypeOK, FilesTyped, Take, progress, env
<1>5. ProcessAgrees'
  BY DEF IInv, ProcessAgrees, Take, files, progress, Unresolved
<1>6. ChunkIsRight'
  <2>1. ASSUME NEW w \in Cores
        PROVE  /\ at'[w] # "none"
               /\ at'[w] = "search" => mine'[w] < index' /\ mine'[w] < n'
               /\ at'[w] = "done" => index' >= n'
    BY <1>2, <1>3 DEF IInv, ChunkIsRight
  <2>2. ASSUME NEW v \in Cores, NEW w \in Cores,
               at'[v] = "search", at'[w] = "search", mine'[v] = mine'[w]
        PROVE  v = w
    <3>1. \A u \in Cores : at[u] = "search" => mine[u] < index
      BY <1>2 DEF IInv, ChunkIsRight
    <3> QED
      BY <1>2, <1>3, <2>2, <3>1 DEF IInv, ChunkIsRight
  <2>3. ASSUME NEW i \in Slots
        PROVE  IF i < index' /\ i < n' /\ ~\E w \in Cores : Searching(w, i)'
               THEN buffer'[i] = base' + i
               ELSE buffer'[i] < base'
    <3>1. IF i < index /\ i < n /\ ~\E w \in Cores : Searching(w, i)
          THEN buffer[i] = base + i
          ELSE buffer[i] < base
      BY <1>2 DEF IInv, ChunkIsRight
    <3>2. i \in Int
      BY DEF Slots
    <3>3. CASE i = index /\ i < n
      <4>1. Searching(t, i)'
        BY <1>3, <3>3 DEF Searching
      <4>2. buffer[i] < base
        BY <1>3, <3>1, <3>3
      <4> QED
        BY <1>3, <4>1, <4>2
    <3>4. CASE ~(i = index /\ i < n)
      <4>1. (i < index' /\ i < n') <=> (i < index /\ i < n)
        BY <1>3, <3>2, <3>4
      <4>2. ASSUME i < n
            PROVE  (\E w \in Cores : Searching(w, i)') <=> \E w \in Cores : Searching(w, i)
        BY <1>3, <3>4, <4>2 DEF Searching
      <4> QED
        BY <1>3, <3>1, <4>1, <4>2
    <3> QED
      BY <3>3, <3>4
  <2> QED
    BY <1>2, <1>3, <2>1, <2>2, <2>3 DEF ChunkIsRight
<1> QED
  BY <1>1, <1>4, <1>5, <1>6 DEF IInv

LEMMA SearchKeeps ==
  ASSUME IInv, NEW t \in Cores, SearchPosition(t)
  PROVE  IInv'
<1>1. FilesTyped' /\ FilesAreRight'
  BY SameFiles DEF SearchPosition, env
<1>2. main = "join"
  BY DEF IInv, ChunkIsRight, SearchPosition
<1>3. /\ index \in Nat /\ n \in Nat /\ n <= ChunkEntries /\ base \in Int
      /\ ChunkEntries \in Nat
      /\ mine \in [Cores -> Nat] /\ buffer \in [Slots -> Int]
      /\ at \in [Cores -> {"none", "take", "search", "done"}] /\ at[t] = "search"
      /\ at' = [at EXCEPT ![t] = "take"]
      /\ buffer' = [buffer EXCEPT ![mine[t]] = base + mine[t]]
      /\ UNCHANGED <<main, n, base, index, mine>>
  BY CountAssumption DEF IInv, TypeOK, SearchPosition
<1>4. mine[t] < index /\ mine[t] < n /\ mine[t] \in Slots
  BY <1>2, <1>3 DEF IInv, ChunkIsRight, Slots
<1>5. TypeOK'
  <2>1. buffer' \in [Slots -> Int]
    BY <1>3, <1>4
  <2> QED
    BY <1>1, <1>3, <2>1 DEF IInv, TypeOK, FilesTyped, SearchPosition, progress, env
<1>6. ProcessAgrees'
  BY DEF IInv, ProcessAgrees, SearchPosition, files, progress, Unresolved
<1>7. ChunkIsRight'
  <2>1. ASSUME NEW w \in Cores
        PROVE  /\ at'[w] # "none"
               /\ at'[w] = "search" => mine'[w] < index' /\ mine'[w] < n'
               /\ at'[w] = "done" => index' >= n'
    BY <1>2, <1>3 DEF IInv, ChunkIsRight
  <2>2. ASSUME NEW v \in Cores, NEW w \in Cores,
               at'[v] = "search", at'[w] = "search", mine'[v] = mine'[w]
        PROVE  v = w
    BY <1>2, <1>3, <2>2 DEF IInv, ChunkIsRight
  <2>3. ASSUME NEW i \in Slots
        PROVE  IF i < index' /\ i < n' /\ ~\E w \in Cores : Searching(w, i)'
               THEN buffer'[i] = base' + i
               ELSE buffer'[i] < base'
    <3>1. IF i < index /\ i < n /\ ~\E w \in Cores : Searching(w, i)
          THEN buffer[i] = base + i
          ELSE buffer[i] < base
      BY <1>2 DEF IInv, ChunkIsRight
    <3>2. CASE i = mine[t]
      <4>1. ~\E w \in Cores : Searching(w, i)'
        BY <1>2, <1>3, <3>2 DEF IInv, ChunkIsRight, Searching
      <4> QED
        BY <1>3, <1>4, <3>2, <4>1
    <3>3. CASE i # mine[t]
      <4>1. (\E w \in Cores : Searching(w, i)') <=> \E w \in Cores : Searching(w, i)
        BY <1>3, <3>3 DEF Searching
      <4>2. buffer'[i] = buffer[i]
        BY <1>3, <3>3
      <4> QED
        BY <1>3, <3>1, <4>1, <4>2
    <3> QED
      BY <3>2, <3>3
  <2> QED
    BY <1>2, <1>3, <2>1, <2>2, <2>3 DEF ChunkIsRight
<1> QED
  BY <1>1, <1>5, <1>6, <1>7 DEF IInv

LEMMA JoinKeeps ==
  ASSUME IInv, Join
  PROVE  IInv'
<1>1. FilesTyped' /\ FilesAreRight'
  BY SameFiles DEF Join, env
<1>2. main = "join" /\ main' = "write" /\ index \in Int /\ n \in Int
  BY CountAssumption DEF Join, Goto, IInv, TypeOK
<1>3. index >= n
  <2>1. PICK w \in Cores : at[w] = "done"
    BY CountAssumption DEF Join
  <2> QED
    BY <1>2, <2>1 DEF IInv, ChunkIsRight
<1>4. \A i \in Slots, w \in Cores : ~Searching(w, i)
  BY DEF Join, Searching
<1>5. \A i \in Slots : IF i < n THEN buffer[i] = base + i ELSE buffer[i] < base
  BY <1>2, <1>3, <1>4 DEF IInv, ChunkIsRight, Slots
<1>6. TypeOK'
  BY <1>1, <1>2 DEF IInv, TypeOK, FilesTyped, Join, progress, env, Steps
<1>7. ProcessAgrees'
  BY <1>2 DEF IInv, ProcessAgrees, Join, files, progress, Unresolved
<1>8. ChunkIsRight'
  BY <1>2, <1>5 DEF ChunkIsRight, Join
<1> QED
  BY <1>1, <1>6, <1>7, <1>8 DEF IInv

(* Writing the chunk out.                                                  *)
LEMMA WriteKeeps ==
  ASSUME IInv, Write
  PROVE  IInv'
<1> USE CountAssumption
<1>1. main = "write" /\ Save(n) /\ n \in 0..n /\ n \in Nat /\ UNCHANGED <<results, losses>>
  BY DEF Write, Goto, IInv, TypeOK, env
<1>2. /\ FilesTyped' /\ FilesAreRight'
      /\ temp'.state = "headed" /\ temp'.part = part
      /\ Len(temp'.data) = Len(temp.data) + n
  BY <1>1, SaveExtends
<1>3. /\ part \in Parts /\ First[part] \in Nat /\ Len(temp.data) \in Nat
      /\ base = First[part] + Len(temp.data)
      /\ more => pos = base + n
  BY <1>1 DEF IInv, TypeOK, ProcessAgrees, Unresolved
<1>4. main' \in {"read", "check"} /\ (main' = "read" => more)
  BY DEF Write, Goto
<1>5. main' = "read" => pos = First[part] + Len(temp'.data)
  BY <1>1, <1>2, <1>3, <1>4
<1>6. TypeOK'
  BY <1>2, <1>4 DEF IInv, TypeOK, FilesTyped, Write, progress, chunk, env, Steps
<1>7. ProcessAgrees'
  BY <1>1, <1>2, <1>4, <1>5 DEF IInv, ProcessAgrees, Write, progress, chunk, Unresolved
<1>8. ChunkIsRight'
  <2>1. ASSUME main' = "read", NEW i \in Slots
        PROVE  buffer[i] < pos
    <3>1. pos = base + n /\ base \in Int /\ i \in Int /\ buffer[i] \in Int
      BY <1>3, <1>4, <2>1 DEF IInv, TypeOK, Slots
    <3>2. IF i < n THEN buffer[i] = base + i ELSE buffer[i] < base
      BY <1>1 DEF IInv, ChunkIsRight
    <3> QED
      BY <1>1, <3>1, <3>2
  <2> QED
    BY <1>1, <1>4, <2>1 DEF IInv, ChunkIsRight, Write, progress, chunk
<1> QED
  BY <1>2, <1>6, <1>7, <1>8 DEF IInv

(* A count that is cut short: its last write may have been partial.        *)
LEMMA CutShortKeeps ==
  ASSUME IInv, WriteFails \/ Interrupt \/ PowerFails
  PROVE  IInv'
<1>1. n \in Nat /\ faults \in 0..MaxFaults /\ losses \in 0..MaxLosses
      /\ MaxFaults \in Nat /\ MaxLosses \in Nat
  BY CountAssumption DEF IInv, TypeOK
<1>2. \A k \in 0..n - 1 : k \in 0..n
  BY <1>1
<1>3. CASE WriteFails
  <2>1. PICK k \in 0..n - 1 : Save(k)
    BY <1>3 DEF WriteFails
  <2>2. main = "write" /\ Die("io") /\ faults' \in 0..MaxFaults /\ losses' \in 0..MaxLosses
        /\ UNCHANGED <<results, losses>>
    BY <1>1, <1>3 DEF WriteFails
  <2>3. FilesTyped' /\ FilesAreRight'
    BY <1>2, <2>1, <2>2, SaveExtends
  <2> QED
    BY <2>2, <2>3, DeathIsFine DEF Exits, Errors
<1>4. CASE Interrupt
  <2>1. Die("killed") /\ faults' \in 0..MaxFaults /\ losses' \in 0..MaxLosses
        /\ UNCHANGED <<results, losses>>
    BY <1>1, <1>4 DEF Interrupt
  <2>2. FilesTyped' /\ FilesAreRight'
    <3>1. CASE UNCHANGED temp
      BY <2>1, <3>1, SameFiles DEF files
    <3>2. CASE main = "write" /\ \E k \in 0..n - 1 : Save(k)
      BY <1>2, <2>1, <3>2, SaveExtends
    <3> QED
      BY <1>4, <3>1, <3>2 DEF Interrupt
  <2> QED
    BY <2>1, <2>2, DeathIsFine DEF Exits
<1>5. CASE PowerFails
  BY <1>1, <1>5, LossLeavesPrefixes, DeathIsFine DEF PowerFails, Exits
<1> QED
  BY <1>3, <1>4, <1>5

(* The end of a count, and erasing what it left.                           *)
LEMMA EndKeeps ==
  ASSUME IInv, CheckSize \/ Rename \/ EraseTemp
  PROVE  IInv'
<1> USE CountAssumption
<1>1. <<>> \in Seq(Int)
  BY EmptySeq
<1>2. CASE CheckSize
  <2>1. FilesTyped' /\ FilesAreRight'
    BY <1>2, SameFiles DEF CheckSize, env
  <2>2. CASE Die("size") /\ UNCHANGED <<files, faults, losses>>
    BY <2>1, <2>2, DeathIsFine DEF IInv, TypeOK, Exits, Errors
  <2>3. CASE /\ Goto("check", "rename") /\ Len(temp.data) = Num[part]
             /\ UNCHANGED <<files, progress, chunk, env>>
    <3>1. TypeOK'
      BY <2>1, <2>3 DEF IInv, TypeOK, FilesTyped, Goto, progress, chunk, env, Steps
    <3>2. ProcessAgrees'
      BY <2>3 DEF IInv, ProcessAgrees, Goto, files, progress, chunk
    <3>3. ChunkIsRight'
      BY <2>3 DEF IInv, ChunkIsRight, Goto, chunk
    <3> QED
      BY <2>1, <3>1, <3>2, <3>3 DEF IInv
  <2> QED
    BY <1>2, <2>2, <2>3 DEF CheckSize
<1>3. CASE Rename
  <2>1. /\ part \in Parts /\ temp.state = "headed" /\ temp.part = part
        /\ Len(temp.data) = Num[part]
        /\ temp.data \in Seq(Int)
        /\ temp.data = Expected(part, Len(temp.data))
        /\ First[part] + Len(temp.data) <= Positions
    BY <1>3 DEF IInv, TypeOK, FilesAreRight, ProcessAgrees, Rename
  <2>2. results' = [results EXCEPT ![part] = [there |-> TRUE, data |-> temp.data]]
        /\ temp' = Absent
    BY <1>3 DEF Rename
  <2>3. FilesTyped'
    BY <1>1, <2>1, <2>2 DEF IInv, TypeOK, FilesTyped, Absent
  <2>4. FilesAreRight'
    <3>1. temp'.state # "headed" /\ temp'.part = 0 /\ temp'.data = <<>>
      BY <2>2 DEF Absent
    <3>2. ASSUME NEW p \in Parts
          PROVE  /\ results'[p].data = Expected(p, Len(results'[p].data))
                 /\ First[p] + Len(results'[p].data) <= Positions
                 /\ ~results'[p].there => results'[p].data = <<>>
                 /\ results'[p].there /\ losses = 0 => Len(results'[p].data) = Num[p]
      <4>1. CASE p = part
        <5>1. results'[p].there /\ results'[p].data = temp.data
          BY <2>1, <2>2, <4>1 DEF IInv, TypeOK
        <5> QED
          BY <2>1, <4>1, <5>1
      <4>2. CASE p # part
        <5>1. results'[p] = results[p]
          BY <2>1, <2>2, <4>2 DEF IInv, TypeOK
        <5> QED
          BY <5>1 DEF IInv, FilesAreRight
      <4> QED
        BY <4>1, <4>2
    <3> QED
      BY <1>3, <3>1, <3>2 DEF FilesAreRight, Rename, Expected
  <2> QED
    BY <1>3, <2>3, <2>4, DeathIsFine DEF Rename, IInv, TypeOK, Exits
<1>4. CASE EraseTemp
  <2>1. FilesTyped'
    BY <1>1, <1>4 DEF IInv, TypeOK, FilesTyped, EraseTemp, Absent
  <2>2. FilesAreRight'
    BY <1>4 DEF IInv, FilesAreRight, EraseTemp, Absent, Expected
  <2>3. TypeOK'
    BY <1>4, <2>1 DEF IInv, TypeOK, FilesTyped, EraseTemp, progress, chunk
  <2>4. ProcessAgrees'
    BY <1>4 DEF IInv, ProcessAgrees, EraseTemp, progress, chunk
  <2>5. ChunkIsRight'
    BY <1>4 DEF IInv, ChunkIsRight, EraseTemp, progress, chunk
  <2> QED
    BY <2>2, <2>3, <2>4, <2>5 DEF IInv
<1> QED
  BY <1>2, <1>3, <1>4

-----------------------------------------------------------------------------
(* The theorems.                                                           *)

LEMMA StepKeeps == IInv /\ [Next]_vars => IInv'
<1> SUFFICES ASSUME IInv, [Next]_vars
             PROVE  IInv'
  OBVIOUS
<1>1. CASE \E p \in Parts : Start(p)
  BY <1>1, OpeningKeeps
<1>2. CASE CheckResult \/ Resume
  BY <1>2, OpeningKeeps
<1>3. CASE Create \/ Refuse \/ WriteHeader
  BY <1>3, HeaderKeeps
<1>4. CASE Read \/ ReadTorn
  BY <1>4, ReadKeeps, ReadTornKeeps
<1>5. CASE Join
  BY <1>5, JoinKeeps
<1>6. CASE Write
  BY <1>6, WriteKeeps
<1>7. CASE CheckSize \/ Rename \/ EraseTemp
  BY <1>7, EndKeeps
<1>8. CASE \E w \in Cores : Thread(w)
  BY <1>8, TakeKeeps, SearchKeeps DEF Thread
<1>9. CASE WriteFails \/ Interrupt \/ PowerFails
  BY <1>9, CutShortKeeps
<1>10. CASE UNCHANGED vars
  <2>1. FilesTyped' /\ FilesAreRight'
    BY <1>10, SameFiles DEF vars, env
  <2>2. TypeOK' /\ ProcessAgrees' /\ ChunkIsRight'
    BY <1>10 DEF IInv, TypeOK, ProcessAgrees, ChunkIsRight, Searching, Unresolved,
                 vars, files, progress, chunk, env
  <2> QED
    BY <2>1, <2>2 DEF IInv
<1> QED
  BY <1>1, <1>2, <1>3, <1>4, <1>5, <1>6, <1>7, <1>8, <1>9, <1>10 DEF Next, Main

THEOREM Invariance == Spec => []IInv
BY Initially, StepKeeps, PTL DEF Spec

(* The variables keep their types.                                         *)
THEOREM TypeCorrect == Spec => []TypeOK
<1>1. IInv => TypeOK
  BY DEF IInv
<1> QED
  BY <1>1, Invariance, PTL

(* A checkpoint is always a prefix of the results of its part, whatever    *)
(* interrupted the counts that wrote it.                                   *)
THEOREM Checkpoints == Spec => []CheckpointIsPrefix
<1>1. IInv => CheckpointIsPrefix
  BY DEF IInv, FilesAreRight, CheckpointIsPrefix
<1> QED
  BY <1>1, Invariance, PTL

(* A results file holds the results of its part, all of them if there was  *)
(* no power failure.                                                       *)
THEOREM Results == Spec => []ResultsAreRight
<1>1. IInv => ResultsAreRight
  BY DEF IInv, FilesAreRight, ResultsAreRight
<1> QED
  BY <1>1, Invariance, PTL

(* No position of a chunk is searched twice or skipped.                    *)
THEOREM Searches == Spec => []OneSearcher
<1>1. IInv => OneSearcher
  <2> SUFFICES ASSUME IInv, main = "join", NEW i \in Claimed
               PROVE  \/ /\ buffer[i] = base + i
                         /\ \A w \in Cores : ~Searching(w, i)
                      \/ \E w \in Cores : \A v \in Cores : Searching(v, i) <=> v = w
    BY DEF OneSearcher, Searching
  <2>1. i \in Slots /\ i < index /\ i < n
    BY DEF Claimed
  <2>2. CASE \E w \in Cores : Searching(w, i)
    BY <2>2 DEF IInv, ChunkIsRight, Searching
  <2>3. CASE ~\E w \in Cores : Searching(w, i)
    BY <2>1, <2>3 DEF IInv, ChunkIsRight
  <2> QED
    BY <2>2, <2>3
<1> QED
  BY <1>1, Invariance, PTL

(* A results file appears complete and in one step, and only a power       *)
(* failure changes it afterwards.                                          *)
THEOREM PublishedWhole == Spec => PublishedOnce
<1>1. IInv /\ [Next]_vars => [OnlyPublications]_vars
  <2> SUFFICES ASSUME IInv, Next, NEW p \in Parts, results'[p] # results[p]
               PROVE  Publication(p) \/ losses' # losses
    BY DEF OnlyPublications
  <2>1. Rename \/ PowerFails
    BY DEF Next, Main, Start, CheckResult, Resume, Create, Refuse, WriteHeader, Read, Join,
           Write, CheckSize, Thread, Take, SearchPosition, WriteFails, ReadTorn, Interrupt, EraseTemp, files
  <2>2. CASE Rename
    <3>1. /\ part \in Parts /\ ~results[part].there
          /\ temp.data = Expected(part, Num[part])
      BY <2>2 DEF IInv, FilesAreRight, ProcessAgrees, Rename
    <3>2. results' = [results EXCEPT ![part] = [there |-> TRUE, data |-> temp.data]]
      BY <2>2 DEF Rename
    <3> QED
      BY <3>1, <3>2 DEF IInv, TypeOK, Publication
  <2>3. CASE PowerFails
    BY <2>3, CountAssumption DEF IInv, TypeOK, PowerFails
  <2> QED
    BY <2>1, <2>2, <2>3
<1> QED
  BY <1>1, Invariance, PTL DEF Spec, PublishedOnce
=============================================================================
