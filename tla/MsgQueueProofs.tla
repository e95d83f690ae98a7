---------------------------- MODULE MsgQueueProofs ----------------------------
(***************************************************************************)
(* Proofs about the message queue, for any threads on its two ends, any    *)
(* size of the buffer, any message lengths and any of the waiting modes.   *)
(***************************************************************************)
EXTENDS MsgQueue, WellFoundedInduction, SequenceTheorems, TLAPS

-----------------------------------------------------------------------------
(* The inductive invariant.                                                *)

Words == (0..MaxSends) \X (0..Size)
Calls == [mode : Waits \cup {"none"}, cur : Word, retries : 0..RETRY_COUNT + 1,
          expired : BOOLEAN, msg : Seq(Words)]

Types ==
  /\ word \in Word
  /\ ring \in [0..Size-1 -> Words]
  /\ head \in 0..Size-1 /\ tail \in 0..Size-1
  /\ lock \in [{"head", "tail"} -> SUBSET Threads]
  /\ pc \in [Threads -> Locations]
  /\ call \in [Threads -> Calls]
  /\ got \in [Receivers -> Seq(Words)]
  /\ sends \in 0..MaxSends

(* A thread inside has the side of the queue it works on to itself.        *)
Inside == {"check", "mark", "release", "reload", "copy", "commit", "clear", "signal", "unlock"}
Locking == {"lock", "release", "relock", "unlock"}

LocksOK ==
  /\ \A t \in Threads : Single(t) => pc[t] \notin Locking
  /\ \A t \in Threads : ~Single(t) /\ pc[t] \in Inside => lock[Side(t)] = {t}

(* What bsdlicQueueSend accepts.                                           *)
Payloads == {[k \in 1..n |-> <<i, k>>] : n \in {l \in Lengths : l # 0 /\ l + 1 <= Size},
                                         i \in 1..MaxSends}

(* What a thread has found out still holds when it acts on it: of a thread *)
(* t at l in its code with the locals c, when the word is w.               *)
Fits(t, c, w) == IF t \in Senders THEN w.used + Len(c.msg) + 1 <= Size ELSE w.used # 0

CallOK(t, l, c, w) ==
  /\ Len(c.msg) < Size
  /\ t \in Senders /\ l \notin {"idle", "unlock"} => c.msg \in Payloads
  /\ l \in {"lock", "check"} => c.retries <= RETRY_COUNT
  /\ l \in {"mark", "release", "fwait", "asleep"} => ~Fits(t, c, c.cur)
  /\ l = "copy" => Fits(t, c, w)
  /\ t \in Senders /\ l = "commit" => Fits(t, c, w)
  /\ l = "clear" => w[PeerFlag(t)] = 1

CallsOK == \A t \in Threads : CallOK(t, pc[t], call[t], word)

(* The condition a caller waits for, as a bound on the used words.         *)
LEMMA ReadyFits ==
  ASSUME NEW t, NEW w
  PROVE  Ready(t, w) <=> Fits(t, call[t], w)
BY DEF Ready, Fits

-----------------------------------------------------------------------------
(* Mutual exclusion on each side.                                          *)

(* A thread sends or receives, and works on the side of the queue that     *)
(* says so.                                                                *)
LEMMA SideFacts ==
  ASSUME NEW t \in Threads
  PROVE  /\ t \in Senders \/ t \in Receivers
         /\ t \in Senders => t \notin Receivers
         /\ Side(t) \in {"head", "tail"}
         /\ \A u \in Threads : Side(t) = Side(u) <=> (t \in Senders <=> u \in Senders)
         /\ \A u \in Threads : Side(t) = Side(u) => (Single(t) <=> Single(u))
BY QueueAssumption DEF Threads, Side, Single

(* A side opened for a single thread has one thread.                       *)
LEMMA OneOfSingle ==
  ASSUME NEW t \in Threads, NEW u \in Threads, Side(t) = Side(u), Single(t)
  PROVE  t = u
BY SideFacts, QueueAssumption DEF Single, Threads

(* Two threads inside on the same side are the same thread.                *)
LEMMA Alone ==
  ASSUME LocksOK, NEW t \in Threads, NEW u \in Threads, Side(t) = Side(u),
         pc[t] \in Inside, pc[u] \in Inside
  PROVE  t = u
<1>1. CASE Single(t)
  BY <1>1, OneOfSingle
<1>2. CASE ~Single(t)
  BY <1>2, SideFacts DEF LocksOK
<1>. QED
  BY <1>1, <1>2

(* How a step of one thread keeps LocksOK: it goes from inside to inside,  *)
(* gets the lock of its side, or gives it up.                              *)
LEMMA LocksKept ==
  ASSUME Types, LocksOK, NEW t \in Threads, NEW to,
         pc' = [pc EXCEPT ![t] = to], UNCHANGED lock,
         to \in Inside => pc[t] \in Inside \/ Single(t),
         Single(t) => to \notin Locking
  PROVE  LocksOK'
BY DEF Types, LocksOK, Side, Single

(* The thread that gets the lock of its side is the one inside.            *)
LEMMA LocksTaken ==
  ASSUME Types, LocksOK, NEW t \in Threads, NEW to, ~Single(t),
         pc' = [pc EXCEPT ![t] = to], TakeLock(t)
  PROVE  LocksOK'
<1>1. ASSUME NEW u \in Threads, ~Single(u), pc'[u] \in Inside
      PROVE  lock'[Side(u)] = {u}
  <2>1. CASE u = t
    BY <2>1, SideFacts DEF Types, TakeLock
  <2>2. CASE u # t
    <3>1. lock[Side(u)] = {u}
      BY <1>1, <2>2 DEF Types, LocksOK
    <3>2. Side(u) # Side(t)
      BY <3>1 DEF TakeLock
    <3>. QED
      BY <3>1, <3>2, SideFacts DEF Types, TakeLock
  <2>. QED
    BY <2>1, <2>2
<1>2. ASSUME NEW u \in Threads, Single(u)
      PROVE  pc'[u] \notin Locking
  BY <1>2 DEF Types, LocksOK
<1>. QED
  BY <1>1, <1>2 DEF LocksOK, Single, Side

(* The thread that gives the lock up leaves its side empty.                *)
LEMMA LocksDropped ==
  ASSUME Types, LocksOK, NEW t \in Threads, NEW to, ~Single(t), pc[t] \in Inside,
         to \notin Inside, pc' = [pc EXCEPT ![t] = to], DropLock(t)
  PROVE  LocksOK'
<1>1. ASSUME NEW u \in Threads, ~Single(u), pc'[u] \in Inside
      PROVE  lock'[Side(u)] = {u}
  <2>1. u # t /\ pc[u] \in Inside
    BY <1>1 DEF Types
  <2>2. Side(u) # Side(t)
    BY <2>1, Alone
  <2>. QED
    BY <1>1, <2>1, <2>2, SideFacts DEF Types, LocksOK, DropLock
<1>2. ASSUME NEW u \in Threads, Single(u)
      PROVE  pc'[u] \notin Locking
  BY <1>2 DEF Types, LocksOK
<1>. QED
  BY <1>1, <1>2 DEF LocksOK, Single, Side

(* Every step keeps the mutual exclusion of the two sides: those that take *)
(* or drop the lock by LocksTaken and LocksDropped, all others by          *)
(* LocksKept.                                                              *)
LEMMA LocksStep ==
  ASSUME Types, LocksOK, Next
  PROVE  LocksOK'
<1>. USE DEF Goto, Left, Inside, Locking
<1>1. ASSUME NEW t \in Threads, NEW w, NEW m, Begin(t, w, m), UNCHANGED lock
      PROVE  LocksOK'
  BY <1>1, LocksKept DEF Begin
<1>2. ASSUME NEW s \in Senders, NEW n \in Lengths, NEW w \in Waits, SendCall(s, n, w)
      PROVE  LocksOK'
  BY <1>1, <1>2 DEF SendCall, Threads
<1>3. ASSUME NEW r \in Receivers, NEW w \in Waits, ReceiveCall(r, w)
      PROVE  LocksOK'
  BY <1>1, <1>3 DEF ReceiveCall, Threads
<1>4. ASSUME NEW t \in Threads, Lock(t) \/ Relock(t)
      PROVE  LocksOK'
  BY <1>4, LocksTaken DEF Lock, Relock, LocksOK
<1>5. ASSUME NEW t \in Threads, Check(t)
      PROVE  LocksOK'
  BY <1>5, LocksKept DEF Check, Leave, LocksOK
<1>6. ASSUME NEW t \in Threads, Mark(t)
      PROVE  LocksOK'
  BY <1>6, LocksKept DEF Mark
<1>7. ASSUME NEW t \in Threads, Release(t) \/ Unlock(t)
      PROVE  LocksOK'
  BY <1>7, LocksDropped DEF Release, Unlock, LocksOK
<1>8. ASSUME NEW t \in Threads, FutexWait(t) \/ Interrupted(t) \/ TimesOut(t)
      PROVE  LocksOK'
  BY <1>8, LocksKept DEF FutexWait, Interrupted, TimesOut, AfterWait
<1>9. ASSUME NEW t \in Threads, Reload(t)
      PROVE  LocksOK'
  BY <1>9, LocksKept DEF Reload, Leave
<1>10. ASSUME NEW t \in Threads, CopyIn(t) \/ CopyOut(t)
       PROVE  LocksOK'
  BY <1>10, LocksKept DEF CopyIn, CopyOut
<1>11. ASSUME NEW t \in Threads, Publish(t) \/ Consume(t)
       PROVE  LocksOK'
  BY <1>11, LocksKept DEF Publish, Consume, Finish, Leave
<1>12. ASSUME NEW t \in Threads, Clear(t)
       PROVE  LocksOK'
  BY <1>12, LocksKept DEF Clear
<1>13. ASSUME NEW t \in Threads, Signal(t)
       PROVE  LocksOK'
  <2>1. CASE UNCHANGED lock /\ pc' = Left(t)
    BY <1>13, <2>1, LocksKept DEF Signal
  <2>2. ASSUME NEW u \in Asleep, pc' = [Left(t) EXCEPT ![u] = AfterWait(u)], UNCHANGED lock
        PROVE  LocksOK'
    <3>1. pc[t] = "signal" /\ pc[u] = "asleep" /\ u \in Threads
      BY <1>13 DEF Signal, Asleep
    <3>. QED
      BY <2>2, <3>1 DEF Types, LocksOK, AfterWait, Side, Single
  <2>. QED
    BY <1>13, <2>1, <2>2 DEF Signal
<1>. QED
  BY <1>2, <1>3, <1>4, <1>5, <1>6, <1>7, <1>8, <1>9, <1>10, <1>11, <1>12, <1>13
     DEF Next, Send, Receive, Common, Threads

-----------------------------------------------------------------------------
(* Induction.  The theorems of the library that take a predicate cannot be *)
(* instantiated; that every set of naturals has a smallest member can, and *)
(* the set may be that of the numbers with some property.                  *)
LEMMA Induction ==
  ASSUME NEW T, 0 \in T, \A n \in Nat : n \in T => n + 1 \in T
  PROVE  \A n \in Nat : n \in T
<1>. DEFINE R == {ss \in Nat \X Nat : ss[1] < ss[2]}
            B == Nat \ T
<1>1. SUFFICES ASSUME B # {} PROVE FALSE
  OBVIOUS
<1>2. PICK x \in B : \A y \in B : ~ (<<y, x>> \in R)
  <2>1. IsWellFoundedOn(R, Nat)
    BY NatLessThanWellFounded DEF OpToRel
  <2>. HIDE DEF R
  <2>. QED
    BY <1>1, <2>1, WFMin
<1>3. x \in Nat /\ x # 0
  OBVIOUS
<1>4. x - 1 \in B
  BY <1>3
<1>5. <<x - 1, x>> \in R
  BY <1>3, <1>4
<1>. QED
  BY <1>2, <1>4, <1>5

-----------------------------------------------------------------------------
(* The layout of the ring.  Offsets are counted from the start of the      *)
(* buffer and go on beyond its end, where the words wrap around.           *)
Wrap(x) == IF x < Size THEN x ELSE x - Size

(* The cells of a message whose header is at x, wrapped once at most.      *)
LEMMA CellsWrap ==
  ASSUME NEW x \in Nat, NEW n \in 1..Size - 1, x + n < 2 * Size
  PROVE  /\ Wrap(x) \in 0..Size - 1
         /\ AfterHeader(Wrap(x)) \in 0..Size - 1
         /\ \A k \in 1..n : Cell(AfterHeader(Wrap(x)), n, k) = Wrap(x + k)
         /\ AfterPayload(AfterHeader(Wrap(x)), n)
              = IF x + n + 1 < 2 * Size THEN Wrap(x + n + 1) ELSE 0
BY QueueAssumption DEF Wrap, AfterHeader, Cell, AfterPayload

(* The next header lies in the ring.                                       *)
LEMMA AfterRange ==
  ASSUME NEW p \in 0..Size - 1, NEW n \in 0..Size
  PROVE  AfterPayload(AfterHeader(p), n) \in 0..Size - 1
BY QueueAssumption DEF AfterHeader, AfterPayload

(* Decode, of any contents R of the ring.                                  *)
Reading(R, g, n, p) ==
  LET len == R[p][2]
      q == AfterHeader(p)
  IN  IF R[p][1] # 0 \/ len = 0 \/ n < len + 1 THEN <<>>
      ELSE <<[k \in 1..len |-> R[Cell(q, len, k)]]>>
             \o g[n - (len + 1)][AfterPayload(q, len)]

Reads(R, g, N) == [n \in 0..N |-> [p \in 0..Size - 1 |-> Reading(R, g, n, p)]]

DecodeOf(R) == CHOOSE g : g = Reads(R, g, Size)

(* Decode is that function of the ring.                                    *)
LEMMA DecodeIs == Decode = DecodeOf(ring)
BY DEF Decode, DecodeOf, Reads, Reading

(* The recursion is well-founded: every message takes a word at least.     *)
LEMMA DecodeUnfolds ==
  ASSUME NEW R \in [0..Size - 1 -> Words]
  PROVE  \A n \in 0..Size, p \in 0..Size - 1 :
           DecodeOf(R)[n][p] = Reading(R, DecodeOf(R), n, p)
<1>. DEFINE T == {N \in Nat : \E g : g = Reads(R, g, N)}
<1>1. 0 \in T
  <2>. DEFINE g == [n \in 0..0 |-> [p \in 0..Size - 1 |-> <<>>]]
  <2>1. \A p \in 0..Size - 1, n \in 0..0 : Reading(R, g, n, p) = <<>>
    BY QueueAssumption DEF Reading, Words
  <2>2. g = Reads(R, g, 0)
    BY <2>1 DEF Reads
  <2>. QED
    BY <2>2
<1>2. ASSUME NEW N \in Nat, N \in T
      PROVE  N + 1 \in T
  <2>1. PICK g : g = Reads(R, g, N)
    BY <1>2
  <2>. DEFINE h == Reads(R, g, N + 1)
  <2>2. ASSUME NEW n \in 0..N
        PROVE  h[n] = g[n]
    <3>1. g[n] = [p \in 0..Size - 1 |-> Reading(R, g, n, p)]
      BY <2>1 DEF Reads
    <3>. QED
      BY <3>1 DEF Reads
  <2>3. ASSUME NEW p \in 0..Size - 1, NEW n \in 0..N + 1
        PROVE  Reading(R, h, n, p) = Reading(R, g, n, p)
    <3>. HIDE DEF h
    <3>. DEFINE len == R[p][2]
                m == n - (len + 1)
    <3>1. len \in 0..Size
      BY DEF Words
    <3>2. CASE len = 0 \/ n < len + 1
      BY <3>2 DEF Reading
    <3>3. CASE ~(len = 0 \/ n < len + 1)
      <4>1. m \in 0..N
        BY <3>1, <3>3, QueueAssumption
      <4>2. h[m] = g[m]
        BY <2>2, <4>1
      <4>. QED
        BY <4>2 DEF Reading
    <3>. QED
      BY <3>2, <3>3
  <2>4. h = Reads(R, h, N + 1)
    BY <2>3 DEF Reads
  <2>. QED
    BY <2>4
<1>. HIDE DEF T
<1>3. Size \in T
  BY <1>1, <1>2, Induction, QueueAssumption
<1>. DEFINE D == DecodeOf(R)
<1>4. D = Reads(R, D, Size)
  BY <1>3 DEF T, DecodeOf
<1>. HIDE DEF D
<1>5. \A n \in 0..Size : D[n] = [p \in 0..Size - 1 |-> Reading(R, D, n, p)]
  BY <1>4 DEF Reads
<1>. QED
  BY <1>5 DEF D

-----------------------------------------------------------------------------
(* A message m is stored from offset x on: its header, then its words.     *)
Lay(R, m, x) == /\ R[Wrap(x)] = <<0, Len(m)>>
                /\ \A k \in 1..Len(m) : R[Wrap(x + k)] = m[k]

(* The messages q lie one behind the other, the k-th of them at s[k].      *)
Chain(q, s) ==
  /\ q \in Seq(Payloads)
  /\ s \in [1..Len(q) + 1 -> 0..2 * Size - 1]
  /\ \A k \in 1..Len(q) : s[k + 1] = s[k] + Len(q[k]) + 1
  /\ \A i, j \in 1..Len(q) + 1 : i <= j => s[i] <= s[j]
  /\ s[Len(q) + 1] - s[1] <= Size

Stored(R, q, s) == \A k \in 1..Len(q) : Lay(R, q[k], s[k])

(* A message that can be sent is a sequence of one word at least, and fits *)
(* in the ring beside its header.                                          *)
LEMMA PayloadFacts ==
  ASSUME NEW m \in Payloads
  PROVE  m \in Seq(Words) /\ Len(m) \in 1..Size - 1 /\ m = [k \in 1..Len(m) |-> m[k]]
<1>1. PICK n \in Lengths, i \in 1..MaxSends :
        n # 0 /\ n + 1 <= Size /\ m = [k \in 1..n |-> <<i, k>>]
  BY DEF Payloads
<1>2. n \in 1..Size - 1
  BY <1>1, QueueAssumption
<1>3. \A k \in 1..n : <<i, k>> \in Words
  BY <1>2, QueueAssumption DEF Words
<1>4. m \in Seq(Words)
  BY <1>1, <1>2, <1>3
<1>. QED
  BY <1>1, <1>2, <1>4

(* The bounds of the i-th header of a chain.                               *)
LEMMA ChainFacts ==
  ASSUME NEW q, NEW s, Chain(q, s), NEW i \in 1..Len(q) + 1
  PROVE  /\ Len(q) \in Nat /\ q \in Seq(Payloads)
         /\ s[i] \in 0..2 * Size - 1 /\ s[1] \in 0..2 * Size - 1
         /\ s[Len(q) + 1] \in 0..2 * Size - 1
         /\ s[1] <= s[i] /\ s[i] <= s[Len(q) + 1] /\ s[Len(q) + 1] <= s[1] + Size
<1>1. q \in Seq(Payloads) /\ Len(q) \in Nat
  BY DEF Chain
<1>2. 1 \in 1..Len(q) + 1 /\ Len(q) + 1 \in 1..Len(q) + 1
  BY <1>1
<1>3. \A j \in 1..Len(q) + 1 : s[j] \in 0..2 * Size - 1
  BY DEF Chain
<1>4. s[1] <= s[i] /\ s[i] <= s[Len(q) + 1] /\ s[Len(q) + 1] - s[1] <= Size
  BY <1>1, <1>2 DEF Chain
<1>. QED
  BY <1>1, <1>2, <1>3, <1>4, QueueAssumption

(* What the ring stores is what Decode reads: read from the header of the  *)
(* first message, as many words as the messages take give back the         *)
(* messages.  By induction over the messages, from the last one.           *)
LEMMA DecodeStored ==
  ASSUME NEW R \in [0..Size - 1 -> Words], NEW q, NEW s, Chain(q, s), Stored(R, q, s)
  PROVE  DecodeOf(R)[s[Len(q) + 1] - s[1]][Wrap(s[1])] = q
<1>. DEFINE L == Len(q)
            D == DecodeOf(R)
            At(i) == D[s[L + 1] - s[i]][Wrap(s[i])] = SubSeq(q, i, L)
            T == {j \in Nat : j <= L => At(L + 1 - j)}
<1>0. L \in Nat /\ q \in Seq(Payloads)
  BY DEF Chain
<1>. HIDE DEF D
<1>1. 0 \in T
  <2>1. D[0][Wrap(s[L + 1])] = <<>>
    <3>1. Wrap(s[L + 1]) \in 0..Size - 1
      BY <1>0, QueueAssumption DEF Chain, Wrap
    <3>2. D[0][Wrap(s[L + 1])] = Reading(R, D, 0, Wrap(s[L + 1]))
      BY <3>1, DecodeUnfolds, QueueAssumption DEF D
    <3>3. R[Wrap(s[L + 1])][2] \in 0..Size
      BY <3>1 DEF Words
    <3>. QED
      BY <3>2, <3>3 DEF Reading
  <2>2. s[L + 1] - s[L + 1] = 0
    BY <1>0, QueueAssumption DEF Chain
  <2>3. SubSeq(q, L + 1, L) = <<>>
    BY <1>0
  <2>4. L + 1 - 0 = L + 1
    BY <1>0
  <2>. QED
    BY <2>1, <2>2, <2>3, <2>4
<1>2. ASSUME NEW j \in Nat, j \in T
      PROVE  j + 1 \in T
  <2>. SUFFICES ASSUME j + 1 <= L
                PROVE  At(L + 1 - (j + 1))
    OBVIOUS
  <2>. DEFINE i == L - j
              m == q[i]
              n == s[L + 1] - s[i]
              p == Wrap(s[i])
  <2>1. i \in 1..L /\ i + 1 = L + 1 - j /\ i = L + 1 - (j + 1)
    BY <1>0
  <2>2. At(i + 1)
    BY <1>2, <2>1
  <2>3. m \in Payloads
    BY <1>0, <2>1
  <2>4. /\ Len(m) \in 1..Size - 1 /\ n \in 0..Size /\ n >= Len(m) + 1
        /\ s[i] \in Nat /\ s[i + 1] < 2 * Size
        /\ s[i + 1] = s[i] + Len(m) + 1 /\ n - (Len(m) + 1) = s[L + 1] - s[i + 1]
    <3>1. Len(m) \in 1..Size - 1
      BY <2>3, PayloadFacts
    <3>2. s[i + 1] = s[i] + Len(m) + 1
      BY <2>1 DEF Chain
    <3>3. i \in 1..L + 1 /\ i + 1 \in 1..L + 1
      BY <1>0, <2>1
    <3>. HIDE DEF m, i
    <3>4. /\ s[i] \in 0..2 * Size - 1 /\ s[i + 1] \in 0..2 * Size - 1
          /\ s[1] \in 0..2 * Size - 1 /\ s[L + 1] \in 0..2 * Size - 1
          /\ s[1] <= s[i] /\ s[i + 1] <= s[L + 1] /\ s[L + 1] <= s[1] + Size
      BY <3>3, ChainFacts
    <3>. DEFINE x == s[i]
                y == s[i + 1]
                z == s[L + 1]
                len == Len(m)
    <3>5. len \in 1..Size - 1 /\ y = x + len + 1 /\ s[1] \in Nat /\ x \in Nat /\ z \in Nat
          /\ y < 2 * Size /\ s[1] <= x /\ y <= z /\ z <= s[1] + Size
      BY <3>1, <3>2, <3>4, QueueAssumption
    <3>. HIDE DEF x, y, z, len
    <3>6. z - x \in 0..Size /\ z - x >= len + 1 /\ (z - x) - (len + 1) = z - y
      BY <3>5, QueueAssumption
    <3>. QED
      BY <3>5, <3>6 DEF x, y, z, len
  <2>5. Lay(R, m, s[i])
    BY <2>1 DEF Stored
  <2>. HIDE DEF n, m, i
  <2>6. /\ p \in 0..Size - 1
        /\ \A k \in 1..Len(m) : Cell(AfterHeader(p), Len(m), k) = Wrap(s[i] + k)
        /\ AfterPayload(AfterHeader(p), Len(m)) = Wrap(s[i + 1])
    <3>1. s[i] + Len(m) < 2 * Size /\ s[i] + Len(m) + 1 < 2 * Size
      BY <2>4, QueueAssumption
    <3>2. AfterPayload(AfterHeader(p), Len(m)) = Wrap(s[i] + Len(m) + 1)
      BY <2>4, <3>1, CellsWrap
    <3>3. p \in 0..Size - 1
      BY <2>4, <3>1, CellsWrap
    <3>4. \A k \in 1..Len(m) : Cell(AfterHeader(p), Len(m), k) = Wrap(s[i] + k)
      BY <2>4, <3>1, CellsWrap
    <3>. QED
      BY <2>4, <3>2, <3>3, <3>4
  <2>7. D[n][p] = Reading(R, D, n, p)
    BY <2>4, <2>6, DecodeUnfolds DEF D
  <2>8. R[p] = <<0, Len(m)>>
    BY <2>5 DEF Lay
  <2>9. [k \in 1..Len(m) |-> R[Cell(AfterHeader(p), Len(m), k)]] = m
    <3>1. \A k \in 1..Len(m) : R[Cell(AfterHeader(p), Len(m), k)] = m[k]
      BY <2>5, <2>6 DEF Lay
    <3>2. m = [k \in 1..Len(m) |-> m[k]]
      BY <2>3, PayloadFacts
    <3>. QED
      BY <3>1, <3>2
  <2>. HIDE DEF p
  <2>10. Reading(R, D, n, p) = <<m>> \o D[s[L + 1] - s[i + 1]][Wrap(s[i + 1])]
    <3>1. R[p][1] = 0 /\ R[p][2] = Len(m) /\ Len(m) # 0 /\ ~(n < Len(m) + 1)
      BY <2>4, <2>8
    <3>. QED
      BY <2>4, <2>6, <2>9, <3>1 DEF Reading
  <2>11. D[n][p] = <<m>> \o SubSeq(q, i + 1, L)
    BY <2>2, <2>7, <2>10
  <2>12. SubSeq(q, i, L) = <<m>> \o SubSeq(q, i + 1, L)
    BY <1>0, <2>1, SubSeqRecursiveFirst DEF m
  <2>. QED
    BY <2>1, <2>11, <2>12 DEF n, p
<1>. HIDE DEF T
<1>3. L \in T
  BY <1>0, <1>1, <1>2, Induction
<1>4. At(1)
  BY <1>0, <1>3 DEF T
<1>5. SubSeq(q, 1, L) = q
  BY <1>0
<1>. QED
  BY <1>4, <1>5 DEF D


-----------------------------------------------------------------------------
(* The room the messages take, which BoundedFifo computes with a fold: the *)
(* sum over a set of positions, the last of them first.                    *)
Summing(q, f, d) == IF d = {} THEN 0 ELSE f[d \ {Fifo!Max(d)}] + Len(q[Fifo!Max(d)]) + 1

Sums(q) == CHOOSE f : f = [d \in SUBSET DOMAIN q |-> Summing(q, f, d)]

(* The abstract queue's fold is that recursive function.                   *)
LEMMA UsedIs ==
  ASSUME NEW q
  PROVE  Fifo!Used(q) = Sums(q)[DOMAIN q]
BY DEF Fifo!Used, Fifo!FoldLeft, Fifo!MapThenFoldSet, Sums, Summing

(* A set of positions has a largest one, which Max chooses.                *)
LEMMA MaxFacts ==
  ASSUME NEW N \in Nat, NEW d \in SUBSET (1..N), d # {}
  PROVE  Fifo!Max(d) \in d /\ \A y \in d : Fifo!Max(d) >= y
<1>. DEFINE Has(e) == \E x \in e : \A y \in e : x >= y
            T == {n \in Nat : \A e \in SUBSET (1..n) : e # {} => Has(e)}
<1>1. 0 \in T
  <2>1. \A e \in SUBSET (1..0) : e = {}
    OBVIOUS
  <2>. QED
    BY <2>1
<1>2. ASSUME NEW n \in Nat, n \in T
      PROVE  n + 1 \in T
  <2>1. ASSUME NEW e \in SUBSET (1..n + 1), e # {}
        PROVE  Has(e)
    <3>1. CASE n + 1 \in e
      BY <3>1
    <3>2. CASE n + 1 \notin e
      BY <1>2, <2>1, <3>2
    <3>. QED
      BY <3>1, <3>2
  <2>. QED
    BY <2>1
<1>. HIDE DEF T
<1>3. N \in T
  BY <1>1, <1>2, Induction
<1>4. Has(d)
  BY <1>3 DEF T
<1>. QED
  BY <1>4 DEF Fifo!Max

(* The fold is well-founded: it removes a position at a time.              *)
LEMMA SumsUnfolds ==
  ASSUME NEW q, NEW N \in Nat, DOMAIN q = 1..N
  PROVE  \A d \in SUBSET (1..N) : Sums(q)[d] = Summing(q, Sums(q), d)
<1>. DEFINE Of(f, n) == [d \in SUBSET (1..n) |-> Summing(q, f, d)]
            T == {n \in Nat : \E f : f = Of(f, n)}
<1>1. 0 \in T
  <2>. DEFINE f == [d \in SUBSET (1..0) |-> 0]
  <2>1. \A d \in SUBSET (1..0) : Summing(q, f, d) = 0
    BY DEF Summing
  <2>2. f = Of(f, 0)
    BY <2>1
  <2>. QED
    BY <2>2
<1>2. ASSUME NEW n \in Nat, n \in T
      PROVE  n + 1 \in T
  <2>1. PICK f : f = Of(f, n)
    BY <1>2
  <2>. DEFINE h == Of(f, n + 1)
  <2>2. ASSUME NEW d \in SUBSET (1..n)
        PROVE  h[d] = f[d]
    <3>1. f[d] = Summing(q, f, d)
      BY <2>1
    <3>2. d \in SUBSET (1..n + 1)
      OBVIOUS
    <3>. QED
      BY <3>1, <3>2
  <2>3. ASSUME NEW d \in SUBSET (1..n + 1)
        PROVE  Summing(q, h, d) = Summing(q, f, d)
    <3>1. CASE d = {}
      BY <3>1 DEF Summing
    <3>2. CASE d # {}
      <4>1. Fifo!Max(d) \in d /\ \A y \in d : Fifo!Max(d) >= y
        <5>1. n + 1 \in Nat
          OBVIOUS
        <5>. QED
          BY <3>2, <5>1, MaxFacts
      <4>2. d \ {Fifo!Max(d)} \in SUBSET (1..n)
        <5>1. ASSUME NEW y \in d, y # Fifo!Max(d) PROVE y \in 1..n
          <6>1. Fifo!Max(d) \in 1..n + 1 /\ y \in 1..n + 1 /\ Fifo!Max(d) >= y
            BY <4>1
          <6>. QED
            BY <5>1, <6>1
        <5>. QED
          BY <5>1
      <4>3. h[d \ {Fifo!Max(d)}] = f[d \ {Fifo!Max(d)}]
        BY <2>2, <4>2
      <4>. HIDE DEF h
      <4>. QED
        BY <4>3 DEF Summing
    <3>. QED
      BY <3>1, <3>2
  <2>4. h = Of(h, n + 1)
    BY <2>3
  <2>. HIDE DEF h
  <2>. QED
    BY <2>4
<1>. HIDE DEF T
<1>3. N \in T
  BY <1>1, <1>2, Induction
<1>. DEFINE S == Sums(q)
<1>4. S = Of(S, N)
  BY <1>3 DEF T, Sums
<1>. HIDE DEF S
<1>5. \A d \in SUBSET (1..N) : S[d] = Summing(q, S, d)
  BY <1>4
<1>. QED
  BY <1>5 DEF S

Links(q, s) == /\ q \in Seq(Payloads)
               /\ s \in [1..Len(q) + 1 -> Int]
               /\ \A k \in 1..Len(q) : s[k + 1] = s[k] + Len(q[k]) + 1

(* The words the messages take are the distance between the first header   *)
(* and the end of the last message.  By induction over the messages.       *)
LEMMA UsedLinks ==
  ASSUME NEW q, NEW s, Links(q, s)
  PROVE  Fifo!Used(q) = s[Len(q) + 1] - s[1]
<1>. DEFINE L == Len(q)
            S == Sums(q)
            T == {k \in Nat : k <= L => S[1..k] = s[k + 1] - s[1]}
<1>1. L \in Nat /\ q \in Seq(Payloads) /\ DOMAIN q = 1..L
  BY DEF Links
<1>2. \A d \in SUBSET (1..L) : S[d] = Summing(q, S, d)
  BY <1>1, SumsUnfolds
<1>3. \A k \in 1..L + 1 : s[k] \in Int
  BY <1>1 DEF Links
<1>. HIDE DEF S
<1>4. 0 \in T
  <2>1. S[1..0] = 0
    BY <1>2 DEF Summing
  <2>2. s[0 + 1] - s[1] = 0
    BY <1>1, <1>3
  <2>. QED
    BY <2>1, <2>2
<1>5. ASSUME NEW k \in Nat, k \in T
      PROVE  k + 1 \in T
  <2>. SUFFICES ASSUME k + 1 <= L
                PROVE  S[1..k + 1] = s[k + 1 + 1] - s[1]
    OBVIOUS
  <2>1. S[1..k] = s[k + 1] - s[1]
    BY <1>1, <1>5
  <2>2. Fifo!Max(1..k + 1) = k + 1
    <3>1. 1..k + 1 # {} /\ k + 1 \in 1..k + 1
      OBVIOUS
    <3>2. k + 1 \in Nat /\ 1..k + 1 \in SUBSET (1..k + 1)
      OBVIOUS
    <3>3. Fifo!Max(1..k + 1) \in 1..k + 1 /\ Fifo!Max(1..k + 1) >= k + 1
      BY <3>1, <3>2, MaxFacts
    <3>. QED
      BY <3>3
  <2>3. S[1..k + 1] = S[1..k] + Len(q[k + 1]) + 1
    <3>1. (1..k + 1) \ {k + 1} = 1..k
      OBVIOUS
    <3>2. 1..k + 1 \in SUBSET (1..L) /\ 1..k + 1 # {}
      <4>1. k + 1 \in 1..k + 1
        OBVIOUS
      <4>. HIDE DEF L
      <4>2. \A y \in 1..k + 1 : y \in 1..L
        BY <1>1
      <4>. QED
        BY <4>1, <4>2
    <3>3. S[1..k + 1] = Summing(q, S, 1..k + 1)
      BY <1>2, <3>2
    <3>. QED
      BY <2>2, <3>1, <3>2, <3>3 DEF Summing
  <2>4. s[k + 1 + 1] = s[k + 1] + Len(q[k + 1]) + 1 /\ q[k + 1] \in Payloads
    BY <1>1 DEF Links
  <2>5. Len(q[k + 1]) \in Nat
    BY <2>4, PayloadFacts, QueueAssumption
  <2>6. s[1] \in Int /\ s[k + 1] \in Int
    BY <1>1, <1>3
  <2>. QED
    BY <2>1, <2>3, <2>4, <2>5, <2>6
<1>. HIDE DEF T
<1>6. L \in T
  BY <1>1, <1>4, <1>5, Induction
<1>. QED
  BY <1>1, <1>6, UsedIs DEF T, S


-----------------------------------------------------------------------------
(* What the ring holds: the messages q, the k-th of them at s[k].  A       *)
(* sender that has copied a message in has moved head past it, a receiver  *)
(* that has copied one out has moved tail past it, before either accounts  *)
(* for it in the word.                                                     *)
CopiedIn == {t \in Senders : pc[t] = "commit"}

Holds(q, s) ==
  LET end == s[Len(q) + 1]
  IN  /\ Chain(q, s) /\ Stored(ring, q, s)
      /\ s[1] = tail
      /\ CopiedOut = {} => word.used = end - tail
      /\ \A r \in CopiedOut : /\ word.used = end - tail + Len(call[r].msg) + 1
                              /\ call[r].msg \in Payloads
      /\ CopiedIn = {} => head = Wrap(end)
      /\ \A t \in CopiedIn : /\ head = Wrap(end + Len(call[t].msg) + 1)
                             /\ Lay(ring, call[t].msg, end)

RingOK == \E q, s : Holds(q, s)

IInv == Types /\ LocksOK /\ CallsOK /\ RingOK

(* The message a receiver is about to copy out is the first one.           *)
LEMMA FirstMessage ==
  ASSUME Types, LocksOK, CallsOK, NEW q, NEW s, Holds(q, s),
         NEW r \in Receivers, pc[r] = "copy"
  PROVE  LET p == AfterHeader(tail)
             n == ring[tail][2]
         IN  /\ CopiedOut = {} /\ Len(q) >= 1 /\ q[1] \in Payloads
             /\ n = Len(q[1]) /\ s[2] = tail + n + 1
             /\ [k \in 1..n |-> ring[Cell(p, n, k)]] = q[1]
             /\ AfterPayload(p, n) = Wrap(s[2])
<1>. DEFINE p == AfterHeader(tail)
            m == q[1]
<1>1. CopiedOut = {}
  <2>1. ASSUME NEW u \in CopiedOut PROVE FALSE
    <3>1. u \in Receivers /\ u \in Threads /\ r \in Threads /\ pc[u] = "commit"
      BY DEF CopiedOut, Threads
    <3>2. Side(u) = Side(r)
      BY <3>1, SideFacts
    <3>. QED
      BY <3>1, <3>2, Alone DEF Inside
  <2>. QED
    BY <2>1
<1>2. word.used # 0
  BY SideFacts DEF CallsOK, CallOK, Fits, Threads
<1>3. Len(q) >= 1 /\ q \in Seq(Payloads) /\ Len(q) \in Nat
  BY <1>1, <1>2, QueueAssumption DEF Holds, Chain, Types
<1>4. m \in Payloads
  BY <1>3
<1>5. Len(m) \in 1..Size - 1 /\ m = [k \in 1..Len(m) |-> m[k]]
  BY <1>4, PayloadFacts
<1>6. s[1] = tail /\ s[2] = tail + Len(m) + 1 /\ Lay(ring, m, tail)
  BY <1>3 DEF Holds, Chain, Stored
<1>7. s[2] \in 0..2 * Size - 1
  BY <1>3, ChainFacts DEF Holds
<1>8. tail \in Nat /\ tail < Size /\ Wrap(tail) = tail
  BY QueueAssumption DEF Types, Wrap
<1>. HIDE DEF m
<1>9. tail + Len(m) + 1 < 2 * Size /\ tail + Len(m) < 2 * Size
  BY <1>5, <1>6, <1>7, <1>8, QueueAssumption
<1>10. /\ \A k \in 1..Len(m) : Cell(p, Len(m), k) = Wrap(tail + k)
       /\ AfterPayload(p, Len(m)) = Wrap(tail + Len(m) + 1)
  BY <1>5, <1>8, <1>9, CellsWrap
<1>11. ring[tail][2] = Len(m)
  BY <1>6, <1>8 DEF Lay
<1>12. [k \in 1..Len(m) |-> ring[Cell(p, Len(m), k)]] = m
  BY <1>5, <1>6, <1>10 DEF Lay
<1>. QED
  BY <1>1, <1>3, <1>4, <1>6, <1>10, <1>11, <1>12 DEF m

-----------------------------------------------------------------------------
(* Types.                                                                  *)

(* Assignments to the fields of a call keep its type.                      *)
LEMMA CallTypes ==
  ASSUME NEW c \in Calls
  PROVE  /\ \A w \in Word : [c EXCEPT !.cur = w] \in Calls
         /\ \A w \in Word, n \in 0..RETRY_COUNT + 1 : [c EXCEPT !.cur = w, !.retries = n] \in Calls
         /\ \A b \in BOOLEAN : [c EXCEPT !.expired = b] \in Calls
         /\ \A m \in Seq(Words) : [c EXCEPT !.msg = m] \in Calls
BY DEF Calls

(* A call that begins has the type of a call.                              *)
LEMMA NewCalls ==
  /\ NoCall \in Calls
  /\ \A w \in Waits, m \in Seq(Words) : [NoCall EXCEPT !.mode = w, !.msg = m] \in Calls
<1>1. [used |-> 0, s |-> 0, r |-> 0] \in Word
  BY QueueAssumption DEF Word
<1>2. PICK word0 \in Word :
        NoCall = [mode |-> "none", cur |-> word0, retries |-> 0, expired |-> FALSE, msg |-> <<>>]
  BY <1>1 DEF NoCall
<1>3. "none" \in Waits \cup {"none"} /\ <<>> \in Seq(Words) /\ 0 \in 0..RETRY_COUNT + 1
  BY DEF RETRY_COUNT
<1>4. NoCall \in Calls
  BY <1>2, <1>3 DEF Calls
<1>5. ASSUME NEW w \in Waits, NEW m \in Seq(Words)
      PROVE  [NoCall EXCEPT !.mode = w, !.msg = m] \in Calls
  BY <1>4 DEF Calls
<1>. QED
  BY <1>4, <1>5

(* Updates of the packed word.                                             *)
LEMMA WordTypes ==
  ASSUME NEW w \in Word
  PROVE  /\ \A n \in 0..Size : [w EXCEPT !.used = n] \in Word
         /\ \A f \in {"s", "r"}, b \in {0, 1} : [w EXCEPT ![f] = b] \in Word
BY DEF Word

(* How a step moves one thread on.                                         *)
LEMMA PcTypes ==
  ASSUME Types, NEW t \in Threads
  PROVE  /\ Left(t) \in [Threads -> Locations]
         /\ \A to \in Locations : [pc EXCEPT ![t] = to] \in [Threads -> Locations]
         /\ \A u \in Threads : [Left(t) EXCEPT ![u] = AfterWait(u)] \in [Threads -> Locations]
BY DEF Types, Left, Locations, AfterWait

(* A step writes the call of one thread.                                   *)
LEMMA CallsTypes ==
  ASSUME Types, NEW t \in Threads
  PROVE  /\ call[t] \in Calls
         /\ \A c \in Calls : [call EXCEPT ![t] = c] \in [Threads -> Calls]
BY DEF Types

(* Every step keeps the types.  The used words stay within the ring since  *)
(* a sender commits only what fits and a receiver only what is there.      *)
LEMMA TypesStep ==
  ASSUME IInv, Next
  PROVE  Types'
<1>. USE DEF IInv, shared
<1>0. Types
  OBVIOUS
<1>1. ASSUME NEW s \in Senders, NEW n \in Lengths, NEW w \in Waits, SendCall(s, n, w)
      PROVE  Types'
  <2>. DEFINE m == [k \in 1..n |-> <<sends + 1, k>>]
  <2>1. n \in Nat /\ n <= Size /\ sends + 1 \in 0..MaxSends
    BY <1>1, QueueAssumption DEF SendCall, Types
  <2>2. m \in Seq(Words)
    <3>1. \A k \in 1..n : <<sends + 1, k>> \in Words
      BY <2>1, QueueAssumption DEF Words
    <3>. QED
      BY <2>1, <3>1
  <2>. HIDE DEF m
  <2>3. s \in Threads /\ Begin(s, w, m)
    BY <1>1 DEF SendCall, Threads, m
  <2>4. call' \in [Threads -> Calls]
    BY <1>0, <2>2, <2>3, CallsTypes, NewCalls DEF Begin
  <2>5. pc' \in [Threads -> Locations]
    BY <1>0, <2>3, PcTypes DEF Begin, Goto, Locations
  <2>. QED
    BY <1>0, <1>1, <2>1, <2>4, <2>5 DEF SendCall, Types
<1>2. ASSUME NEW r \in Receivers, NEW w \in Waits, ReceiveCall(r, w)
      PROVE  Types'
  <2>1. r \in Threads /\ Begin(r, w, <<>>) /\ <<>> \in Seq(Words)
    BY <1>2 DEF ReceiveCall, Threads
  <2>2. call' \in [Threads -> Calls]
    BY <1>0, <2>1, CallsTypes, NewCalls DEF Begin
  <2>3. pc' \in [Threads -> Locations]
    BY <1>0, <2>1, PcTypes DEF Begin, Goto, Locations
  <2>. QED
    BY <1>0, <1>2, <2>2, <2>3 DEF ReceiveCall, Types
<1>3. ASSUME NEW t \in Threads, Lock(t) \/ Relock(t) \/ Release(t) \/ Unlock(t)
      PROVE  Types'
  <2>1. pc' \in [Threads -> Locations]
    BY <1>0, <1>3, PcTypes DEF Lock, Relock, Release, Unlock, Goto, Locations
  <2>2. lock' \in [{"head", "tail"} -> SUBSET Threads]
    <3>1. Side(t) \in {"head", "tail"} /\ lock \in [{"head", "tail"} -> SUBSET Threads]
      BY <1>0, SideFacts DEF Types
    <3>2. CASE lock' = [lock EXCEPT ![Side(t)] = {t}]
      BY <3>1, <3>2
    <3>3. CASE lock' = [lock EXCEPT ![Side(t)] = @ \ {t}]
      BY <3>1, <3>3
    <3>. QED
      BY <1>3, <3>2, <3>3 DEF Lock, Relock, Release, Unlock, TakeLock, DropLock
  <2>. QED
    BY <1>0, <1>3, <2>1, <2>2 DEF Lock, Relock, Release, Unlock, Types
<1>4. ASSUME NEW t \in Threads, Check(t)
      PROVE  Types'
  <2>1. call[t].retries + 1 \in 0..RETRY_COUNT + 1 /\ word \in Word
    <3>1. call[t].retries \in 0..RETRY_COUNT + 1 /\ word \in Word
      BY <1>0, CallsTypes DEF Types, Calls
    <3>2. call[t].retries <= RETRY_COUNT
      BY <1>4 DEF Check, Leave, Goto, CallsOK, CallOK
    <3>. QED
      BY <3>1, <3>2 DEF RETRY_COUNT
  <2>2. call' \in [Threads -> Calls]
    <3>. DEFINE c == [call[t] EXCEPT !.cur = word]
                d == [call[t] EXCEPT !.cur = word, !.retries = @ + 1]
    <3>1. c \in Calls /\ d \in Calls
      BY <1>0, <2>1, CallsTypes, CallTypes
    <3>2. call' = [call EXCEPT ![t] = c] \/ call' = [call EXCEPT ![t] = d] \/ call' = [call EXCEPT ![t] = NoCall]
      BY <1>4 DEF Check, Leave
    <3>. HIDE DEF c, d
    <3>. QED
      BY <1>0, <3>1, <3>2, CallsTypes, NewCalls
  <2>3. pc' \in [Threads -> Locations]
    BY <1>0, <1>4, PcTypes DEF Check, Leave, Goto, Locations
  <2>. QED
    BY <1>0, <1>4, <2>2, <2>3 DEF Check, Types
<1>5. ASSUME NEW t \in Threads, Mark(t)
      PROVE  Types'
  <2>1. word' \in Word
    <3>1. CASE UNCHANGED word
      BY <1>0, <3>1 DEF Types
    <3>2. CASE word' = [word EXCEPT ![MyFlag(t)] = 1]
      BY <1>0, <3>2 DEF Types, Word, MyFlag
    <3>. QED
      BY <1>5, <3>1, <3>2 DEF Mark, Flagged
  <2>2. pc' \in [Threads -> Locations]
    BY <1>0, <1>5, PcTypes DEF Mark, Goto, Locations
  <2>. QED
    BY <1>0, <1>5, <2>1, <2>2 DEF Mark, Types
<1>6. ASSUME NEW t \in Threads, FutexWait(t) \/ Interrupted(t) \/ TimesOut(t)
      PROVE  Types'
  <2>1. call' \in [Threads -> Calls]
    <3>1. CASE UNCHANGED call
      BY <1>0, <3>1 DEF Types
    <3>2. CASE call' = [call EXCEPT ![t].expired = TRUE]
      BY <1>0, <3>2, CallsTypes, CallTypes
    <3>. QED
      BY <1>6, <3>1, <3>2 DEF FutexWait, Interrupted, TimesOut, CheckClock
  <2>2. pc' \in [Threads -> Locations]
    BY <1>0, <1>6, PcTypes DEF FutexWait, Interrupted, TimesOut, AfterWait, Goto, Locations
  <2>. QED
    BY <1>0, <1>6, <2>1, <2>2 DEF FutexWait, Interrupted, TimesOut, Types
<1>7. ASSUME NEW t \in Threads, Reload(t)
      PROVE  Types'
  <2>1. call' \in [Threads -> Calls]
    <3>. DEFINE c == [call[t] EXCEPT !.cur = word]
    <3>1. word \in Word
      BY <1>0 DEF Types
    <3>2. c \in Calls
      BY <1>0, <3>1, CallsTypes, CallTypes
    <3>3. call' = [call EXCEPT ![t] = c] \/ call' = [call EXCEPT ![t] = NoCall]
      BY <1>7 DEF Reload, Leave
    <3>. HIDE DEF c
    <3>. QED
      BY <1>0, <3>2, <3>3, CallsTypes, NewCalls
  <2>2. pc' \in [Threads -> Locations]
    BY <1>0, <1>7, PcTypes DEF Reload, Leave, Goto, Locations
  <2>. QED
    BY <1>0, <1>7, <2>1, <2>2 DEF Reload, Types
<1>8. ASSUME NEW s \in Senders, CopyIn(s)
      PROVE  Types'
  <2>. DEFINE m == call[s].msg
              At(i) == {k \in DOMAIN m : Cell(AfterHeader(head), Len(m), k) = i}
  <2>1. s \in Threads /\ pc[s] = "copy"
    BY <1>8 DEF CopyIn, Goto, Threads
  <2>2. m \in Seq(Words) /\ Len(m) \in 1..Size - 1
    BY <2>1, PayloadFacts DEF CallsOK, CallOK
  <2>. HIDE DEF m
  <2>3. head' \in 0..Size - 1
    <3>1. head' = AfterPayload(AfterHeader(head), Len(m)) /\ head \in 0..Size - 1
      BY <1>0, <1>8 DEF CopyIn, Types, m
    <3>2. Len(m) \in 0..Size
      BY <2>2, QueueAssumption
    <3>. QED
      BY <3>1, <3>2, AfterRange
  <2>4. ring' \in [0..Size - 1 -> Words]
    <3>1. <<0, Len(m)>> \in Words
      BY <2>2, QueueAssumption DEF Words
    <3>2. \A k \in DOMAIN m : m[k] \in Words
      BY <2>2
    <3>3. ring' = [i \in 0..Size-1 |-> IF At(i) # {} THEN m[CHOOSE k \in At(i) : TRUE]
                                       ELSE IF i = head THEN <<0, Len(m)>> ELSE ring[i]]
      BY <1>8 DEF CopyIn, m
    <3>4. \A i \in 0..Size - 1 : At(i) # {} => (CHOOSE k \in At(i) : TRUE) \in DOMAIN m
      OBVIOUS
    <3>5. \A i \in 0..Size - 1 : ring[i] \in Words
      BY <1>0 DEF Types
    <3>. HIDE DEF At
    <3>. QED
      BY <3>1, <3>2, <3>3, <3>4, <3>5
  <2>5. pc' \in [Threads -> Locations]
    BY <1>0, <1>8, <2>1, PcTypes DEF CopyIn, Goto, Locations
  <2>. QED
    BY <1>0, <1>8, <2>3, <2>4, <2>5 DEF CopyIn, Types
<1>9. ASSUME NEW r \in Receivers, CopyOut(r)
      PROVE  Types'
  <2>. DEFINE n == ring[tail][2]
              m == [k \in 1..n |-> ring[Cell(AfterHeader(tail), n, k)]]
  <2>1. PICK q, s : Holds(q, s)
    BY DEF RingOK
  <2>2. r \in Threads /\ pc[r] = "copy"
    BY <1>9 DEF CopyOut, Goto, Threads
  <2>3. m = q[1] /\ q[1] \in Payloads
    BY <2>1, <2>2, FirstMessage
  <2>. HIDE DEF m
  <2>4. m \in Seq(Words)
    BY <2>3, PayloadFacts
  <2>5. tail' \in 0..Size - 1
    <3>1. tail \in 0..Size - 1 /\ n \in 0..Size
      BY <1>0 DEF Types, Words
    <3>. QED
      BY <1>9, <3>1, AfterRange DEF CopyOut
  <2>6. call' = [call EXCEPT ![r].msg = m]
    BY <1>9 DEF CopyOut, m
  <2>7. call' \in [Threads -> Calls]
    BY <1>0, <2>2, <2>4, <2>6, CallsTypes, CallTypes
  <2>8. pc' \in [Threads -> Locations]
    BY <1>0, <1>9, <2>2, PcTypes DEF CopyOut, Goto, Locations
  <2>. QED
    BY <1>0, <1>9, <2>5, <2>7, <2>8 DEF CopyOut, Types
<1>10. ASSUME NEW s \in Senders, Publish(s)
       PROVE  Types'
  <2>1. s \in Threads /\ Len(call[s].msg) \in Nat
    BY <1>0, CallsTypes DEF Threads, Calls
  <2>2. word.used + Len(call[s].msg) + 1 <= Size
    <3>1. pc[s] = "commit"
      BY <1>10 DEF Publish, Finish, Leave, Goto
    <3>2. Fits(s, call[s], word)
      BY <2>1, <3>1 DEF CallsOK, CallOK
    <3>. QED
      BY <3>2 DEF Fits
  <2>3. word' \in Word
    <3>1. word.used + Len(call[s].msg) + 1 \in 0..Size /\ word \in Word
      BY <1>0, <2>1, <2>2, QueueAssumption DEF Types, Word
    <3>. QED
      BY <1>10, <3>1, WordTypes DEF Publish
  <2>4. call' \in [Threads -> Calls]
    BY <1>0, <1>10, <2>1, CallsTypes, NewCalls DEF Publish, Finish, Leave, Types
  <2>5. pc' \in [Threads -> Locations]
    <3>1. pc' = Left(s) \/ pc' = [pc EXCEPT ![s] = "clear"]
      BY <1>10 DEF Publish, Finish, Leave, Goto
    <3>. QED
      BY <1>0, <2>1, <3>1, PcTypes DEF Locations
  <2>. QED
    BY <1>0, <1>10, <2>3, <2>4, <2>5 DEF Publish, Types
<1>11. ASSUME NEW r \in Receivers, Consume(r)
       PROVE  Types'
  <2>1. r \in Threads /\ call[r].msg \in Seq(Words) /\ Len(call[r].msg) \in Nat
    BY <1>0, CallsTypes DEF Threads, Calls
  <2>2. word.used - (Len(call[r].msg) + 1) >= 0
    <3>1. PICK q, s : Holds(q, s)
      BY DEF RingOK
    <3>2. r \in CopiedOut
      BY <1>11 DEF Consume, Finish, Leave, Goto, CopiedOut
    <3>3. word.used = s[Len(q) + 1] - tail + Len(call[r].msg) + 1 /\ s[1] = tail
      BY <3>1, <3>2 DEF Holds
    <3>4. s[Len(q) + 1] >= s[1] /\ s[Len(q) + 1] \in Int /\ s[1] \in Int
      <4>1. Chain(q, s) /\ 1 \in 1..Len(q) + 1
        BY <3>1 DEF Holds, Chain
      <4>. QED
        BY <4>1, ChainFacts, QueueAssumption
    <3>. QED
      BY <2>1, <3>3, <3>4, QueueAssumption
  <2>3. word' \in Word
    <3>1. word.used - (Len(call[r].msg) + 1) \in 0..Size /\ word \in Word
      BY <1>0, <2>1, <2>2, QueueAssumption DEF Types, Word
    <3>. QED
      BY <1>11, <3>1, WordTypes DEF Consume
  <2>4. call' \in [Threads -> Calls]
    BY <1>0, <1>11, <2>1, CallsTypes, NewCalls DEF Consume, Finish, Leave, Types
  <2>5. pc' \in [Threads -> Locations]
    <3>1. pc' = Left(r) \/ pc' = [pc EXCEPT ![r] = "clear"]
      BY <1>11 DEF Consume, Finish, Leave, Goto
    <3>. QED
      BY <1>0, <2>1, <3>1, PcTypes DEF Locations
  <2>. QED
    BY <1>0, <1>11, <2>1, <2>3, <2>4, <2>5 DEF Consume, Types
<1>12. ASSUME NEW t \in Threads, Clear(t)
       PROVE  Types'
  <2>1. word[PeerFlag(t)] = 1
    BY <1>12 DEF Clear, Goto, CallsOK, CallOK
  <2>2. word' \in Word
    <3>1. word \in Word /\ PeerFlag(t) \in {"s", "r"}
      BY <1>0 DEF Types, PeerFlag
    <3>2. word' = [word EXCEPT ![PeerFlag(t)] = 0]
      BY <1>12, <2>1 DEF Clear
    <3>. QED
      BY <3>1, <3>2, WordTypes
  <2>3. pc' \in [Threads -> Locations]
    BY <1>0, <1>12, PcTypes DEF Clear, Goto, Locations
  <2>. QED
    BY <1>0, <1>12, <2>2, <2>3 DEF Clear, Types
<1>13. ASSUME NEW t \in Threads, Signal(t)
       PROVE  Types'
  <2>1. pc' \in [Threads -> Locations]
    BY <1>0, <1>13, PcTypes DEF Signal, Asleep
  <2>2. call' \in [Threads -> Calls]
    <3>1. [call EXCEPT ![t] = NoCall] \in [Threads -> Calls]
      BY <1>0, CallsTypes, NewCalls
    <3>2. ASSUME NEW u \in Asleep, NEW late \in BOOLEAN,
                 call' = [call EXCEPT ![t] = NoCall, ![u].expired = late]
          PROVE  call' \in [Threads -> Calls]
      <4>. DEFINE c == [call EXCEPT ![t] = NoCall]
      <4>1. c \in [Threads -> Calls] /\ u \in Threads
        BY <3>1 DEF Asleep
      <4>2. call' = [c EXCEPT ![u].expired = late]
        BY <3>2
      <4>. HIDE DEF c
      <4>3. call' = [c EXCEPT ![u] = [c[u] EXCEPT !.expired = late]]
        BY <4>2
      <4>4. [c[u] EXCEPT !.expired = late] \in Calls
        BY <4>1, CallTypes
      <4>. QED
        BY <4>1, <4>3, <4>4
    <3>3. \A u \in Asleep : (call[u].mode = "timed") \in BOOLEAN
      OBVIOUS
    <3>. QED
      BY <1>13, <3>1, <3>2, <3>3 DEF Signal
  <2>. QED
    BY <1>0, <1>13, <2>1, <2>2 DEF Signal, Types
<1>. QED
  BY <1>1, <1>2, <1>3, <1>4, <1>5, <1>6, <1>7, <1>8, <1>9, <1>10, <1>11, <1>12, <1>13
     DEF Next, Send, Receive, Common, Threads


-----------------------------------------------------------------------------
(* Calls.                                                                  *)

(* The threads a step does not move: nobody else on their side has changed *)
(* the word, and the other side only to their advantage.                   *)
LEMMA CallKept ==
  ASSUME NEW u \in Threads, NEW l, NEW c \in Calls, NEW w \in Word, NEW v \in Word,
         CallOK(u, l, c, w),
         u \in Senders /\ l \in {"copy", "commit"} => v.used <= w.used,
         u \notin Senders /\ l = "copy" => v.used >= w.used,
         l = "clear" => v[PeerFlag(u)] = w[PeerFlag(u)]
  PROVE  CallOK(u, l, c, v)
<1>1. w.used \in 0..Size /\ v.used \in 0..Size /\ Len(c.msg) \in Nat
  BY DEF Word, Calls
<1>2. u \in Senders /\ l \in {"copy", "commit"} => Fits(u, c, v)
  BY <1>1, QueueAssumption DEF CallOK, Fits
<1>3. u \notin Senders /\ l = "copy" => Fits(u, c, v)
  BY <1>1, QueueAssumption DEF CallOK, Fits
<1>. QED
  BY <1>2, <1>3 DEF CallOK

(* A step that moves thread t to the location l with the locals c.         *)
LEMMA CallsKept ==
  ASSUME Types, Types', CallsOK, NEW t \in Threads, NEW l, NEW c,
         pc' = [pc EXCEPT ![t] = l], call' = [call EXCEPT ![t] = c],
         CallOK(t, l, c, word'),
         \A u \in Threads \ {t} :
           /\ u \in Senders /\ pc[u] \in {"copy", "commit"} => word'.used <= word.used
           /\ u \notin Senders /\ pc[u] = "copy" => word'.used >= word.used
           /\ pc[u] = "clear" => word'[PeerFlag(u)] = word[PeerFlag(u)]
  PROVE  CallsOK'
<1>1. ASSUME NEW u \in Threads \ {t}
      PROVE  CallOK(u, pc'[u], call'[u], word')
  <2>1. pc'[u] = pc[u] /\ call'[u] = call[u]
    BY DEF Types
  <2>2. CallOK(u, pc[u], call[u], word) /\ call[u] \in Calls /\ word \in Word /\ word' \in Word
    BY DEF CallsOK, Types
  <2>3. CallOK(u, pc[u], call[u], word')
    BY <2>2, CallKept
  <2>. QED
    BY <2>1, <2>3
<1>2. pc'[t] = l /\ call'[t] = c
  BY DEF Types
<1>. QED
  BY <1>1, <1>2 DEF CallsOK

(* A step that leaves the number of used words and the flags alone.        *)
LEMMA CallsQuiet ==
  ASSUME Types, Types', CallsOK, NEW t \in Threads, NEW l, NEW c,
         pc' = [pc EXCEPT ![t] = l], call' = [call EXCEPT ![t] = c],
         UNCHANGED word, CallOK(t, l, c, word)
  PROVE  CallsOK'
<1>1. \A u \in Threads : word'.used <= word.used /\ word'.used >= word.used
  BY QueueAssumption DEF Types, Word
<1>. QED
  BY <1>1, CallsKept

(* A step that leaves the calls alone, as a step of one thread.            *)
LEMMA SameCall ==
  ASSUME Types, NEW t \in Threads, UNCHANGED call
  PROVE  call' = [call EXCEPT ![t] = call[t]]
BY DEF Types

(* Every step keeps what a call has found out: the copy of a sender still  *)
(* fits, that of a receiver still has its message, whatever the other side *)
(* does in between.                                                        *)
LEMMA CallsStep ==
  ASSUME IInv, Types', Next
  PROVE  CallsOK'
<1>. USE DEF IInv, shared
<1>0. Types /\ Types' /\ CallsOK
  OBVIOUS
<1>a. \A t \in Threads : CallOK(t, pc[t], call[t], word)
  BY DEF CallsOK
<1>b. \A t \in Threads, w \in Waits : t \notin Senders =>
        \A l \in {"idle", "lock", "check"} : CallOK(t, l, [NoCall EXCEPT !.mode = w, !.msg = <<>>], word)
  BY QueueAssumption DEF CallOK, NoCall, RETRY_COUNT
<1>c. \A t \in Threads : CallOK(t, "idle", NoCall, word') /\ CallOK(t, "unlock", NoCall, word')
  BY QueueAssumption DEF CallOK, NoCall, RETRY_COUNT
<1>d. \A t \in Threads : pc' = Left(t) =>
        \E l \in {"idle", "unlock"} : pc' = [pc EXCEPT ![t] = l]
  BY DEF Left
<1>1. ASSUME NEW s \in Senders, NEW n \in Lengths, NEW w \in Waits, SendCall(s, n, w)
      PROVE  CallsOK'
  <2>. DEFINE m == [k \in 1..n |-> <<sends + 1, k>>]
              c == [NoCall EXCEPT !.mode = w, !.msg = m]
  <2>1. n \in Nat /\ n # 0 /\ n + 1 <= Size /\ sends + 1 \in 1..MaxSends
    BY <1>0, <1>1, QueueAssumption DEF SendCall, Types
  <2>2. m \in Payloads
    BY <2>1 DEF Payloads
  <2>3. Len(m) < Size
    BY <2>2, PayloadFacts, QueueAssumption
  <2>. HIDE DEF m
  <2>4. c.msg = m /\ c.retries = 0
    BY DEF NoCall
  <2>5. \A l \in {"check", "lock"} : CallOK(s, l, c, word)
    BY <2>2, <2>3, <2>4 DEF CallOK, RETRY_COUNT
  <2>6. s \in Threads /\ call' = [call EXCEPT ![s] = c]
        /\ \E l \in {"check", "lock"} : pc' = [pc EXCEPT ![s] = l]
    BY <1>1 DEF SendCall, Begin, Goto, Threads, m
  <2>7. UNCHANGED word
    BY <1>1 DEF SendCall
  <2>. HIDE DEF c
  <2>. QED
    BY <1>0, <2>5, <2>6, <2>7, CallsQuiet
<1>2. ASSUME NEW r \in Receivers, NEW w \in Waits, ReceiveCall(r, w)
      PROVE  CallsOK'
  <2>. DEFINE c == [NoCall EXCEPT !.mode = w, !.msg = <<>>]
  <2>1. r \in Threads /\ r \notin Senders
    BY SideFacts DEF Threads
  <2>2. \A l \in {"check", "lock"} : CallOK(r, l, c, word)
    BY <1>b, <2>1
  <2>3. call' = [call EXCEPT ![r] = c] /\ UNCHANGED word
        /\ \E l \in {"check", "lock"} : pc' = [pc EXCEPT ![r] = l]
    BY <1>2 DEF ReceiveCall, Begin, Goto
  <2>. HIDE DEF c
  <2>. QED
    BY <1>0, <2>1, <2>2, <2>3, CallsQuiet
<1>3. ASSUME NEW t \in Threads, Lock(t) \/ Relock(t) \/ Release(t) \/ Unlock(t)
      PROVE  CallsOK'
  <2>1. UNCHANGED <<word, call>>
    BY <1>3 DEF Lock, Relock, Release, Unlock
  <2>2. CallOK(t, pc[t], call[t], word)
    BY <1>a
  <2>3. CASE Unlock(t)
    <3>1. CallOK(t, "idle", call[t], word)
      BY <2>2 DEF CallOK
    <3>. QED
      BY <1>0, <2>1, <2>3, <3>1, CallsQuiet, SameCall DEF Unlock, Goto
  <2>4. CASE Release(t)
    <3>1. CallOK(t, "fwait", call[t], word)
      BY <2>2, <2>4 DEF Release, Goto, CallOK
    <3>. QED
      BY <1>0, <2>1, <2>4, <3>1, CallsQuiet, SameCall DEF Release, Goto
  <2>5. CASE Relock(t)
    <3>1. CallOK(t, "reload", call[t], word)
      BY <2>2, <2>5 DEF Relock, Goto, CallOK
    <3>. QED
      BY <1>0, <2>1, <2>5, <3>1, CallsQuiet, SameCall DEF Relock, Goto
  <2>6. CASE Lock(t)
    <3>1. CallOK(t, "check", call[t], word)
      BY <2>2, <2>6 DEF Lock, Goto, CallOK
    <3>. QED
      BY <1>0, <2>1, <2>6, <3>1, CallsQuiet, SameCall DEF Lock, Goto
  <2>. QED
    BY <1>3, <2>3, <2>4, <2>5, <2>6
<1>4. ASSUME NEW t \in Threads, Check(t)
      PROVE  CallsOK'
  <2>. DEFINE c == [call[t] EXCEPT !.cur = word]
              d == [call[t] EXCEPT !.cur = word, !.retries = @ + 1]
  <2>0. UNCHANGED word /\ call[t] \in Calls /\ pc[t] = "check" /\ CallOK(t, "check", call[t], word)
    BY <1>0, <1>4, <1>a, CallsTypes DEF Check, Leave, Goto
  <2>1. CASE Leave(t, "check")
    BY <1>0, <1>c, <1>d, <2>0, <2>1, CallsQuiet DEF Leave
  <2>2. CASE /\ Ready(t, word) /\ Goto(t, "check", "copy")
             /\ call' = [call EXCEPT ![t] = c]
    <3>1. c.msg = call[t].msg
      BY <2>0 DEF Calls
    <3>2. CallOK(t, "copy", c, word)
      BY <2>0, <2>2, <3>1, ReadyFits DEF CallOK, Fits
    <3>. HIDE DEF c
    <3>. QED
      BY <1>0, <2>0, <2>2, <3>2, CallsQuiet DEF Goto
  <2>3. CASE /\ ~Ready(t, word)
             /\ Goto(t, "check", IF call[t].retries < RETRY_COUNT THEN "check" ELSE "mark")
             /\ call' = [call EXCEPT ![t] = d]
    <3>1. d.msg = call[t].msg /\ d.cur = word /\ d.retries = call[t].retries + 1
      BY <2>0 DEF Calls
    <3>2. call[t].retries < RETRY_COUNT => CallOK(t, "check", d, word)
      BY <2>0, <3>1 DEF CallOK, RETRY_COUNT, Calls
    <3>3. CallOK(t, "mark", d, word)
      BY <2>0, <2>3, <3>1, ReadyFits DEF CallOK, Fits
    <3>. HIDE DEF d
    <3>. QED
      BY <1>0, <2>0, <2>3, <3>2, <3>3, CallsQuiet DEF Goto
  <2>. QED
    BY <1>4, <2>1, <2>2, <2>3 DEF Check
<1>5. ASSUME NEW t \in Threads, Mark(t)
      PROVE  CallsOK'
  <2>1. word \in Word /\ word' \in Word /\ MyFlag(t) \in {"s", "r"}
    BY <1>0 DEF Types, MyFlag
  <2>2. word' = word \/ word' = [word EXCEPT ![MyFlag(t)] = 1]
    BY <1>5 DEF Mark, Flagged
  <2>3. word'.used = word.used /\ \A u \in Threads : word[PeerFlag(u)] = 1 => word'[PeerFlag(u)] = 1
    BY <2>1, <2>2 DEF Word, MyFlag, PeerFlag
  <2>4. CallOK(t, "mark", call[t], word) /\ UNCHANGED call
    BY <1>5, <1>a DEF Mark, Goto
  <2>5. PICK l \in {"fwait", "release", "reload"} : pc' = [pc EXCEPT ![t] = l]
    BY <1>5 DEF Mark, Goto
  <2>6. CallOK(t, l, call[t], word')
    BY <2>4, <2>5 DEF CallOK
  <2>7. ASSUME NEW u \in Threads \ {t}
        PROVE  CallOK(u, pc[u], call[u], word')
    <3>1. CallOK(u, pc[u], call[u], word)
      BY <1>a
    <3>. QED
      BY <2>3, <3>1 DEF CallOK, Fits
  <2>. QED
    BY <1>0, <2>4, <2>5, <2>6, <2>7 DEF CallsOK, Types
<1>6. ASSUME NEW t \in Threads, FutexWait(t) \/ Interrupted(t) \/ TimesOut(t)
      PROVE  CallsOK'
  <2>. DEFINE c == [call[t] EXCEPT !.expired = TRUE]
  <2>0. UNCHANGED word /\ call[t] \in Calls /\ pc[t] \in {"fwait", "asleep"}
        /\ CallOK(t, pc[t], call[t], word)
    BY <1>0, <1>6, <1>a, CallsTypes DEF FutexWait, Interrupted, TimesOut, Goto
  <2>1. c.msg = call[t].msg /\ c.cur = call[t].cur
    BY <2>0 DEF Calls
  <2>2. call' = [call EXCEPT ![t] = call[t]] \/ call' = [call EXCEPT ![t] = c]
    BY <1>0, <1>6, SameCall DEF FutexWait, Interrupted, TimesOut, CheckClock
  <2>. HIDE DEF c
  <2>3. PICK l \in {"asleep", "reload", "relock"} : pc' = [pc EXCEPT ![t] = l]
    BY <1>6 DEF FutexWait, Interrupted, TimesOut, Goto, AfterWait
  <2>4. CallOK(t, l, call[t], word) /\ CallOK(t, l, c, word)
    BY <2>0, <2>1, <2>3 DEF CallOK, Fits
  <2>. QED
    BY <1>0, <2>0, <2>2, <2>3, <2>4, CallsQuiet
<1>7. ASSUME NEW t \in Threads, Reload(t)
      PROVE  CallsOK'
  <2>. DEFINE c == [call[t] EXCEPT !.cur = word]
  <2>0. UNCHANGED word /\ call[t] \in Calls /\ pc[t] = "reload" /\ CallOK(t, "reload", call[t], word)
    BY <1>0, <1>7, <1>a, CallsTypes DEF Reload, Leave, Goto
  <2>1. CASE Leave(t, "reload")
    BY <1>0, <1>c, <1>d, <2>0, <2>1, CallsQuiet DEF Leave
  <2>2. CASE /\ Goto(t, "reload", IF Ready(t, word) THEN "copy" ELSE "mark")
             /\ call' = [call EXCEPT ![t] = c]
    <3>1. c.msg = call[t].msg /\ c.cur = word
      BY <2>0 DEF Calls
    <3>2. Ready(t, word) => CallOK(t, "copy", c, word)
      BY <2>0, <3>1, ReadyFits DEF CallOK, Fits
    <3>3. ~Ready(t, word) => CallOK(t, "mark", c, word)
      BY <2>0, <3>1, ReadyFits DEF CallOK, Fits
    <3>. HIDE DEF c
    <3>. QED
      BY <1>0, <2>0, <2>2, <3>2, <3>3, CallsQuiet DEF Goto
  <2>. QED
    BY <1>7, <2>1, <2>2 DEF Reload
<1>8. ASSUME NEW s \in Senders, CopyIn(s)
      PROVE  CallsOK'
  <2>1. s \in Threads /\ UNCHANGED <<word, call>> /\ CallOK(s, "copy", call[s], word)
        /\ pc' = [pc EXCEPT ![s] = "commit"]
    BY <1>8, <1>a DEF CopyIn, Goto, Threads
  <2>2. CallOK(s, "commit", call[s], word)
    BY <2>1 DEF CallOK
  <2>. QED
    BY <1>0, <2>1, <2>2, CallsQuiet, SameCall
<1>9. ASSUME NEW r \in Receivers, CopyOut(r)
      PROVE  CallsOK'
  <2>. DEFINE n == ring[tail][2]
              m == [k \in 1..n |-> ring[Cell(AfterHeader(tail), n, k)]]
              c == [call[r] EXCEPT !.msg = m]
  <2>1. PICK q, s : Holds(q, s)
    BY DEF RingOK
  <2>2. r \in Threads /\ r \notin Senders /\ pc[r] = "copy" /\ UNCHANGED word
        /\ pc' = [pc EXCEPT ![r] = "commit"] /\ call' = [call EXCEPT ![r] = c]
    BY <1>9, SideFacts DEF CopyOut, Goto, Threads
  <2>3. m = q[1] /\ q[1] \in Payloads
    BY <2>1, <2>2, FirstMessage
  <2>. HIDE DEF m
  <2>4. Len(m) < Size
    BY <2>3, PayloadFacts, QueueAssumption
  <2>5. c.msg = m
    BY <1>0, <2>2, CallsTypes DEF Calls
  <2>6. CallOK(r, "commit", c, word)
    BY <2>2, <2>4, <2>5 DEF CallOK
  <2>. HIDE DEF c
  <2>. QED
    BY <1>0, <2>2, <2>6, CallsQuiet
<1>10. ASSUME NEW t \in Threads, (t \in Senders /\ Publish(t)) \/ (t \in Receivers /\ Consume(t))
       PROVE  CallsOK'
  <2>1. pc[t] = "commit" /\ call[t] \in Calls /\ CallOK(t, "commit", call[t], word)
    BY <1>0, <1>10, <1>a, CallsTypes DEF Publish, Consume, Finish, Leave, Goto
  <2>2. Len(call[t].msg) \in Nat /\ word \in Word /\ word.used \in 0..Size
    BY <1>0, <2>1 DEF Calls, Types, Word
  <2>3. /\ word'.s = word.s /\ word'.r = word.r
        /\ t \in Senders => word'.used >= word.used
        /\ t \notin Senders => word'.used <= word.used
    BY <1>10, <2>2, SideFacts, QueueAssumption DEF Publish, Consume, Word
  <2>4. \A u \in Threads \ {t} : Side(u) = Side(t) => pc[u] \notin {"copy", "commit"}
    BY <1>0, <2>1, Alone DEF Inside
  <2>5. \A u \in Threads \ {t} :
           /\ u \in Senders /\ pc[u] \in {"copy", "commit"} => word'.used <= word.used
           /\ u \notin Senders /\ pc[u] = "copy" => word'.used >= word.used
           /\ pc[u] = "clear" => word'[PeerFlag(u)] = word[PeerFlag(u)]
    BY <2>3, <2>4, SideFacts DEF PeerFlag
  <2>6. CASE pc' = Left(t) /\ call' = [call EXCEPT ![t] = NoCall]
    BY <1>0, <1>c, <1>d, <2>5, <2>6, CallsKept
  <2>7. CASE pc' = [pc EXCEPT ![t] = "clear"] /\ UNCHANGED call /\ word[PeerFlag(t)] = 1
    <3>1. word'[PeerFlag(t)] = 1
      BY <2>3, <2>7 DEF PeerFlag
    <3>2. CallOK(t, "clear", call[t], word')
      BY <2>1, <3>1 DEF CallOK
    <3>. QED
      BY <1>0, <2>5, <2>7, <3>2, CallsKept, SameCall
  <2>. QED
    BY <1>10, <2>6, <2>7, SideFacts DEF Publish, Consume, Finish, Leave, Goto, PeerFlag
<1>11. ASSUME NEW t \in Threads, Clear(t)
       PROVE  CallsOK'
  <2>1. pc[t] = "clear" /\ UNCHANGED call /\ pc' = [pc EXCEPT ![t] = "signal"]
        /\ word' = [word EXCEPT ![PeerFlag(t)] = @ - 1]
    BY <1>11 DEF Clear, Goto
  <2>2. word'.used = word.used /\ word.used \in 0..Size
        /\ \A u \in Threads : PeerFlag(u) # PeerFlag(t) => word'[PeerFlag(u)] = word[PeerFlag(u)]
    BY <1>0, <2>1 DEF Types, Word, PeerFlag
  <2>3. \A u \in Threads \ {t} : Side(u) = Side(t) => pc[u] # "clear"
    BY <1>0, <2>1, Alone DEF Inside
  <2>4. \A u \in Threads : Side(u) # Side(t) => PeerFlag(u) # PeerFlag(t)
    BY DEF Side, PeerFlag
  <2>5. CallOK(t, "signal", call[t], word')
    BY <1>a, <2>1 DEF CallOK
  <2>6. \A u \in Threads \ {t} :
           /\ u \in Senders /\ pc[u] \in {"copy", "commit"} => word'.used <= word.used
           /\ u \notin Senders /\ pc[u] = "copy" => word'.used >= word.used
           /\ pc[u] = "clear" => word'[PeerFlag(u)] = word[PeerFlag(u)]
    BY <2>2, <2>3, <2>4, QueueAssumption
  <2>. QED
    BY <1>0, <2>1, <2>5, <2>6, CallsKept, SameCall
<1>12. ASSUME NEW t \in Threads, Signal(t)
       PROVE  CallsOK'
  <2>1. UNCHANGED word
    BY <1>12 DEF Signal
  <2>2. CASE pc' = Left(t) /\ call' = [call EXCEPT ![t] = NoCall]
    BY <1>0, <1>c, <1>d, <2>1, <2>2, CallsQuiet
  <2>3. ASSUME NEW u \in Asleep, NEW late \in BOOLEAN,
               pc[t] = "signal", pc' = [Left(t) EXCEPT ![u] = AfterWait(u)],
               call' = [call EXCEPT ![t] = NoCall, ![u].expired = late]
        PROVE  CallsOK'
    <3>1. u \in Threads /\ pc[u] = "asleep" /\ u # t
      BY <2>3 DEF Asleep
    <3>2. CallOK(u, "asleep", call[u], word)
      BY <1>a, <3>1
    <3>3. pc'[u] \in {"reload", "relock"} /\ call'[u].msg = call[u].msg
      BY <1>0, <2>3, <3>1 DEF Types, Left, AfterWait, Calls
    <3>4. CallOK(u, pc'[u], call'[u], word')
      BY <2>1, <3>2, <3>3 DEF CallOK
    <3>5. CallOK(t, pc'[t], call'[t], word')
      BY <1>0, <1>c, <2>3, <3>1 DEF Types, Left
    <3>6. \A v \in Threads \ {t, u} : pc'[v] = pc[v] /\ call'[v] = call[v]
      BY <1>0, <2>3, <3>1 DEF Types, Left
    <3>. QED
      BY <1>a, <2>1, <3>4, <3>5, <3>6 DEF CallsOK
  <2>4. \A u \in Asleep : (call[u].mode = "timed") \in BOOLEAN
    OBVIOUS
  <2>. QED
    BY <1>12, <2>2, <2>3, <2>4 DEF Signal
<1>13. ASSUME NEW s \in Senders, Publish(s) PROVE CallsOK'
  <2>1. s \in Threads
    BY DEF Threads
  <2>. QED
    BY <1>10, <1>13, <2>1
<1>14. ASSUME NEW r \in Receivers, Consume(r) PROVE CallsOK'
  <2>1. r \in Threads
    BY DEF Threads
  <2>. QED
    BY <1>10, <1>14, <2>1
<1>. QED
  BY <1>1, <1>2, <1>3, <1>4, <1>5, <1>6, <1>7, <1>8, <1>9, <1>11, <1>12, <1>13, <1>14
     DEF Next, Send, Receive, Common, Threads

-----------------------------------------------------------------------------
(* The ring.                                                               *)

(* Two positions less than a ring apart are two cells.                     *)
LEMMA WrapFacts ==
  ASSUME NEW x \in 0..2 * Size - 1
  PROVE  /\ Wrap(x) \in 0..Size - 1
         /\ \A y \in 0..2 * Size - 1 : x < y /\ y < x + Size => Wrap(x) # Wrap(y)
         /\ x >= Size => Wrap(x - Size) = Wrap(x)
BY QueueAssumption DEF Wrap

(* A message is added at the end.                                          *)
LEMMA ChainAppend ==
  ASSUME NEW q, NEW s, Chain(q, s), NEW m \in Payloads, NEW end, end = s[Len(q) + 1],
         end + Len(m) + 1 - s[1] <= Size, end + Len(m) + 1 < 2 * Size,
         NEW R, Stored(R, q, s), Lay(R, m, end)
  PROVE  \E z : /\ Chain(Append(q, m), z) /\ Stored(R, Append(q, m), z)
                /\ z[1] = s[1] /\ z[Len(Append(q, m)) + 1] = end + Len(m) + 1
<1>. DEFINE L == Len(q)
            z == [k \in 1..L + 2 |-> IF k <= L + 1 THEN s[k] ELSE end + Len(m) + 1]
            p == Append(q, m)
<1>1. L \in Nat /\ q \in Seq(Payloads) /\ p \in Seq(Payloads) /\ Len(p) = L + 1
      /\ p[L + 1] = m /\ \A k \in 1..L : p[k] = q[k]
  BY DEF Chain
<1>2. Len(m) \in Nat
  BY PayloadFacts, QueueAssumption
<1>3. \A k \in 1..L + 1 : s[k] \in 0..2 * Size - 1 /\ s[k] <= end
  BY <1>1, ChainFacts
<1>4. end \in 0..2 * Size - 1 /\ end + Len(m) + 1 \in 0..2 * Size - 1 /\ s[1] \in Int
  BY <1>1, <1>2, <1>3, QueueAssumption
<1>5. z \in [1..L + 2 -> 0..2 * Size - 1]
  <2>1. ASSUME NEW k \in 1..L + 2
        PROVE  (IF k <= L + 1 THEN s[k] ELSE end + Len(m) + 1) \in 0..2 * Size - 1
    BY <1>1, <1>3, <1>4
  <2>. QED
    BY <2>1
<1>6. ASSUME NEW k \in 1..L + 1
      PROVE  z[k + 1] = z[k] + Len(p[k]) + 1 /\ Lay(R, p[k], z[k])
  <2>1. CASE k = L + 1
    BY <1>1, <1>4, <2>1
  <2>2. CASE k # L + 1
    <3>1. k \in 1..L /\ z[k] = s[k] /\ z[k + 1] = s[k + 1] /\ p[k] = q[k]
      BY <1>1, <2>2
    <3>. QED
      BY <3>1 DEF Chain, Stored
  <2>. QED
    BY <2>1, <2>2
<1>7. ASSUME NEW i \in 1..L + 2, NEW j \in 1..L + 2, i <= j
      PROVE  z[i] <= z[j]
  <2>1. CASE j = L + 2
    <3>1. z[j] = end + Len(m) + 1 /\ (z[i] = z[j] \/ (i \in 1..L + 1 /\ z[i] = s[i]))
      BY <1>1, <2>1
    <3>2. end + Len(m) + 1 \in Int /\ \A k \in 1..L + 1 : s[k] \in Int /\ s[k] <= end + Len(m) + 1
      <4>1. end \in Int /\ Len(m) \in Nat /\ 0..2 * Size - 1 \subseteq Int
        BY <1>2, <1>4, QueueAssumption
      <4>2. ASSUME NEW k \in 1..L + 1
            PROVE  s[k] \in Int /\ s[k] <= end
        BY <1>3, <4>1
      <4>. QED
        BY <4>1, <4>2
    <3>. HIDE DEF z
    <3>. QED
      BY <3>1, <3>2
  <2>2. CASE j # L + 2
    <3>1. i \in 1..L + 1 /\ j \in 1..L + 1 /\ z[i] = s[i] /\ z[j] = s[j]
      BY <1>1, <1>7, <2>2
    <3>. QED
      BY <1>7, <3>1 DEF Chain
  <2>. QED
    BY <2>1, <2>2
<1>8. z[1] = s[1] /\ z[L + 2] = end + Len(m) + 1
  BY <1>1
<1>. HIDE DEF z, p
<1>9. Len(p) + 1 = L + 2
  BY <1>1
<1>10. Chain(p, z)
  <2>1. z[Len(p) + 1] - z[1] <= Size
    <3>1. z[Len(p) + 1] = end + Len(m) + 1
      BY <1>8, <1>9
    <3>2. end + Len(m) + 1 - s[1] <= Size
      OBVIOUS
    <3>. QED
      BY <1>4, <1>8, <3>1, <3>2, QueueAssumption
  <2>. QED
    BY <1>1, <1>5, <1>6, <1>7, <1>9, <2>1 DEF Chain
<1>11. Stored(R, p, z)
  BY <1>1, <1>6 DEF Stored
<1>. QED
  BY <1>8, <1>9, <1>10, <1>11 DEF p

(* The first message is taken off; the offsets restart at the buffer's     *)
(* beginning, d less, once they are all beyond its end.                    *)
Rest(q, s, R, z, d) ==
  /\ Chain(Tail(q), z) /\ Stored(R, Tail(q), z)
  /\ z[1] = Wrap(s[2]) /\ z[1] = s[2] - d
  /\ d \in {0, Size} /\ z[Len(Tail(q)) + 1] = s[Len(q) + 1] - d
  /\ \A x \in s[2]..2 * Size - 1 : Wrap(x - d) = Wrap(x)

(* The first message is taken away.  When the next header has wrapped      *)
(* around, all later positions are counted from the start of the ring      *)
(* again.                                                                  *)
LEMMA ChainTail ==
  ASSUME NEW q, NEW s, NEW R, Chain(q, s), Len(q) >= 1, Stored(R, q, s)
  PROVE  \E z, d : Rest(q, s, R, z, d)
<1>. DEFINE L == Len(q)
            d == IF s[2] < Size THEN 0 ELSE Size
            z == [k \in 1..L |-> s[k + 1] - d]
            p == Tail(q)
<1>1. L \in Nat /\ L >= 1 /\ q \in Seq(Payloads) /\ p \in Seq(Payloads) /\ Len(p) + 1 = L
      /\ \A k \in 1..Len(p) : p[k] = q[k + 1]
  BY DEF Chain
<1>2. \A k \in 1..L + 1 : s[k] \in 0..2 * Size - 1
  BY <1>1, ChainFacts
<1>3. \A k \in 2..L + 1 : s[2] <= s[k]
  BY <1>1 DEF Chain
<1>4. 2 \in 1..L + 1 /\ s[2] \in 0..2 * Size - 1
  BY <1>1, <1>2
<1>5. d \in {0, Size} /\ d \in Nat /\ d <= s[2] /\ Wrap(s[2]) = s[2] - d
  BY <1>4, QueueAssumption DEF Wrap
<1>6. ASSUME NEW x \in s[2]..2 * Size - 1
      PROVE  Wrap(x - d) = Wrap(x) /\ x - d \in 0..2 * Size - 1
  BY <1>4, QueueAssumption DEF Wrap
<1>. HIDE DEF d
<1>7. ASSUME NEW k \in 1..L
      PROVE  k + 1 \in 1..L + 1 /\ s[k + 1] \in s[2]..2 * Size - 1 /\ z[k] = s[k + 1] - d
  BY <1>1, <1>2, <1>3, <1>4
<1>8. z \in [1..L -> 0..2 * Size - 1]
  BY <1>6, <1>7
<1>9. ASSUME NEW k \in 1..Len(p)
      PROVE  z[k + 1] = z[k] + Len(p[k]) + 1 /\ Lay(R, p[k], z[k])
  <2>. DEFINE m == p[k]
              x == s[k + 1]
  <2>1. k \in 1..L /\ k + 1 \in 1..L /\ m = q[k + 1]
    BY <1>1
  <2>2. m \in Payloads /\ Len(m) \in Nat
    <3>1. m \in Payloads
      BY <1>1, <2>1
    <3>. QED
      BY <3>1, PayloadFacts, QueueAssumption
  <2>3. s[k + 1 + 1] = x + Len(m) + 1 /\ Lay(R, m, x)
    BY <1>1, <2>1 DEF Chain, Stored
  <2>4. z[k] = x - d /\ x \in s[2]..2 * Size - 1
        /\ z[k + 1] = s[k + 1 + 1] - d /\ s[k + 1 + 1] \in s[2]..2 * Size - 1
    BY <1>7, <2>1
  <2>. HIDE DEF m, x, z
  <2>5. z[k + 1] = z[k] + Len(m) + 1
    BY <1>4, <1>5, <2>2, <2>3, <2>4, QueueAssumption
  <2>6. ASSUME NEW i \in 0..Len(m)
        PROVE  Wrap((x - d) + i) = Wrap(x + i)
    <3>. DEFINE y == s[k + 1 + 1]
                a == s[2]
                n == Len(m)
    <3>0. /\ x \in a..2 * Size - 1 /\ y \in a..2 * Size - 1 /\ y = x + n + 1
          /\ a \in Nat /\ n \in Nat /\ d \in Nat /\ i \in 0..n
      BY <1>4, <1>5, <2>2, <2>3, <2>4
    <3>. HIDE DEF y, a, n
    <3>1. x + i \in a..2 * Size - 1 /\ (x + i) - d = (x - d) + i
      BY <3>0, QueueAssumption
    <3>. QED
      BY <1>6, <3>1 DEF a
  <2>7. Wrap(x - d) = Wrap(x)
    BY <1>6, <2>4
  <2>8. Lay(R, m, x - d)
    BY <2>2, <2>3, <2>6, <2>7 DEF Lay
  <2>. QED
    BY <2>4, <2>5, <2>8 DEF m
<1>10. ASSUME NEW i \in 1..L, NEW j \in 1..L, i <= j
       PROVE  z[i] <= z[j]
  <2>1. s[i + 1] <= s[j + 1]
    BY <1>1, <1>7, <1>10 DEF Chain
  <2>. QED
    BY <1>4, <1>5, <1>7, <2>1, QueueAssumption
<1>11. z[1] = s[2] - d /\ z[L] = s[L + 1] - d
  BY <1>1
<1>12. z[L] - z[1] <= Size
  <2>1. s[L + 1] <= s[1] + Size /\ s[1] <= s[2] /\ s[1] \in Int /\ s[2] \in Int /\ s[L + 1] \in Int
    BY <1>4, ChainFacts, QueueAssumption
  <2>. QED
    BY <1>5, <1>11, <2>1, QueueAssumption
<1>. HIDE DEF z, p
<1>13. Chain(p, z)
  BY <1>1, <1>8, <1>9, <1>10, <1>12 DEF Chain
<1>14. Stored(R, p, z)
  BY <1>9 DEF Stored
<1>15. Rest(q, s, R, z, d)
  BY <1>1, <1>5, <1>6, <1>11, <1>13, <1>14 DEF p, Rest
<1>. QED
  BY <1>15

-----------------------------------------------------------------------------
(* What the queue contains, in terms of what the ring holds.               *)
ContentsAre ==
  \A q, s : Types /\ LocksOK /\ Holds(q, s) =>
    /\ CopiedOut = {} => Contents = q
    /\ \A r \in CopiedOut : CopiedOut = {r} /\ Contents = <<call[r].msg>> \o q

(* Proved from what Decode reads and what a receiver holds.                *)
LEMMA ContentsIs == ContentsAre
<1>. SUFFICES ASSUME NEW q, NEW s, Types, LocksOK, Holds(q, s)
              PROVE  /\ CopiedOut = {} => Contents = q
                     /\ \A r \in CopiedOut : CopiedOut = {r} /\ Contents = <<call[r].msg>> \o q
  BY DEF ContentsAre
<1>. DEFINE end == s[Len(q) + 1]
<1>1. /\ tail \in 0..Size - 1 /\ Wrap(tail) = tail
      /\ s[1] = tail /\ end \in Int /\ Chain(q, s)
  <2>1. Chain(q, s) /\ s[1] = tail /\ tail \in 0..Size - 1
    BY DEF Holds, Types
  <2>2. 1 \in 1..Len(q) + 1
    BY <2>1 DEF Chain
  <2>3. end \in 0..2 * Size - 1
    BY <2>1, <2>2, ChainFacts
  <2>. QED
    BY <2>1, <2>3, QueueAssumption DEF Wrap
<1>2. Decode[end - tail][tail] = q
  <2>1. ring \in [0..Size - 1 -> Words] /\ Stored(ring, q, s)
    BY DEF Types, Holds
  <2>2. DecodeOf(ring)[end - s[1]][Wrap(s[1])] = q
    BY <1>1, <2>1, DecodeStored
  <2>. QED
    BY <1>1, <2>2, DecodeIs
<1>3. CopiedOut = {} => Contents = q
  BY <1>2 DEF Holds, Contents
<1>4. ASSUME NEW r \in CopiedOut
      PROVE  CopiedOut = {r} /\ Contents = <<call[r].msg>> \o q
  <2>1. CopiedOut = {r}
    <3>1. ASSUME NEW u \in CopiedOut PROVE u = r
      <4>1. u \in Receivers /\ r \in Receivers /\ u \in Threads /\ r \in Threads
            /\ pc[u] = "commit" /\ pc[r] = "commit"
        BY DEF CopiedOut, Threads
      <4>2. Side(u) = Side(r)
        BY <4>1, SideFacts
      <4>. QED
        BY <4>1, <4>2, Alone DEF Inside
    <3>. QED
      BY <3>1
  <2>2. (CHOOSE u \in CopiedOut : TRUE) = r
    BY <2>1
  <2>3. word.used = end - tail + Len(call[r].msg) + 1 /\ Len(call[r].msg) \in Nat
    <3>1. call[r].msg \in Payloads
      BY DEF Holds
    <3>. QED
      BY <3>1, PayloadFacts, QueueAssumption DEF Holds
  <2>4. word.used - (Len(call[r].msg) + 1) = end - tail
    BY <1>1, <2>3, QueueAssumption
  <2>5. Contents = LET m == call[CHOOSE u \in CopiedOut : TRUE].msg
                   IN  <<m>> \o Decode[word.used - (Len(m) + 1)][tail]
    BY <2>1 DEF Contents
  <2>. QED
    BY <1>2, <2>1, <2>2, <2>4, <2>5
<1>. QED
  BY <1>3, <1>4

(* The free-space counter is the length of the abstract queue: what a      *)
(* receiver has copied out but not yet committed is still counted.         *)
LEMMA UsedContents ==
  ASSUME Types, LocksOK, NEW q, NEW s, Holds(q, s)
  PROVE  Fifo!Used(Contents) = word.used
<1>. DEFINE L == Len(q)
            end == s[L + 1]
<1>1. Chain(q, s) /\ s[1] = tail /\ q \in Seq(Payloads) /\ L \in Nat
  BY DEF Holds, Chain
<1>2. \A k \in 1..L + 1 : s[k] \in Int
  BY <1>1, ChainFacts, QueueAssumption
<1>3. CASE CopiedOut = {}
  <2>1. Links(q, s)
    BY <1>1, <1>2 DEF Chain, Links
  <2>2. Contents = q /\ word.used = end - s[1]
    BY <1>1, <1>3, ContentsIs DEF ContentsAre, Holds
  <2>. QED
    BY <2>1, <2>2, UsedLinks
<1>4. ASSUME NEW r \in CopiedOut
      PROVE  Fifo!Used(Contents) = word.used
  <2>. DEFINE m == call[r].msg
              p == <<m>> \o q
              z == [k \in 1..L + 2 |-> IF k = 1 THEN s[1] - Len(m) - 1 ELSE s[k - 1]]
  <2>1. m \in Payloads /\ Len(m) \in Nat /\ word.used = end - tail + Len(m) + 1
    <3>1. m \in Payloads
      BY DEF Holds
    <3>. QED
      BY <3>1, PayloadFacts, QueueAssumption DEF Holds
  <2>2. Contents = p
    BY ContentsIs DEF ContentsAre
  <2>. HIDE DEF m
  <2>3. p \in Seq(Payloads) /\ Len(p) = L + 1 /\ p[1] = m
        /\ \A k \in 2..L + 1 : p[k] = q[k - 1]
    BY <1>1, <2>1
  <2>4. z \in [1..L + 2 -> Int]
    BY <1>1, <1>2, <2>1
  <2>5. ASSUME NEW k \in 1..L + 1
        PROVE  z[k + 1] = z[k] + Len(p[k]) + 1
    <3>1. CASE k = 1
      BY <1>1, <1>2, <2>1, <2>3, <3>1
    <3>2. CASE k # 1
      <4>1. k - 1 \in 1..L /\ z[k + 1] = s[k] /\ z[k] = s[k - 1] /\ p[k] = q[k - 1] /\ k - 1 + 1 = k
        BY <1>1, <2>3, <3>2
      <4>. QED
        BY <1>1, <4>1 DEF Chain
    <3>. QED
      BY <3>1, <3>2
  <2>6. z[1] = s[1] - Len(m) - 1 /\ z[L + 2] = end
    BY <1>1
  <2>. HIDE DEF p, z
  <2>7. Len(p) + 1 = L + 2
    BY <1>1, <2>3
  <2>8. Links(p, z)
    BY <2>3, <2>4, <2>5, <2>7 DEF Links
  <2>9. Fifo!Used(p) = z[L + 2] - z[1]
    BY <2>7, <2>8, UsedLinks
  <2>10. end - (s[1] - Len(m) - 1) = word.used
    BY <1>1, <1>2, <2>1
  <2>. QED
    BY <2>2, <2>6, <2>9, <2>10
<1>. QED
  BY <1>3, <1>4

(* A step keeps the ring in order, and is a step of the bounded FIFO.      *)
FifoStep == [Fifo!Next]_<<Contents, got>>

(* A step that neither copies nor commits leaves the queue as it is.       *)
LEMMA QuietStep ==
  ASSUME Types, Types', LocksOK, LocksOK', RingOK,
         UNCHANGED <<ring, head, tail, got>>, word'.used = word.used,
         \A u \in Threads : /\ pc'[u] = "commit" <=> pc[u] = "commit"
                            /\ pc[u] = "commit" => call'[u].msg = call[u].msg
  PROVE  RingOK' /\ FifoStep
<1>1. PICK q, s : Holds(q, s)
  BY DEF RingOK
<1>2. CopiedIn' = CopiedIn /\ CopiedOut' = CopiedOut
  BY DEF CopiedIn, CopiedOut, Threads
<1>3. \A u \in CopiedIn \cup CopiedOut : call'[u].msg = call[u].msg
  BY DEF CopiedIn, CopiedOut, Threads
<1>4. Holds(q, s)'
  <2>. DEFINE end == s[Len(q) + 1]
  <2>1. Chain(q, s) /\ Stored(ring', q, s) /\ s[1] = tail'
    BY <1>1 DEF Holds
  <2>2. CopiedOut' = {} => word'.used = end - tail'
    BY <1>1, <1>2 DEF Holds
  <2>3. \A r \in CopiedOut' : /\ word'.used = end - tail' + Len(call'[r].msg) + 1
                              /\ call'[r].msg \in Payloads
    BY <1>1, <1>2, <1>3 DEF Holds
  <2>4. CopiedIn' = {} => head' = Wrap(end)
    BY <1>1, <1>2 DEF Holds
  <2>5. \A u \in CopiedIn' : /\ head' = Wrap(end + Len(call'[u].msg) + 1)
                             /\ Lay(ring', call'[u].msg, end)
    BY <1>1, <1>2, <1>3 DEF Holds
  <2>. QED
    BY <2>1, <2>2, <2>3, <2>4, <2>5 DEF Holds
<1>5. ContentsAre /\ ContentsAre'
  BY ContentsIs, PTL
<1>6. Contents' = Contents
  <2>1. CASE CopiedOut = {}
    BY <1>1, <1>2, <1>4, <1>5, <2>1 DEF ContentsAre
  <2>2. ASSUME NEW r \in CopiedOut
        PROVE  Contents' = Contents
    <3>1. Contents = <<call[r].msg>> \o q
      BY <1>1, <1>5, <2>2 DEF ContentsAre
    <3>2. Contents' = <<call'[r].msg>> \o q
      BY <1>2, <1>4, <1>5, <2>2 DEF ContentsAre
    <3>. QED
      BY <1>3, <2>2, <3>1, <3>2
  <2>. QED
    BY <2>1, <2>2
<1>. QED
  BY <1>4, <1>6 DEF RingOK, FifoStep

(* A sender writes its message between head and tail, over no message that *)
(* the ring holds, and the queue does not show it yet.                     *)
LEMMA CopyInStep ==
  ASSUME Types, Types', LocksOK, LocksOK', CallsOK, RingOK, NEW t \in Senders, CopyIn(t)
  PROVE  RingOK' /\ FifoStep
<1>. DEFINE m == call[t].msg
            n == Len(m)
            At(i) == {k \in DOMAIN m : Cell(AfterHeader(head), n, k) = i}
<1>1. PICK q, s : Holds(q, s)
  BY DEF RingOK
<1>. DEFINE end == s[Len(q) + 1]
<1>2. t \in Threads /\ pc[t] = "copy" /\ pc' = [pc EXCEPT ![t] = "commit"]
      /\ UNCHANGED <<word, tail, call, got>> /\ head' = AfterPayload(AfterHeader(head), n)
      /\ ring' = [i \in 0..Size-1 |-> IF At(i) # {} THEN m[CHOOSE k \in At(i) : TRUE]
                                      ELSE IF i = head THEN <<0, n>> ELSE ring[i]]
  BY DEF CopyIn, Goto, Threads
<1>3. m \in Payloads /\ word.used + n + 1 <= Size
  <2>1. CallOK(t, "copy", call[t], word)
    BY <1>2 DEF CallsOK
  <2>. QED
    BY <2>1 DEF CallOK, Fits
<1>4. n \in 1..Size - 1 /\ DOMAIN m = 1..n
  BY <1>3, PayloadFacts
<1>5. CopiedIn = {} /\ CopiedIn' = {t} /\ CopiedOut' = CopiedOut
  <2>1. ASSUME NEW u \in CopiedIn PROVE FALSE
    <3>1. u \in Threads /\ pc[u] = "commit" /\ Side(u) = Side(t)
      BY SideFacts, <1>2 DEF CopiedIn, Threads
    <3>. QED
      BY <1>2, <3>1, Alone DEF Inside
  <2>2. CopiedIn = {}
    BY <2>1
  <2>3. t \notin Receivers
    BY <1>2, SideFacts
  <2>. QED
    BY <1>2, <2>2, <2>3 DEF CopiedIn, CopiedOut, Types, Threads
<1>6. Chain(q, s) /\ Stored(ring, q, s) /\ s[1] = tail /\ tail \in 0..Size - 1 /\ head = Wrap(end)
      /\ Len(q) \in Nat
  BY <1>1, <1>5 DEF Holds, Types, Chain
<1>7. end \in Nat /\ tail <= end /\ end + n < tail + Size /\ word.used \in Nat
  <2>1. end \in 0..2 * Size - 1 /\ tail <= end
    <3>1. 1 \in 1..Len(q) + 1
      BY <1>6
    <3>. QED
      BY <1>6, <3>1, ChainFacts
  <2>2. word.used >= end - tail /\ word.used \in Nat
    <3>1. CASE CopiedOut = {}
      BY <1>1, <2>1, <1>6, <3>1, QueueAssumption DEF Holds, Types, Word
    <3>2. ASSUME NEW r \in CopiedOut
          PROVE  word.used >= end - tail /\ word.used \in Nat
      <4>1. word.used = end - tail + Len(call[r].msg) + 1 /\ call[r].msg \in Payloads
        BY <1>1 DEF Holds
      <4>2. Len(call[r].msg) \in Nat
        BY <4>1, PayloadFacts, QueueAssumption
      <4>. QED
        BY <1>6, <2>1, <4>1, <4>2, QueueAssumption
    <3>. QED
      BY <3>1, <3>2
  <2>. HIDE DEF n, end
  <2>3. word.used + n + 1 <= Size
    BY <1>3 DEF n
  <2>. QED
    BY <1>4, <1>6, <2>1, <2>2, <2>3, QueueAssumption
<1>. HIDE DEF m, n, end
<1>8. /\ \A k \in 1..n : Cell(AfterHeader(head), n, k) = Wrap(end + k)
      /\ AfterPayload(AfterHeader(head), n) = Wrap(end + n + 1)
  <2>1. end + n < 2 * Size /\ end + n + 1 < 2 * Size
    BY <1>4, <1>6, <1>7, QueueAssumption
  <2>. QED
    BY <1>4, <1>6, <1>7, <2>1, CellsWrap
(* Two offsets that differ by less than the size are different words.      *)
<1>9. ASSUME NEW x \in tail..end + n, NEW y \in tail..end + n, x # y
      PROVE  Wrap(x) # Wrap(y) /\ Wrap(x) \in 0..Size - 1
  <2>1. x \in 0..2 * Size - 1 /\ y \in 0..2 * Size - 1 /\ x < y + Size /\ y < x + Size
        /\ (x < y \/ y < x)
    BY <1>4, <1>6, <1>7, <1>9, QueueAssumption
  <2>. QED
    BY <2>1, WrapFacts
<1>10. ASSUME NEW k \in 1..n
       PROVE  ring'[Wrap(end + k)] = m[k]
  <2>1. \A j \in 1..n : Cell(AfterHeader(head), n, j) = Wrap(end + k) <=> j = k
    <3>1. ASSUME NEW j \in 1..n, j # k
          PROVE  Wrap(end + j) # Wrap(end + k)
      <4>1. end + j \in tail..end + n /\ end + k \in tail..end + n /\ end + j # end + k
        BY <1>4, <1>6, <1>7, <3>1, QueueAssumption
      <4>. QED
        BY <1>9, <4>1
    <3>. QED
      BY <1>8, <3>1
  <2>2. At(Wrap(end + k)) = {k}
    BY <1>4, <2>1
  <2>3. Wrap(end + k) \in 0..Size - 1
    <3>1. end + k \in tail..end + n /\ end \in tail..end + n /\ end + k # end
      BY <1>4, <1>6, <1>7, QueueAssumption
    <3>. QED
      BY <1>9, <3>1
  <2>. HIDE DEF At
  <2>. QED
    BY <1>2, <2>2, <2>3
<1>11. ASSUME NEW x \in tail..end
       PROVE  ring'[Wrap(x)] = IF x = end THEN <<0, n>> ELSE ring[Wrap(x)]
  <2>1. ASSUME NEW k \in 1..n
        PROVE  Wrap(end + k) # Wrap(x) /\ Wrap(x) \in 0..Size - 1
    <3>1. end + k \in tail..end + n /\ x \in tail..end + n /\ end + k # x
      BY <1>4, <1>6, <1>7, QueueAssumption
    <3>. QED
      BY <1>9, <3>1
  <2>2. At(Wrap(x)) = {}
    BY <1>4, <1>8, <2>1
  <2>3. Wrap(x) \in 0..Size - 1
    BY <1>4, <2>1
  <2>4. x # end => Wrap(x) # Wrap(end)
    <3>1. x \in tail..end + n /\ end \in tail..end + n
      BY <1>4, <1>6, <1>7, QueueAssumption
    <3>. QED
      BY <1>9, <3>1
  <2>. HIDE DEF At
  <2>. QED
    BY <1>2, <1>6, <2>2, <2>3, <2>4
<1>12. Stored(ring', q, s)
  <2>. SUFFICES ASSUME NEW k \in 1..Len(q)
                PROVE  Lay(ring', q[k], s[k])
    BY DEF Stored
  <2>. DEFINE x == s[k]
              l == Len(q[k])
  <2>1. q[k] \in Payloads /\ Lay(ring, q[k], x)
    BY <1>6 DEF Chain, Stored
  <2>2. l \in Nat
    BY <2>1, PayloadFacts, QueueAssumption
  <2>3. x \in Nat /\ tail <= x /\ x + l + 1 <= end
    <3>1. k \in 1..Len(q) + 1 /\ k + 1 \in 1..Len(q) + 1 /\ s[k + 1] = x + l + 1
      BY <1>6 DEF Chain
    <3>2. x \in 0..2 * Size - 1 /\ s[1] <= x /\ s[k + 1] <= end
      BY <1>6, <3>1, ChainFacts DEF end
    <3>. QED
      BY <1>6, <3>1, <3>2, QueueAssumption
  <2>. HIDE DEF x, l
  <2>4. ASSUME NEW i \in 0..l
        PROVE  ring'[Wrap(x + i)] = ring[Wrap(x + i)]
    <3>1. x + i \in tail..end /\ x + i # end
      BY <1>6, <1>7, <2>2, <2>3, QueueAssumption
    <3>. QED
      BY <1>11, <3>1
  <2>5. x + 0 = x /\ 0 \in 0..l /\ \A i \in 1..l : i \in 0..l
    BY <2>2, <2>3
  <2>6. ring'[Wrap(x)] = ring[Wrap(x)] /\ \A i \in 1..l : ring'[Wrap(x + i)] = ring[Wrap(x + i)]
    BY <2>4, <2>5
  <2>. QED
    BY <2>1, <2>6 DEF Lay, x, l
<1>13. Lay(ring', m, end)
  <2>1. end \in tail..end
    BY <1>6, <1>7, QueueAssumption
  <2>. QED
    BY <1>10, <1>11, <2>1 DEF Lay, n
<1>14. Holds(q, s)'
  <2>1. CopiedOut' = {} => word'.used = end - tail'
    BY <1>1, <1>2, <1>5 DEF Holds, end
  <2>2. \A r \in CopiedOut' : /\ word'.used = end - tail' + Len(call'[r].msg) + 1
                              /\ call'[r].msg \in Payloads
    BY <1>1, <1>2, <1>5 DEF Holds, end
  <2>3. \A u \in CopiedIn' : /\ head' = Wrap(end + Len(call'[u].msg) + 1)
                             /\ Lay(ring', call'[u].msg, end)
    BY <1>2, <1>5, <1>8, <1>13 DEF m, n
  <2>4. CopiedIn' # {}
    BY <1>5
  <2>. QED
    BY <1>2, <1>6, <1>12, <2>1, <2>2, <2>3, <2>4 DEF Holds, end
<1>15. Contents' = Contents
  <2>1. ContentsAre /\ ContentsAre'
    BY ContentsIs, PTL
  <2>2. CASE CopiedOut = {}
    BY <1>1, <1>5, <1>14, <2>1, <2>2 DEF ContentsAre
  <2>3. ASSUME NEW r \in CopiedOut
        PROVE  Contents' = Contents
    <3>1. Contents = <<call[r].msg>> \o q
      BY <1>1, <2>1, <2>3 DEF ContentsAre
    <3>2. Contents' = <<call'[r].msg>> \o q
      BY <1>5, <1>14, <2>1, <2>3 DEF ContentsAre
    <3>. QED
      BY <1>2, <3>1, <3>2
  <2>. QED
    BY <2>2, <2>3
<1>. QED
  BY <1>2, <1>14, <1>15 DEF RingOK, FifoStep

(* A receiver reads the first message whole, also around the end of the    *)
(* ring.  It is not removed from the queue yet.                            *)
LEMMA CopyOutStep ==
  ASSUME Types, Types', LocksOK, LocksOK', CallsOK, RingOK, NEW t \in Receivers, CopyOut(t)
  PROVE  RingOK' /\ FifoStep
<1>. DEFINE n == ring[tail][2]
            p == AfterHeader(tail)
            m == [k \in 1..n |-> ring[Cell(p, n, k)]]
<1>1. PICK q, s : Holds(q, s)
  BY DEF RingOK
<1>. DEFINE end == s[Len(q) + 1]
<1>2. t \in Threads /\ pc[t] = "copy" /\ pc' = [pc EXCEPT ![t] = "commit"]
      /\ UNCHANGED <<word, ring, head, got>> /\ tail' = AfterPayload(p, n)
      /\ call' = [call EXCEPT ![t].msg = m]
  BY DEF CopyOut, Goto, Threads
<1>3. /\ CopiedOut = {} /\ Len(q) >= 1 /\ q[1] \in Payloads
      /\ n = Len(q[1]) /\ s[2] = tail + n + 1 /\ m = q[1] /\ AfterPayload(p, n) = Wrap(s[2])
  BY <1>1, <1>2, FirstMessage
<1>4. n \in Nat
  BY <1>3, PayloadFacts, QueueAssumption
<1>. HIDE DEF n, m, p
<1>5. CopiedOut' = {t} /\ CopiedIn' = CopiedIn /\ call'[t].msg = m
      /\ \A u \in CopiedIn : call'[u] = call[u]
  <2>1. t \notin Senders
    BY <1>2, SideFacts
  <2>2. call'[t].msg = m
    BY <1>2, CallsTypes DEF Types, Calls
  <2>. QED
    BY <1>2, <1>3, <2>1, <2>2 DEF CopiedIn, CopiedOut, Types, Threads
<1>6. Chain(q, s) /\ Stored(ring, q, s) /\ s[1] = tail /\ tail \in 0..Size - 1
      /\ word.used = end - tail
  BY <1>1, <1>3 DEF Holds, Types
<1>7. PICK z, d :
        /\ Chain(Tail(q), z) /\ Stored(ring, Tail(q), z)
        /\ z[1] = Wrap(s[2]) /\ d \in {0, Size} /\ z[Len(Tail(q)) + 1] = end - d
        /\ z[1] = s[2] - d
        /\ \A x \in s[2]..2 * Size - 1 : Wrap(x - d) = Wrap(x)
  <2>1. Chain(q, s) /\ Len(q) >= 1 /\ Stored(ring, q, s)
    BY <1>3, <1>6
  <2>. HIDE DEF end
  <2>2. PICK z, d : Rest(q, s, ring, z, d)
    BY <2>1, ChainTail
  <2>. QED
    BY <2>2 DEF Rest, end
<1>. DEFINE last == z[Len(Tail(q)) + 1]
<1>8. q \in Seq(Payloads) /\ end \in 0..2 * Size - 1 /\ s[2] <= end /\ s[2] \in Nat
  <2>1. q \in Seq(Payloads) /\ 2 \in 1..Len(q) + 1 /\ Len(q) \in Nat
    BY <1>3, <1>6 DEF Chain
  <2>2. end \in 0..2 * Size - 1 /\ s[2] <= end /\ s[2] \in 0..2 * Size - 1
    BY <1>6, <2>1, ChainFacts
  <2>. QED
    BY <2>1, <2>2, QueueAssumption
<1>. HIDE DEF end
<1>9. word'.used = last - tail' + Len(call'[t].msg) + 1
  <2>1. last = end - d /\ tail' = s[2] - d /\ call'[t].msg = m /\ Len(m) = n
    BY <1>2, <1>3, <1>5, <1>7
  <2>. QED
    <3>1. end \in Nat /\ d \in Nat /\ tail \in Nat
      BY <1>6, <1>7, <1>8, QueueAssumption
    <3>2. word'.used = end - tail /\ s[2] = tail + n + 1
      BY <1>2, <1>3, <1>6
    <3>. HIDE DEF last
    <3>3. (end - d) - ((tail + n + 1) - d) + n + 1 = end - tail
      BY <1>4, <3>1
    <3>4. tail' = (tail + n + 1) - d /\ Len(call'[t].msg) = n
      BY <2>1, <3>2
    <3>. QED
      BY <2>1, <3>2, <3>3, <3>4, Zenon
<1>10. CopiedIn' = {} => head' = Wrap(last)
  <2>1. end \in s[2]..2 * Size - 1
    BY <1>8, QueueAssumption
  <2>. QED
    BY <1>1, <1>2, <1>5, <1>7, <2>1 DEF Holds, end
<1>11. ASSUME NEW u \in CopiedIn
       PROVE  head' = Wrap(last + Len(call'[u].msg) + 1) /\ Lay(ring', call'[u].msg, last)
  <2>. DEFINE a == call[u].msg
              l == Len(a)
  <2>1. u \in Threads /\ u \in Senders /\ pc[u] = "commit"
    BY DEF CopiedIn, Threads
  <2>2. CallOK(u, "commit", call[u], word)
    BY <2>1 DEF CallsOK
  <2>3. a \in Payloads /\ word.used + l + 1 <= Size
    BY <2>1, <2>2 DEF CallOK, Fits
  <2>4. l \in Nat
    BY <2>3, PayloadFacts, QueueAssumption
  <2>5. head = Wrap(end + l + 1) /\ Lay(ring, a, end)
    BY <1>1 DEF Holds, end
  <2>6. call'[u].msg = a
    BY <1>5
  <2>. HIDE DEF a, l
  <2>7. end + l + 1 < 2 * Size
    BY <1>6, <1>8, <2>3, <2>4, QueueAssumption
  <2>8. ASSUME NEW i \in 0..l + 1
        PROVE  Wrap((end - d) + i) = Wrap(end + i)
    <3>1. end + i \in s[2]..2 * Size - 1 /\ (end + i) - d = (end - d) + i
      BY <1>7, <1>8, <2>4, <2>7, QueueAssumption
    <3>. QED
      BY <1>7, <3>1
  <2>9. Wrap(end - d) = Wrap(end)
    <3>1. 0 \in 0..l + 1 /\ (end - d) + 0 = end - d /\ end + 0 = end
      BY <1>7, <1>8, <2>4, QueueAssumption
    <3>. QED
      BY <2>8, <3>1
  <2>10. Wrap((end - d) + l + 1) = Wrap(end + l + 1)
    <3>1. l + 1 \in 0..l + 1 /\ (end - d) + (l + 1) = (end - d) + l + 1 /\ end + (l + 1) = end + l + 1
      BY <1>7, <1>8, <2>4, QueueAssumption
    <3>. QED
      BY <2>8, <3>1
  <2>11. \A i \in 1..l : Wrap((end - d) + i) = Wrap(end + i)
    BY <2>4, <2>8
  <2>12. last = end - d
    BY <1>7
  <2>. HIDE DEF last
  <2>. QED
    BY <1>2, <2>5, <2>6, <2>9, <2>10, <2>11, <2>12 DEF Lay, l
<1>12. Holds(Tail(q), z)'
  <2>1. Stored(ring', Tail(q), z) /\ z[1] = tail'
    BY <1>2, <1>3, <1>7
  <2>2. \A r \in CopiedOut' : /\ word'.used = last - tail' + Len(call'[r].msg) + 1
                              /\ call'[r].msg \in Payloads
    BY <1>3, <1>5, <1>9
  <2>3. CopiedOut' # {}
    BY <1>5
  <2>4. \A u \in CopiedIn' : /\ head' = Wrap(last + Len(call'[u].msg) + 1)
                             /\ Lay(ring', call'[u].msg, last)
    BY <1>5, <1>11
  <2>. QED
    BY <1>7, <1>10, <2>1, <2>2, <2>3, <2>4 DEF Holds
<1>13. Contents' = Contents
  <2>1. ContentsAre /\ ContentsAre'
    BY ContentsIs, PTL
  <2>2. Contents = q
    BY <1>1, <1>3, <2>1 DEF ContentsAre
  <2>3. Contents' = <<m>> \o Tail(q)
    BY <1>5, <1>12, <2>1 DEF ContentsAre
  <2>4. q = <<q[1]>> \o Tail(q)
    BY <1>3, <1>8
  <2>. QED
    BY <1>3, <2>2, <2>3, <2>4
<1>. QED
  BY <1>2, <1>12, <1>13 DEF RingOK, FifoStep

(* A sender's commit appends its message to the queue, for which there is  *)
(* room.                                                                   *)
LEMMA PublishStep ==
  ASSUME Types, Types', LocksOK, LocksOK', CallsOK, RingOK, NEW t \in Senders, Publish(t)
  PROVE  RingOK' /\ FifoStep
<1>. DEFINE m == call[t].msg
            n == Len(m)
<1>1. PICK q, s : Holds(q, s)
  BY DEF RingOK
<1>. DEFINE end == s[Len(q) + 1]
<1>2. /\ t \in Threads /\ pc[t] = "commit"
      /\ \E l : l # "commit" /\ pc' = [pc EXCEPT ![t] = l]
      /\ \A u \in Threads \ {t} : call'[u] = call[u]
      /\ UNCHANGED <<ring, head, tail, got>>
      /\ word' = [word EXCEPT !.used = @ + n + 1]
  BY DEF Publish, Finish, Leave, Left, Goto, Threads, Types
<1>3. m \in Payloads /\ word.used + n + 1 <= Size /\ n \in Nat
  <2>1. CallOK(t, "commit", call[t], word)
    BY <1>2 DEF CallsOK
  <2>2. m \in Payloads /\ word.used + n + 1 <= Size
    BY <2>1 DEF CallOK, Fits
  <2>. QED
    BY <2>2, PayloadFacts, QueueAssumption
<1>4. CopiedIn = {t} /\ CopiedIn' = {} /\ CopiedOut' = CopiedOut
  <2>1. ASSUME NEW u \in CopiedIn PROVE u = t
    <3>1. u \in Threads /\ pc[u] = "commit" /\ Side(u) = Side(t)
      BY SideFacts, <1>2 DEF CopiedIn, Threads
    <3>. QED
      BY <1>2, <3>1, Alone DEF Inside
  <2>2. CopiedIn = {t}
    BY <1>2, <2>1 DEF CopiedIn
  <2>3. t \notin Receivers
    BY <1>2, SideFacts
  <2>. QED
    BY <1>2, <2>2, <2>3 DEF CopiedIn, CopiedOut, Types, Threads
<1>5. /\ Chain(q, s) /\ Stored(ring, q, s) /\ s[1] = tail /\ tail \in 0..Size - 1
      /\ head = Wrap(end + n + 1) /\ Lay(ring, m, end) /\ q \in Seq(Payloads)
  BY <1>1, <1>4 DEF Holds, Types, Chain
<1>6. end \in Nat /\ word.used >= end - tail /\ word'.used = word.used + n + 1 /\ word.used \in Nat
  <2>1. end \in Nat
    <3>1. 1 \in 1..Len(q) + 1
      BY <1>5
    <3>. QED
      BY <1>5, <3>1, ChainFacts, QueueAssumption
  <2>2. word'.used = word.used + n + 1 /\ word.used \in Nat
    BY <1>2, QueueAssumption DEF Types, Word
  <2>3. CASE CopiedOut = {}
    BY <1>1, <1>5, <2>1, <2>2, <2>3, QueueAssumption DEF Holds
  <2>4. ASSUME NEW r \in CopiedOut
        PROVE  word.used >= end - tail
    <3>1. word.used = end - tail + Len(call[r].msg) + 1 /\ call[r].msg \in Payloads
      BY <1>1 DEF Holds
    <3>2. Len(call[r].msg) \in Nat
      BY <3>1, PayloadFacts, QueueAssumption
    <3>. QED
      BY <1>5, <2>1, <3>1, <3>2, QueueAssumption
  <2>. QED
    BY <2>1, <2>2, <2>3, <2>4
<1>. HIDE DEF m, n, end
<1>7. end + n + 1 - s[1] <= Size /\ end + n + 1 < 2 * Size
  BY <1>3, <1>5, <1>6, QueueAssumption
<1>8. PICK p, z : /\ p = Append(q, m)
                  /\ Chain(p, z) /\ Stored(ring, p, z)
                  /\ z[1] = s[1] /\ z[Len(p) + 1] = end + n + 1
  <2>1. end + n + 1 - s[1] <= Size /\ end + n + 1 < 2 * Size /\ Chain(q, s)
        /\ Stored(ring, q, s) /\ Lay(ring, m, end) /\ m \in Payloads
    BY <1>3, <1>5, <1>7
  <2>2. end = s[Len(q) + 1] /\ n = Len(m)
    BY DEF end, n
  <2>3. PICK z : /\ Chain(Append(q, m), z) /\ Stored(ring, Append(q, m), z)
                 /\ z[1] = s[1] /\ z[Len(Append(q, m)) + 1] = end + Len(m) + 1
    BY <2>1, <2>2, ChainAppend
  <2>. QED
    BY <2>2, <2>3
<1>. DEFINE last == z[Len(p) + 1]
<1>9. CopiedOut' = {} => word'.used = last - tail'
  <2>. SUFFICES ASSUME CopiedOut = {} PROVE word'.used = last - tail'
    BY <1>4
  <2>1. word.used = end - tail
    BY <1>1 DEF Holds, end
  <2>. QED
    BY <1>2, <1>3, <1>5, <1>6, <1>8, <2>1
<1>10. ASSUME NEW r \in CopiedOut'
       PROVE  word'.used = last - tail' + Len(call'[r].msg) + 1 /\ call'[r].msg \in Payloads
  <2>1. r \in CopiedOut /\ r # t /\ r \in Threads
    BY <1>2, <1>4, SideFacts DEF CopiedOut, Threads
  <2>2. word.used = end - tail + Len(call[r].msg) + 1 /\ call[r].msg \in Payloads
    BY <1>1, <2>1 DEF Holds, end
  <2>3. Len(call[r].msg) \in Nat
    BY <2>2, PayloadFacts, QueueAssumption
  <2>4. last = end + n + 1 /\ tail' = tail /\ call'[r] = call[r]
    BY <1>2, <1>8, <2>1
  <2>. DEFINE l == Len(call[r].msg)
  <2>. HIDE DEF last, l
  <2>5. word'.used = word.used + n + 1 /\ word.used = end - tail + l + 1 /\ last = end + n + 1
        /\ end \in Nat /\ tail \in Nat /\ l \in Nat /\ n \in Nat
    BY <1>3, <1>5, <1>6, <2>2, <2>3, <2>4, QueueAssumption DEF l
  <2>6. word'.used = last - tail + l + 1
    BY <2>5
  <2>. QED
    BY <2>2, <2>4, <2>6 DEF l
<1>11. Holds(p, z)'
  <2>1. Stored(ring', p, z) /\ z[1] = tail' /\ head' = Wrap(last)
    BY <1>2, <1>5, <1>8
  <2>. QED
    BY <1>4, <1>8, <1>9, <1>10, <2>1 DEF Holds
<1>12. Contents' = Append(Contents, m)
  <2>1. ContentsAre /\ ContentsAre'
    BY ContentsIs, PTL
  <2>2. CASE CopiedOut = {}
    BY <1>1, <1>4, <1>8, <1>11, <2>1, <2>2 DEF ContentsAre
  <2>3. ASSUME NEW r \in CopiedOut
        PROVE  Contents' = Append(Contents, m)
    <3>1. Contents = <<call[r].msg>> \o q
      BY <1>1, <2>1, <2>3 DEF ContentsAre
    <3>2. Contents' = <<call'[r].msg>> \o p
      BY <1>4, <1>11, <2>1, <2>3 DEF ContentsAre
    <3>3. r # t /\ r \in Threads /\ call'[r] = call[r]
      BY <1>2, SideFacts DEF CopiedOut, Threads
    <3>4. call[r].msg \in Payloads
      BY <1>1 DEF Holds
    <3>. QED
      BY <1>3, <1>5, <1>8, <3>1, <3>2, <3>3, <3>4
  <2>. QED
    BY <2>2, <2>3
<1>13. Fifo!Used(Contents) + n + 1 <= Size
  BY <1>1, <1>3, UsedContents
<1>14. \E k \in Lengths, i \in 1..MaxSends : m = [j \in 1..k |-> <<i, j>>]
  BY <1>3 DEF Payloads
<1>15. Fifo!Next
  <2>1. Fifo!Send(m)
    BY <1>2, <1>12, <1>13 DEF Fifo!Send, n
  <2>. QED
    BY <1>14, <2>1 DEF Fifo!Next
<1>. QED
  BY <1>11, <1>15 DEF RingOK, FifoStep

(* A receiver's commit removes the first message, the one it returns.      *)
LEMMA ConsumeStep ==
  ASSUME Types, Types', LocksOK, LocksOK', CallsOK, RingOK, NEW t \in Receivers, Consume(t)
  PROVE  RingOK' /\ FifoStep
<1>. DEFINE m == call[t].msg
            n == Len(m)
<1>1. PICK q, s : Holds(q, s)
  BY DEF RingOK
<1>. DEFINE end == s[Len(q) + 1]
<1>2. /\ t \in Threads /\ pc[t] = "commit"
      /\ \E l : l # "commit" /\ pc' = [pc EXCEPT ![t] = l]
      /\ \A u \in Threads \ {t} : call'[u] = call[u]
      /\ UNCHANGED <<ring, head, tail>> /\ got' = [got EXCEPT ![t] = m]
      /\ word' = [word EXCEPT !.used = @ - (n + 1)]
  BY DEF Consume, Finish, Leave, Left, Goto, Threads, Types
<1>3. t \in CopiedOut
  BY <1>2 DEF CopiedOut
<1>4. ContentsAre /\ ContentsAre'
  BY ContentsIs, PTL
<1>5. CopiedOut = {t} /\ Contents = <<m>> \o q
  BY <1>1, <1>3, <1>4 DEF ContentsAre
<1>6. CopiedOut' = {} /\ CopiedIn' = CopiedIn /\ \A u \in CopiedIn : call'[u] = call[u]
  <2>1. t \notin Senders
    BY <1>2, SideFacts
  <2>. QED
    BY <1>2, <1>5, <2>1 DEF CopiedIn, CopiedOut, Types, Threads
<1>7. Chain(q, s) /\ Stored(ring, q, s) /\ s[1] = tail /\ tail \in 0..Size - 1 /\ q \in Seq(Payloads)
      /\ word.used = end - tail + n + 1 /\ m \in Payloads
  BY <1>1, <1>3 DEF Holds, Types, Chain
<1>8. n \in Nat /\ end \in Nat
  <2>1. 1 \in 1..Len(q) + 1
    BY <1>7
  <2>. QED
    BY <1>7, <2>1, PayloadFacts, ChainFacts, QueueAssumption
<1>. HIDE DEF m, n, end
<1>9. word'.used = end - tail'
  <2>1. word'.used = word.used - (n + 1)
    BY <1>2 DEF Types, Word
  <2>2. tail' = tail /\ tail \in Nat
    BY <1>2, <1>7, QueueAssumption
  <2>3. (end - tail + n + 1) - (n + 1) = end - tail
    BY <1>8, <2>2
  <2>4. word'.used = (end - tail + n + 1) - (n + 1)
    BY <1>7, <2>1, Zenon
  <2>. QED
    BY <2>2, <2>3, <2>4, Zenon
<1>10. Holds(q, s)'
  <2>1. Stored(ring', q, s) /\ s[1] = tail'
    BY <1>2, <1>7
  <2>2. CopiedIn' = {} => head' = Wrap(end)
    BY <1>1, <1>2, <1>6 DEF Holds, end
  <2>3. \A u \in CopiedIn' : /\ head' = Wrap(end + Len(call'[u].msg) + 1)
                             /\ Lay(ring', call'[u].msg, end)
    BY <1>1, <1>2, <1>6 DEF Holds, end
  <2>. QED
    BY <1>6, <1>7, <1>9, <2>1, <2>2, <2>3 DEF Holds, end
<1>11. Contents' = q
  BY <1>4, <1>6, <1>10 DEF ContentsAre
<1>12. Contents # <<>> /\ Head(Contents) = m /\ Tail(Contents) = q
  BY <1>5, <1>7
<1>13. Fifo!Next
  <2>1. Fifo!Receive(t)
    BY <1>2, <1>11, <1>12 DEF Fifo!Receive
  <2>. QED
    BY <2>1 DEF Fifo!Next
<1>. QED
  BY <1>10, <1>13 DEF RingOK, FifoStep

(* Every step keeps the ring in order and is a step of the FIFO or leaves  *)
(* the FIFO's variables alone.                                             *)
LEMMA RingStep ==
  ASSUME IInv, Types', LocksOK', Next
  PROVE  RingOK' /\ FifoStep
<1>. USE DEF IInv, shared
<1>a. ASSUME NEW t \in Threads, NEW l, l # "commit", pc[t] # "commit",
             pc' = [pc EXCEPT ![t] = l], \A u \in Threads \ {t} : call'[u] = call[u],
             UNCHANGED <<ring, head, tail, got>>, word'.used = word.used
      PROVE  RingOK' /\ FifoStep
  <2>1. \A u \in Threads : /\ pc'[u] = "commit" <=> pc[u] = "commit"
                           /\ pc[u] = "commit" => call'[u].msg = call[u].msg
    BY <1>a DEF Types
  <2>. QED
    BY <1>a, <2>1, QuietStep
<1>1. ASSUME NEW t \in Threads, NEW w, NEW m, Begin(t, w, m), UNCHANGED <<shared, got>>
      PROVE  RingOK' /\ FifoStep
  <2>1. PICK l \in {"check", "lock"} : pc' = [pc EXCEPT ![t] = l]
    BY <1>1 DEF Begin, Goto
  <2>2. pc[t] # "commit" /\ \A u \in Threads \ {t} : call'[u] = call[u]
    BY <1>1 DEF Begin, Goto, Types
  <2>. QED
    BY <1>a, <1>1, <2>1, <2>2
<1>2. ASSUME NEW s \in Senders, NEW n \in Lengths, NEW w \in Waits, SendCall(s, n, w)
      PROVE  RingOK' /\ FifoStep
  <2>1. s \in Threads /\ UNCHANGED <<shared, got>>
    BY <1>2 DEF SendCall, Threads
  <2>. QED
    BY <1>1, <1>2, <2>1 DEF SendCall
<1>3. ASSUME NEW r \in Receivers, NEW w \in Waits, ReceiveCall(r, w)
      PROVE  RingOK' /\ FifoStep
  <2>1. r \in Threads /\ UNCHANGED <<shared, got>>
    BY <1>3 DEF ReceiveCall, Threads
  <2>. QED
    BY <1>1, <1>3, <2>1 DEF ReceiveCall
<1>4. ASSUME NEW t \in Threads, Lock(t) \/ Relock(t) \/ Release(t) \/ Unlock(t)
      PROVE  RingOK' /\ FifoStep
  <2>1. PICK l : l # "commit" /\ pc' = [pc EXCEPT ![t] = l]
    BY <1>4 DEF Lock, Relock, Release, Unlock, Goto
  <2>2. UNCHANGED <<shared, call, got>> /\ pc[t] # "commit"
    BY <1>4 DEF Lock, Relock, Release, Unlock, Goto
  <2>. QED
    BY <1>a, <2>1, <2>2
<1>5. ASSUME NEW t \in Threads, Check(t) \/ Reload(t)
      PROVE  RingOK' /\ FifoStep
  <2>1. PICK l : l # "commit" /\ pc' = [pc EXCEPT ![t] = l]
    BY <1>5 DEF Check, Reload, Leave, Left, Goto
  <2>2. UNCHANGED <<shared, got>> /\ pc[t] # "commit" /\ \A u \in Threads \ {t} : call'[u] = call[u]
    BY <1>5 DEF Check, Reload, Leave, Goto, Types
  <2>. QED
    BY <1>a, <2>1, <2>2
<1>6. ASSUME NEW t \in Threads, Mark(t)
      PROVE  RingOK' /\ FifoStep
  <2>1. PICK l : l # "commit" /\ pc' = [pc EXCEPT ![t] = l]
    BY <1>6 DEF Mark, Goto
  <2>2. UNCHANGED <<ring, head, tail, call, got>> /\ pc[t] # "commit"
    BY <1>6 DEF Mark, Goto
  <2>3. word'.used = word.used
    <3>1. word' = word \/ word' = [word EXCEPT ![MyFlag(t)] = 1]
      BY <1>6 DEF Mark, Flagged
    <3>. QED
      BY <3>1 DEF Types, Word, MyFlag
  <2>. QED
    BY <1>a, <2>1, <2>2, <2>3
<1>7. ASSUME NEW t \in Threads, FutexWait(t) \/ Interrupted(t) \/ TimesOut(t)
      PROVE  RingOK' /\ FifoStep
  <2>1. PICK l : l # "commit" /\ pc' = [pc EXCEPT ![t] = l]
    BY <1>7 DEF FutexWait, Interrupted, TimesOut, AfterWait, Goto
  <2>2. UNCHANGED <<shared, got>> /\ pc[t] # "commit" /\ \A u \in Threads \ {t} : call'[u] = call[u]
    BY <1>7 DEF FutexWait, Interrupted, TimesOut, CheckClock, Goto, Types
  <2>. QED
    BY <1>a, <2>1, <2>2
<1>8. ASSUME NEW t \in Threads, Clear(t)
      PROVE  RingOK' /\ FifoStep
  <2>1. pc' = [pc EXCEPT ![t] = "signal"] /\ UNCHANGED <<ring, head, tail, call, got>> /\ pc[t] # "commit"
        /\ word' = [word EXCEPT ![PeerFlag(t)] = @ - 1]
    BY <1>8 DEF Clear, Goto
  <2>2. word'.used = word.used
    BY <2>1 DEF Types, Word, PeerFlag
  <2>. QED
    BY <1>a, <2>1, <2>2
<1>9. ASSUME NEW t \in Threads, Signal(t)
      PROVE  RingOK' /\ FifoStep
  <2>1. UNCHANGED <<ring, head, tail, got>> /\ word'.used = word.used
    BY <1>9 DEF Signal
  <2>2. CASE pc' = Left(t) /\ call' = [call EXCEPT ![t] = NoCall]
    <3>1. PICK l \in {"idle", "unlock"} : pc' = [pc EXCEPT ![t] = l]
      BY <2>2 DEF Left
    <3>2. pc[t] # "commit" /\ \A u \in Threads \ {t} : call'[u] = call[u]
      BY <1>9, <2>2 DEF Signal, Types
    <3>. QED
      BY <1>a, <2>1, <3>1, <3>2
  <2>3. ASSUME NEW u \in Asleep, NEW late, pc[t] = "signal",
               pc' = [Left(t) EXCEPT ![u] = AfterWait(u)],
               call' = [call EXCEPT ![t] = NoCall, ![u].expired = late]
        PROVE  RingOK' /\ FifoStep
    <3>1. u \in Threads /\ pc[u] = "asleep"
      BY DEF Asleep
    <3>2. \A v \in Threads : /\ pc'[v] = "commit" <=> pc[v] = "commit"
                             /\ pc[v] = "commit" => call'[v].msg = call[v].msg
      BY <2>3, <3>1 DEF Types, Left, AfterWait
    <3>. QED
      BY <2>1, <3>2, QuietStep
  <2>. QED
    BY <1>9, <2>2, <2>3 DEF Signal
<1>. QED
  BY <1>2, <1>3, <1>4, <1>5, <1>6, <1>7, <1>8, <1>9, CopyInStep, CopyOutStep, PublishStep, ConsumeStep
     DEF Next, Send, Receive, Common, Threads

-----------------------------------------------------------------------------
(* The theorems.                                                           *)

(* The empty queue.                                                        *)
LEMMA InitInv == Init => IInv /\ Fifo!Init
<1>. SUFFICES ASSUME Init PROVE IInv /\ Fifo!Init
  OBVIOUS
<1>. USE DEF Init
<1>1. Types
  <2>1. call \in [Threads -> Calls]
    BY NewCalls
  <2>2. ring \in [0..Size-1 -> Words]
    BY QueueAssumption DEF Words
  <2>3. word \in Word
    BY QueueAssumption DEF NoCall, Word
  <2>4. pc \in [Threads -> Locations]
    BY DEF Locations
  <2>5. got \in [Receivers -> Seq(Words)] /\ lock \in [{"head", "tail"} -> SUBSET Threads]
    OBVIOUS
  <2>6. head \in 0..Size-1 /\ tail \in 0..Size-1 /\ sends \in 0..MaxSends
    BY QueueAssumption
  <2>. HIDE DEF Init
  <2>. QED
    BY <2>1, <2>2, <2>3, <2>4, <2>5, <2>6 DEF Types
<1>2. LocksOK
  BY DEF LocksOK, Inside, Locking
<1>3. CallsOK
  BY QueueAssumption DEF CallsOK, CallOK, NoCall
<1>. DEFINE s == [k \in 1..1 |-> 0]
<1>4. Holds(<<>>, s)
  <2>1. Chain(<<>>, s)
    BY QueueAssumption DEF Chain
  <2>2. CopiedIn = {} /\ CopiedOut = {}
    BY DEF CopiedIn, CopiedOut, Threads
  <2>3. Stored(ring, <<>>, s)
    BY DEF Stored
  <2>. QED
    BY <2>1, <2>2, <2>3, QueueAssumption DEF Holds, NoCall, Wrap
<1>5. Contents = <<>>
  <2>1. CopiedOut = {}
    BY DEF CopiedOut, Threads
  <2>. QED
    BY <1>1, <1>2, <1>4, <2>1, ContentsIs DEF ContentsAre
<1>. QED
  BY <1>1, <1>2, <1>3, <1>4, <1>5 DEF IInv, RingOK, Fifo!Init

(* The invariant is inductive; under it every step is one of the FIFO.     *)
LEMMA StepInv == IInv /\ [Next]_vars => IInv' /\ FifoStep
<1>1. ASSUME IInv, Next PROVE IInv' /\ FifoStep
  <2>1. Types'
    BY <1>1, TypesStep
  <2>2. LocksOK'
    BY <1>1, LocksStep DEF IInv
  <2>3. CallsOK'
    BY <1>1, <2>1, CallsStep
  <2>4. RingOK' /\ FifoStep
    BY <1>1, <2>1, <2>2, RingStep
  <2>. QED
    BY <2>1, <2>2, <2>3, <2>4 DEF IInv
<1>2. ASSUME IInv, UNCHANGED vars PROVE IInv' /\ FifoStep
  <2>1. Types' /\ LocksOK' /\ CallsOK'
    BY <1>2 DEF IInv, vars, shared, Types, LocksOK, CallsOK, Side, Single
  <2>2. RingOK' /\ FifoStep
    <3>1. \A u \in Threads : /\ pc'[u] = "commit" <=> pc[u] = "commit"
                             /\ pc[u] = "commit" => call'[u].msg = call[u].msg
      BY <1>2 DEF vars
    <3>2. UNCHANGED <<ring, head, tail, got>> /\ word'.used = word.used
      BY <1>2 DEF vars, shared
    <3>. QED
      BY <1>2, <2>1, <3>1, <3>2, QuietStep DEF IInv
  <2>. QED
    BY <2>1, <2>2 DEF IInv
<1>. QED
  BY <1>1, <1>2

(* The invariant of the queue: types, mutual exclusion on each side, what  *)
(* a call in progress has found out, and the messages in the ring.         *)
THEOREM Invariance == Spec => []IInv
BY InitInv, StepInv, PTL DEF Spec

(* Every variable keeps its type; the used words never exceed the ring     *)
(* (queue_msg_send and queue_msg_receive).                                 *)
THEOREM TypeCorrect == Spec => []TypeOK
<1>1. IInv => TypeOK
  <2>. SUFFICES ASSUME IInv PROVE TypeOK
    OBVIOUS
  <2>1. Types /\ CallsOK
    BY DEF IInv
  <2>2. \A i \in 0..Size-1 : ring[i] \in (0..MaxSends) \X (0..Size)
    BY <2>1 DEF Types, Words
  <2>3. ASSUME NEW t \in Threads
        PROVE  /\ call[t].mode \in Waits \cup {"none"}
               /\ call[t].cur \in Word
               /\ call[t].retries \in 0..RETRY_COUNT + 1
               /\ call[t].expired \in BOOLEAN
               /\ Len(call[t].msg) < Size
    <3>1. call[t] \in Calls
      BY <2>1 DEF Types
    <3>2. Len(call[t].msg) < Size
      BY <2>1 DEF CallsOK, CallOK
    <3>. QED
      BY <3>1, <3>2 DEF Calls
  <2>. QED
    BY <2>1, <2>2, <2>3 DEF TypeOK, Types
<1>. QED
  BY <1>1, Invariance, PTL

(* queue_msg_send and queue_msg_receive implement a bounded FIFO, for any  *)
(* number of threads per side that is opened for several, any size of the  *)
(* buffer and any message lengths: no message is lost, duplicated,         *)
(* reordered, torn at the wrap-around or overwritten before it is read.    *)
THEOREM Refinement == Spec => ImplementsFifo
<1>1. IInv /\ [Next]_vars => [Fifo!Next]_<<Contents, got>>
  BY StepInv DEF FifoStep
<1>. QED
  BY <1>1, InitInv, Invariance, PTL DEF Spec, ImplementsFifo, Fifo!Spec

-----------------------------------------------------------------------------
(* Wake-ups, on a queue with one thread per side.                          *)
OnePerSide == /\ \A s, t \in Senders : s = t
              /\ \A r, t \in Receivers : r = t

Peers(t) == {u \in Threads : Side(u) # Side(t)}

(* A sleeper's flag is up until its peer is about to wake it, and while it *)
(* is up the condition is false or the peer is about to take it down.      *)
Watched(t) ==
  \/ \E u \in Peers(t) : pc[u] = "signal"
  \/ /\ word[MyFlag(t)] = 1
     /\ ~Ready(t, word) \/ \E u \in Peers(t) : pc[u] = "clear"

SleepersWatched == \A t \in Threads : pc[t] = "asleep" => Watched(t)

(* With one thread per side the two threads of the queue are each other's  *)
(* peers, and each raises the flag that the other looks at.                *)
LEMMA PeersOne ==
  ASSUME OnePerSide, NEW a \in Threads, NEW t \in Threads, a # t
  PROVE  /\ Peers(t) = {a} /\ PeerFlag(a) = MyFlag(t)
         /\ t \in Senders <=> a \notin Senders
         /\ \A u \in Threads : u = a \/ u = t
BY SideFacts DEF OnePerSide, Peers, PeerFlag, MyFlag, Threads, Side

(* A step of the peer that neither touches the sleeper nor the word.       *)
LEMMA WatchedStays ==
  ASSUME Types, NEW a \in Threads, NEW t \in Threads, Peers(t) = {a}, Watched(t),
         pc[a] \notin {"signal", "clear"}, word'.used = word.used,
         word[MyFlag(t)] = 1 => word'[MyFlag(t)] = 1, call'[t] = call[t]
  PROVE  Watched(t)'
<1>1. word[MyFlag(t)] = 1 /\ ~Fits(t, call[t], word)
  BY ReadyFits DEF Watched
<1>2. ~Fits(t, call'[t], word')
  BY <1>1 DEF Fits
<1>3. ~Ready(t, word)'
  BY <1>2 DEF Fits, Ready
<1>. QED
  BY <1>1, <1>3 DEF Watched, MyFlag

(* A thread goes to sleep under its raised flag with its condition false;  *)
(* it stays false until the peer commits, and the commit that makes it     *)
(* true sees the flag.                                                     *)
LEMMA WatchedStep ==
  ASSUME OnePerSide, IInv, Types', SleepersWatched, Next
  PROVE  SleepersWatched'
<1>. USE DEF IInv, shared
<1>. SUFFICES ASSUME NEW t \in Threads, pc'[t] = "asleep"
              PROVE  Watched(t)'
  BY DEF SleepersWatched
<1>0. Types
  OBVIOUS
<1>a. ASSUME NEW a \in Threads, a # t, NEW l, pc' = [pc EXCEPT ![a] = l],
             pc[a] \notin {"signal", "clear"}, word'.used = word.used,
             word[MyFlag(t)] = 1 => word'[MyFlag(t)] = 1, call'[t] = call[t]
      PROVE  Watched(t)'
  <2>1. pc[t] = "asleep" /\ Watched(t)
    BY <1>a DEF Types, SleepersWatched
  <2>. QED
    BY <1>0, <1>a, <2>1, PeersOne, WatchedStays
<1>b. ASSUME NEW a \in Threads, NEW l, l # "asleep", pc' = [pc EXCEPT ![a] = l],
             pc[a] \notin {"signal", "clear"}, word'.used = word.used,
             word[MyFlag(t)] = 1 => word'[MyFlag(t)] = 1,
             \A u \in Threads \ {a} : call'[u] = call[u]
      PROVE  Watched(t)'
  <2>1. a # t
    BY <1>b DEF Types
  <2>. QED
    BY <1>a, <1>b, <2>1
<1>1. ASSUME NEW a \in Threads, NEW w, NEW m, Begin(a, w, m), UNCHANGED shared
      PROVE  Watched(t)'
  <2>1. PICK l \in {"check", "lock"} : pc' = [pc EXCEPT ![a] = l]
    BY <1>1 DEF Begin, Goto
  <2>2. pc[a] = "idle" /\ \A u \in Threads \ {a} : call'[u] = call[u]
    BY <1>1 DEF Begin, Goto, Types
  <2>. QED
    BY <1>b, <1>1, <2>1, <2>2
<1>2. ASSUME NEW s \in Senders, NEW n \in Lengths, NEW w \in Waits, SendCall(s, n, w)
      PROVE  Watched(t)'
  <2>1. s \in Threads /\ UNCHANGED shared
    BY <1>2 DEF SendCall, Threads
  <2>. QED
    BY <1>1, <1>2, <2>1 DEF SendCall
<1>3. ASSUME NEW r \in Receivers, NEW w \in Waits, ReceiveCall(r, w)
      PROVE  Watched(t)'
  <2>1. r \in Threads /\ UNCHANGED shared
    BY <1>3 DEF ReceiveCall, Threads
  <2>. QED
    BY <1>1, <1>3, <2>1 DEF ReceiveCall
<1>4. ASSUME NEW a \in Threads, Lock(a) \/ Relock(a) \/ Release(a) \/ Unlock(a)
      PROVE  Watched(t)'
  <2>1. PICK l : l # "asleep" /\ pc' = [pc EXCEPT ![a] = l]
    BY <1>4 DEF Lock, Relock, Release, Unlock, Goto
  <2>2. UNCHANGED <<shared, call>> /\ pc[a] \notin {"signal", "clear"}
    BY <1>4 DEF Lock, Relock, Release, Unlock, Goto
  <2>. QED
    BY <1>b, <2>1, <2>2
<1>5. ASSUME NEW a \in Threads, Check(a) \/ Reload(a)
      PROVE  Watched(t)'
  <2>1. PICK l : l # "asleep" /\ pc' = [pc EXCEPT ![a] = l]
    BY <1>5 DEF Check, Reload, Leave, Left, Goto
  <2>2. UNCHANGED shared /\ pc[a] \notin {"signal", "clear"}
        /\ \A u \in Threads \ {a} : call'[u] = call[u]
    BY <1>5 DEF Check, Reload, Leave, Goto, Types
  <2>. QED
    BY <1>b, <2>1, <2>2
<1>6. ASSUME NEW a \in Threads, Mark(a)
      PROVE  Watched(t)'
  <2>1. PICK l : l # "asleep" /\ pc' = [pc EXCEPT ![a] = l]
    BY <1>6 DEF Mark, Goto
  <2>2. UNCHANGED call /\ pc[a] = "mark"
    BY <1>6 DEF Mark, Goto
  <2>3. word' = word \/ word' = [word EXCEPT ![MyFlag(a)] = 1]
    BY <1>6 DEF Mark, Flagged
  <2>4. word'.used = word.used /\ (word[MyFlag(t)] = 1 => word'[MyFlag(t)] = 1)
    BY <2>3 DEF Types, Word, MyFlag
  <2>. QED
    BY <1>b, <2>1, <2>2, <2>4
<1>7. ASSUME NEW a \in Threads, FutexWait(a)
      PROVE  Watched(t)'
  <2>1. CASE a = t
    <3>1. word = Flagged(t) /\ pc[t] = "fwait" /\ UNCHANGED <<word, call>>
      BY <1>7, <2>1 DEF FutexWait, Goto, AfterWait, Types
    <3>2. ~Fits(t, call[t], call[t].cur) /\ call[t].cur \in Word
      BY <1>0, <3>1, CallsTypes DEF CallsOK, CallOK, Calls
    <3>3. word.used = call[t].cur.used /\ word[MyFlag(t)] = 1
      BY <3>1, <3>2 DEF Flagged, MyFlag, Word
    <3>4. ~Fits(t, call'[t], word')
      BY <3>1, <3>2, <3>3 DEF Fits
    <3>5. ~Ready(t, word)'
      BY <3>4 DEF Fits, Ready
    <3>. QED
      BY <3>1, <3>3, <3>5 DEF Watched, MyFlag
  <2>2. CASE a # t
    <3>1. PICK l : pc' = [pc EXCEPT ![a] = l]
      BY <1>7 DEF FutexWait, Goto
    <3>2. UNCHANGED shared /\ pc[a] = "fwait" /\ call'[t] = call[t]
      BY <1>7, <2>2 DEF FutexWait, CheckClock, Goto, Types
    <3>. QED
      BY <1>a, <2>2, <3>1, <3>2
  <2>. QED
    BY <2>1, <2>2
<1>8. ASSUME NEW a \in Threads, Interrupted(a) \/ TimesOut(a)
      PROVE  Watched(t)'
  <2>1. PICK l : l # "asleep" /\ pc' = [pc EXCEPT ![a] = l]
    BY <1>8 DEF Interrupted, TimesOut, AfterWait, Goto
  <2>2. UNCHANGED shared /\ pc[a] = "asleep" /\ \A u \in Threads \ {a} : call'[u] = call[u]
    BY <1>8 DEF Interrupted, TimesOut, CheckClock, Goto, Types
  <2>. QED
    BY <1>b, <2>1, <2>2
<1>9. ASSUME NEW a \in Threads, CopyIn(a) \/ CopyOut(a)
      PROVE  Watched(t)'
  <2>1. pc' = [pc EXCEPT ![a] = "commit"] /\ pc[a] = "copy" /\ UNCHANGED word
    BY <1>9 DEF CopyIn, CopyOut, Goto
  <2>2. \A u \in Threads \ {a} : call'[u] = call[u]
    BY <1>9 DEF CopyIn, CopyOut, Types
  <2>. QED
    BY <1>b, <2>1, <2>2
(* The message that makes the condition true also finds the flag up.       *)
<1>10. ASSUME NEW a \in Threads, (a \in Senders /\ Publish(a)) \/ (a \in Receivers /\ Consume(a))
       PROVE  Watched(t)'
  <2>1. pc[a] = "commit"
    BY <1>10 DEF Publish, Consume, Finish, Leave, Goto
  <2>2. word'.s = word.s /\ word'.r = word.r
    BY <1>10 DEF Publish, Consume, Types, Word
  <2>3. a # t
    BY <1>10 DEF Publish, Consume, Finish, Leave, Left, Goto, Types
  <2>4. pc[t] = "asleep"
    BY <1>10, <2>3 DEF Publish, Consume, Finish, Leave, Left, Goto, Types
  <2>5. Peers(t) = {a} /\ PeerFlag(a) = MyFlag(t)
    BY <2>3, PeersOne
  <2>6. word[PeerFlag(a)] = 1
    BY <2>1, <2>4, <2>5 DEF SleepersWatched, Watched
  <2>7. pc'[a] = "clear"
    BY <1>10, <2>6, SideFacts DEF Publish, Consume, Finish, Goto, PeerFlag, Types
  <2>8. word'[MyFlag(t)] = 1
    BY <2>2, <2>5, <2>6 DEF MyFlag
  <2>. QED
    BY <2>5, <2>7, <2>8 DEF Watched, Peers, MyFlag, Side
<1>11. ASSUME NEW a \in Threads, Clear(a)
       PROVE  Watched(t)'
  <2>1. pc' = [pc EXCEPT ![a] = "signal"]
    BY <1>11 DEF Clear, Goto
  <2>2. a # t /\ pc'[a] = "signal"
    BY <2>1 DEF Types
  <2>3. Peers(t) = {a}
    BY <2>2, PeersOne
  <2>. QED
    BY <2>2, <2>3 DEF Watched, Peers, Side
(* Of the two threads of the queue one signals: it wakes the other.        *)
<1>12. ASSUME NEW a \in Threads, Signal(a)
       PROVE  FALSE
  <2>1. pc[a] = "signal" /\ a # t /\ pc[t] = "asleep"
    BY <1>12 DEF Signal, Left, Asleep, AfterWait, Types
  <2>2. Asleep = {t}
    BY <2>1, PeersOne DEF Asleep
  <2>. QED
    BY <1>12, <2>2 DEF Signal, Left, AfterWait, Types
<1>13. ASSUME NEW s \in Senders, Publish(s) PROVE Watched(t)'
  <2>1. s \in Threads
    BY DEF Threads
  <2>. QED
    BY <1>10, <1>13, <2>1
<1>14. ASSUME NEW r \in Receivers, Consume(r) PROVE Watched(t)'
  <2>1. r \in Threads
    BY DEF Threads
  <2>. QED
    BY <1>10, <1>14, <2>1
<1>. QED
  BY <1>2, <1>3, <1>4, <1>5, <1>6, <1>7, <1>8, <1>9, <1>11, <1>12, <1>13, <1>14
     DEF Next, Send, Receive, Common, Threads

(* With one thread per side, no thread sleeps with its condition true      *)
(* unless its peer is about to wake it: the flag in the state word and the *)
(* futex's comparison with the word leave no window between the last look  *)
(* and the sleep.                                                          *)
THEOREM NoLostWakeUp == OnePerSide => (Spec => []SleeperIsWoken)
<1>. SUFFICES ASSUME OnePerSide PROVE Spec => []SleeperIsWoken
  OBVIOUS
<1>1. Init => SleepersWatched
  BY DEF Init, SleepersWatched
<1>2. IInv /\ IInv' /\ SleepersWatched /\ [Next]_vars => SleepersWatched'
  <2>1. ASSUME IInv, IInv', SleepersWatched, Next PROVE SleepersWatched'
    BY <2>1, WatchedStep DEF IInv
  <2>2. ASSUME SleepersWatched, UNCHANGED vars PROVE SleepersWatched'
    BY <2>2 DEF SleepersWatched, Watched, Peers, Side, MyFlag, Ready, vars, shared
  <2>. QED
    BY <2>1, <2>2
<1>3. SleepersWatched => SleeperIsWoken
  BY DEF SleepersWatched, Watched, Peers, SleeperIsWoken, Stuck
<1>. QED
  BY <1>1, <1>2, <1>3, Invariance, PTL DEF Spec
=============================================================================
