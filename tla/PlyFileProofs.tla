---------------------------- MODULE PlyFileProofs ----------------------------
(***************************************************************************)
(* Proofs about the buffered files, for buffers, blocks and entries of any *)
(* size and any number of entries.  The invariant is that there are        *)
(* entries which the file holds wherever no buffer has a newer version,    *)
(* and which the buffers hold where they lie in the file.  What one thread *)
(* does to the file can then disturb neither what the other has in its     *)
(* buffer nor what is still to be read.  Quotients and remainders are only *)
(* used in the lemmas on sizes: what follows calls them by name.           *)
(***************************************************************************)
EXTENDS PlyFile, SequenceTheorems, TLAPS

-----------------------------------------------------------------------------
(* Multiples and quotients.                                                *)

LEMMA DivUnique ==
  ASSUME NEW e \in Nat \ {0}, NEW q \in Int, NEW r \in 0..e - 1
  PROVE  (q * e + r) \div e = q /\ (q * e + r) % e = r
OBVIOUS

LEMMA DivMod ==
  ASSUME NEW e \in Nat \ {0}, NEW a \in Int
  PROVE  a \div e \in Int /\ a % e \in 0..e - 1 /\ a = (a \div e) * e + (a % e)
OBVIOUS

LEMMA DivNat ==
  ASSUME NEW e \in Nat \ {0}, NEW a \in Nat
  PROVE  a \div e \in Nat /\ (a \div e) * e <= a /\ a < (a \div e) * e + e
<1>1. a \div e \in Int /\ a % e \in 0..e - 1 /\ a = (a \div e) * e + (a % e)
  BY DivMod
<1>2. a \div e >= 0
  OBVIOUS
<1>. QED
  BY <1>1, <1>2

LEMMA Whole ==
  ASSUME NEW e \in Nat \ {0}, NEW q \in Int
  PROVE  q * e \in Int /\ (q * e) % e = 0 /\ (q * e) \div e = q
<1>1. (q * e + 0) \div e = q /\ (q * e + 0) % e = 0
  BY DivUnique
<1>2. q * e \in Int
  OBVIOUS
<1>. QED
  BY <1>1, <1>2

LEMMA TimesOrder ==
  ASSUME NEW e \in Nat \ {0}, NEW p \in Int, NEW q \in Int
  PROVE  /\ p * e \in Int
         /\ p <= q <=> p * e <= q * e
         /\ p < q <=> p * e < q * e
         /\ p < q <=> p * e + e <= q * e
         /\ (p + q) * e = p * e + q * e
         /\ (p - q) * e = p * e - q * e
         /\ (p + 1) * e = p * e + e
OBVIOUS

LEMMA Multiples ==
  ASSUME NEW e \in Nat \ {0}, NEW a \in Int, NEW b \in Int, a % e = 0, b % e = 0
  PROVE  /\ (a + b) % e = 0 /\ (a - b) % e = 0
         /\ (a + b) \div e = a \div e + b \div e
         /\ a < b => a + e <= b
<1>1. /\ a \div e \in Int /\ a = (a \div e) * e
      /\ b \div e \in Int /\ b = (b \div e) * e
  BY DivMod
<1>. DEFINE p == a \div e
            q == b \div e
<1>. HIDE DEF p, q
<1>2. p \in Int /\ q \in Int /\ a = p * e /\ b = q * e
  BY <1>1 DEF p, q
<1>3. a + b = (p + q) * e /\ a - b = (p - q) * e /\ (a < b => a + e <= b)
  BY <1>2, TimesOrder
<1>4. (a + b) % e = 0 /\ (a - b) % e = 0 /\ (a + b) \div e = p + q
  BY <1>2, <1>3, Whole
<1>. QED
  BY <1>3, <1>4 DEF p, q

LEMMA Within ==
  ASSUME NEW e \in Nat \ {0}, NEW a \in Int, a % e = 0, NEW r \in 0..e - 1
  PROVE  a \div e \in Int /\ a = (a \div e) * e /\ (a + r) \div e = a \div e
<1>1. a \div e \in Int /\ a = (a \div e) * e
  BY DivMod
<1>. QED
  BY <1>1, DivUnique

LEMMA SameDiv ==
  ASSUME NEW e \in Nat \ {0}, NEW a \in Nat, NEW q \in Nat
  PROVE  /\ a \div e = q <=> q * e <= a /\ a < q * e + e
         /\ a \div e < q <=> a < q * e
<1>1. a \div e \in Nat /\ (a \div e) * e <= a /\ a < (a \div e) * e + e
  BY DivNat
<1>. DEFINE p == a \div e
<1>. HIDE DEF p
<1>2. p < q <=> p * e + e <= q * e
  BY <1>1, TimesOrder DEF p
<1>3. q < p <=> q * e + e <= p * e
  BY <1>1, TimesOrder DEF p
<1>4. q * e \in Int /\ p * e \in Int
  BY <1>1, TimesOrder DEF p
<1>5. p * e <= a /\ a < p * e + e /\ p \in Nat
  BY <1>1 DEF p
<1>6. p < q \/ p = q \/ q < p
  BY <1>5
<1>7. /\ p = q <=> q * e <= a /\ a < q * e + e
      /\ p < q <=> a < q * e
  BY <1>2, <1>3, <1>4, <1>5, <1>6
<1>. QED
  BY <1>7 DEF p

LEMMA RoundUp ==
  ASSUME NEW e \in Nat \ {0}, NEW n \in Nat, NEW r, r = ((n + e - 1) \div e) * e
  PROVE  /\ r \in Nat /\ n <= r /\ r % e = 0
         /\ n % e = 0 => r = n
         /\ \A m \in Nat : m % e = 0 /\ n <= m => r <= m
<1>. DEFINE q == (n + e - 1) \div e
<1>1. q \in Nat /\ q * e <= n + e - 1 /\ n + e - 1 < q * e + e
  BY DivNat, n + e - 1 \in Nat
<1>2. r = q * e
  OBVIOUS
<1>. HIDE DEF q
<1>3. r \in Nat /\ n <= r /\ r % e = 0 /\ r <= n + e - 1
  <2>1. q * e \in Int /\ (q * e) % e = 0
    BY <1>1, Whole
  <2>. QED
    BY <1>1, <1>2, <2>1
<1>4. ASSUME NEW m \in Nat, m % e = 0, n <= m
      PROVE  r <= m
  <2>1. ASSUME m < r PROVE FALSE
    <3>1. m \in Int /\ r \in Int /\ m % e = 0 /\ r % e = 0 /\ m < r
      BY <1>3, <1>4, <2>1
    <3>2. m + e <= r
      BY <3>1, Multiples
    <3>. QED
      BY <1>3, <1>4, <3>2
  <2>. QED
    BY <1>3, <1>4, <2>1
<1>5. ASSUME n % e = 0 PROVE r = n
  <2>1. r <= n
    BY <1>4, <1>5, n <= n
  <2>. QED
    BY <1>3, <2>1
<1>. QED
  BY <1>3, <1>4, <1>5
-----------------------------------------------------------------------------
(* The inductive invariant.                                                *)

EntryOf(k) == (k - 1) \div Entry + 1       \* the entry byte k of a file belongs to

EntriesIn(n) == n \div Entry
InEntries(n) == n % Entry = 0
InBlocks(n) == n % Block = 0

N == EntriesIn(total)                      \* the entries given to a thread

Background == 1 - use

Closing == main \in {"finish", "closed", "first", "ready", "got", "end", "leaving"}

(* The entries are numbers, some of them perhaps updated.                  *)
Entries(c) == c \in [1..N -> Int] /\ \A e \in 1..N : c[e] \in {e, -e}

(* What the writer has in the file and in its buffers is a stretch of the  *)
(* entries from the first on.                                              *)
Reached == Len(file) + IF writer.running THEN writer.size - writer.done ELSE 0

Numbered(k) == IF k <= total THEN EntryOf(k) ELSE 0

WriterState ==
  /\ W!TypeOK /\ R!Unopened /\ passes = 0 /\ InWriter
  /\ InEntries(total) /\ W!Written <= MaxEntries
  /\ main = "fill" => num < WriteEntries
  /\ main = "full" => num = WriteEntries
  /\ main = "finish" => Reached >= total
  /\ main # "finish" => Reached = total
  /\ writer.running => writer.done < writer.size /\ (main # "finish" => writer.buffer # wuse)

WriterBytes ==
  /\ \A k \in 1..Len(file) : file[k] = Numbered(k)
  /\ writer.running =>
       \A o \in writer.done..writer.size - 1 :
          wbuffer[writer.buffer][o] = Numbered(Len(file) - writer.done + o + 1)
  /\ main # "finish" =>
       \A o \in 0..num * Entry - 1 : wbuffer[wuse][o] = EntryOf(total + o + 1)

(* The places of the buffers in the file.                                  *)
Tiled ==
  /\ thread = "none" => /\ place[Background] + bytes[Background] = read
                        /\ place[use] + bytes[use] = place[Background]
  /\ thread \in {"start", "write", "truncate", "seek"} =>
                        /\ place[use] + bytes[use] = read
                        /\ place[Background] + bytes[Background] = place[use]
  /\ thread = "read" => place[Background] = read /\ place[use] + bytes[use] = read

(* What a buffer holds of the file.                                        *)
Filled(b) == IF b = Background /\ thread = "read" THEN done ELSE bytes[b]

Reader ==
  /\ Tiled
  /\ size = total /\ passes \in 1..2 /\ update = (passes = 1)
  /\ InEntries(read) /\ \A b \in {0, 1} : InEntries(place[b])
  /\ \A b \in {0, 1} : InBlocks(Filled(b)) \/ place[b] + Filled(b) = size
  /\ thread = "read" => done < R!BufferBytes /\ read + done <= size /\ InBlocks(done)
  /\ thread = "write" => done < R!Rounded(bytes[Background])
  /\ thread \in {"none", "start"} => done = 0 /\ offset = read
  /\ thread = "write" => offset = place[Background] + done
  /\ thread = "read" => offset = read + done
  /\ thread = "none" => bytes[Background] = R!BufferBytes \/ read = size
  /\ main = "first" => place[use] = 0 /\ bytes[use] = 0 /\ position = 0 /\ max = 0
  /\ main \in {"ready", "got"} => position <= max /\ max = EntriesIn(bytes[use])
  /\ main = "got" => position > 0

ReaderState ==
  /\ R!TypeOK
  /\ total \in Nat /\ InEntries(total) /\ N <= MaxEntries /\ passes \in 0..2
  /\ main = "closed" => thread = "none"
  /\ main # "closed" => Reader
  /\ Len(file) >= total
  /\ thread = "write" => Len(file) >= offset
  /\ \/ thread = "truncate"
     \/ thread = "write" /\ ~InBlocks(bytes[Background])
     \/ Len(file) = total

(* Bytes of the file that a buffer may have a newer version of.            *)
Stale(k) ==
  /\ update
  /\ \/ main \in {"ready", "got"} /\ k \in place[use] + 1..place[use] + bytes[use]
     \/ /\ thread \in {"start", "write"}
        /\ k \in place[Background] + done + 1..place[Background] + bytes[Background]

FileHolds(c) ==
  /\ \A k \in 1..Len(file) :
       file[k] \in IF k <= total THEN {EntryOf(k), -EntryOf(k)} ELSE {0}
  /\ \A k \in 1..total : main = "closed" \/ ~Stale(k) => file[k] = c[EntryOf(k)]

BuffersHold(c) ==
  /\ \A b \in {0, 1} : \A o \in 0..Filled(b) - 1 : buffer[b][o] = c[EntryOf(place[b] + o + 1)]
  /\ thread = "write" =>
       \A o \in bytes[Background]..R!Rounded(bytes[Background]) - 1 : buffer[Background][o] = 0

(* What the first pass has not come to is not updated.                     *)
Untouched(c) ==
  /\ passes = 0 \/ (main = "first" /\ passes = 1) => \A e \in 1..N : c[e] = e
  /\ passes = 1 /\ main = "ready" => \A e \in 1..N : e > R!HandedOut => c[e] = e
  /\ passes = 1 /\ main = "got" => \A e \in 1..N : e >= R!HandedOut => c[e] = e

ReaderBytes(c) ==
  /\ Entries(c) /\ FileHolds(c) /\ Untouched(c)
  /\ main # "closed" => BuffersHold(c)

IInv == \/ WriterState /\ WriterBytes
        \/ ~writer.running /\ ReaderState /\ \E c \in [1..N -> Int] : ReaderBytes(c)

-----------------------------------------------------------------------------
(* Sizes.                                                                  *)

LEMMA Positive ==
  /\ Entry \in Nat \ {0} /\ Block \in Nat \ {0} /\ MaxEntries \in Nat
  /\ WriteEntries \in Nat \ {0} /\ ReadEntries \in Nat \ {0}
  /\ W!Junk = MaxEntries + 1 /\ R!Junk = MaxEntries + 1
BY BufferAssumption DEF W!Junk, R!Junk

LEMMA Sizes ==
  /\ W!BufferBytes \in Nat \ {0} /\ InBlocks(W!BufferBytes) /\ InEntries(W!BufferBytes)
  /\ R!BufferBytes \in Nat \ {0} /\ InBlocks(R!BufferBytes) /\ InEntries(R!BufferBytes)
  /\ EntriesIn(R!BufferBytes) = ReadEntries
  /\ W!BufferBytes = WriteEntries * Entry /\ R!BufferBytes = ReadEntries * Entry
<1>1. /\ Entry \in Nat \ {0} /\ Block \in Nat \ {0}
      /\ WriteEntries \in Nat \ {0} /\ ReadEntries \in Nat \ {0}
      /\ WriteEntries % Block = 0 /\ ReadEntries % Block = 0
  BY BufferAssumption
<1>2. ASSUME NEW n \in Nat \ {0}, n % Block = 0
      PROVE  /\ n * Entry \in Nat \ {0} /\ (n * Entry) % Block = 0 /\ (n * Entry) % Entry = 0
             /\ (n * Entry) \div Entry = n
  <2>. DEFINE q == n \div Block
  <2>1. q \in Int /\ n = q * Block
    BY <1>1, <1>2, DivMod
  <2>. HIDE DEF q
  <2>2. n * Entry = (q * Entry) * Block
    BY <1>1, <2>1
  <2>3. q * Entry \in Int
    BY <1>1, <2>1
  <2>4. (n * Entry) % Block = 0
    BY <1>1, <2>2, <2>3, Whole
  <2>5. n * Entry \in Nat \ {0}
    BY <1>1
  <2>6. (n * Entry) % Entry = 0 /\ (n * Entry) \div Entry = n
    BY <1>1, Whole
  <2>. QED
    BY <2>4, <2>5, <2>6
<1>. QED
  BY <1>1, <1>2 DEF W!BufferBytes, R!BufferBytes, InBlocks, InEntries, EntriesIn

(* Numbers of bytes and of entries.                                        *)
LEMMA InBytes ==
  ASSUME NEW n \in Nat
  PROVE  n * Entry \in Nat /\ InEntries(n * Entry) /\ EntriesIn(n * Entry) = n
<1>1. Entry \in Nat \ {0}
  BY Positive
<1>2. n * Entry \in Nat
  BY <1>1
<1>3. (n * Entry) % Entry = 0 /\ (n * Entry) \div Entry = n
  BY <1>1, Whole
<1>. QED
  BY <1>2, <1>3 DEF InEntries, EntriesIn

LEMMA InNumbers ==
  ASSUME NEW a \in Nat, InEntries(a)
  PROVE  EntriesIn(a) \in Nat /\ EntriesIn(a) * Entry = a
<1>1. Entry \in Nat \ {0}
  BY Positive
<1>. QED
  BY <1>1, DivNat, DivMod DEF InEntries, EntriesIn

LEMMA InOrder ==
  ASSUME NEW m \in Nat, NEW n \in Nat
  PROVE  /\ m <= n <=> m * Entry <= n * Entry
         /\ m < n <=> m * Entry < n * Entry
         /\ (m + 1) * Entry = m * Entry + Entry
         /\ 0 * Entry = 0
<1>1. Entry \in Nat \ {0}
  BY Positive
<1>. QED
  BY <1>1, TimesOrder

LEMMA InSums ==
  ASSUME NEW a \in Nat, NEW b \in Nat, InEntries(a), InEntries(b)
  PROVE  /\ InEntries(a + b) /\ EntriesIn(a + b) = EntriesIn(a) + EntriesIn(b)
         /\ InEntries(a - b)
<1>1. Entry \in Nat \ {0} /\ a \in Int /\ b \in Int /\ a % Entry = 0 /\ b % Entry = 0
  BY Positive DEF InEntries
<1>2. /\ (a + b) % Entry = 0 /\ (a - b) % Entry = 0
      /\ (a + b) \div Entry = a \div Entry + b \div Entry
  BY <1>1, Multiples
<1>. QED
  BY <1>2 DEF InEntries, EntriesIn

LEMMA InBlockSums ==
  ASSUME NEW a \in Nat, NEW b \in Nat, InBlocks(a), InBlocks(b)
  PROVE  InBlocks(a + b) /\ InBlocks(a - b)
<1>1. Block \in Nat \ {0} /\ a \in Int /\ b \in Int /\ a % Block = 0 /\ b % Block = 0
  BY Positive DEF InBlocks
<1>2. (a + b) % Block = 0 /\ (a - b) % Block = 0
  BY <1>1, Multiples
<1>. QED
  BY <1>2 DEF InBlocks

LEMMA Zero == InBlocks(0) /\ InEntries(0) /\ EntriesIn(0) = 0
<1>1. Entry \in Nat \ {0} /\ Block \in Nat \ {0}
  BY Positive
<1>2. 0 * Entry = 0 /\ 0 * Block = 0
  BY <1>1
<1>3. 0 % Entry = 0 /\ 0 \div Entry = 0 /\ 0 % Block = 0
  BY <1>1, <1>2, Whole
<1>. QED
  BY <1>3 DEF InBlocks, InEntries, EntriesIn

(* Padding to whole blocks.                                                *)
LEMMA Padding ==
  ASSUME NEW n \in Nat
  PROVE  /\ R!Rounded(n) \in Nat /\ n <= R!Rounded(n) /\ InBlocks(R!Rounded(n))
         /\ InBlocks(n) => R!Rounded(n) = n
         /\ n <= W!BufferBytes => R!Rounded(n) <= W!BufferBytes
         /\ n <= R!BufferBytes => R!Rounded(n) <= R!BufferBytes
         /\ W!Rounded(n) = R!Rounded(n)
<1>1. R!Rounded(n) = ((n + Block - 1) \div Block) * Block
  BY DEF R!Rounded
<1>2. Block \in Nat \ {0}
  BY Positive
<1>3. /\ R!Rounded(n) \in Nat /\ n <= R!Rounded(n) /\ R!Rounded(n) % Block = 0
      /\ n % Block = 0 => R!Rounded(n) = n
      /\ \A m \in Nat : m % Block = 0 /\ n <= m => R!Rounded(n) <= m
  BY <1>1, <1>2, RoundUp
<1>4. W!Rounded(n) = R!Rounded(n)
  BY DEF W!Rounded, R!Rounded
<1>. QED
  BY <1>3, <1>4, Sizes DEF InBlocks

(* The entry a byte belongs to.                                            *)
LEMMA EntryOfAt ==
  ASSUME NEW a \in Nat, InEntries(a), NEW o \in Nat
  PROVE  EntryOf(a + o + 1) = EntriesIn(a) + EntriesIn(o) + 1
<1>1. /\ Entry \in Nat \ {0}
      /\ o \div Entry \in Int /\ o % Entry \in 0..Entry - 1
      /\ o = (o \div Entry) * Entry + (o % Entry)
  BY Positive, DivMod
<1>. DEFINE q == o \div Entry
            r == o % Entry
            m == q * Entry
<1>2. q \in Int /\ r \in 0..Entry - 1 /\ o = m + r
  BY <1>1
<1>. HIDE DEF q, r
<1>3. m % Entry = 0 /\ m \div Entry = q /\ m \in Int
  BY <1>1, <1>2, Whole
<1>. HIDE DEF m
<1>4. (a + m) % Entry = 0 /\ (a + m) \div Entry = a \div Entry + q
  <2>1. Entry \in Nat \ {0} /\ a \in Int /\ m \in Int /\ a % Entry = 0 /\ m % Entry = 0
    BY <1>1, <1>3 DEF InEntries
  <2>2. (a + m) % Entry = 0 /\ (a + m) \div Entry = a \div Entry + m \div Entry
    BY <2>1, Multiples
  <2>. QED
    BY <1>3, <2>2
<1>5. ((a + m) + r) \div Entry = (a + m) \div Entry
  BY <1>1, <1>2, <1>3, <1>4, Within, a + m \in Int
<1>6. (a + o + 1) - 1 = (a + m) + r
  BY <1>2, <1>3
<1>7. EntryOf(a + o + 1) = (a + m) \div Entry + 1
  BY <1>5, <1>6 DEF EntryOf
<1>8. a \div Entry \in Int
  BY <1>1, DivMod
<1>. QED
  BY <1>2, <1>4, <1>7, <1>8 DEF q, EntriesIn

LEMMA EntryOfIs ==
  ASSUME NEW k \in Nat \ {0}
  PROVE  /\ EntryOf(k) \in Nat \ {0}
         /\ \A a \in Nat : InEntries(a) => (EntryOf(k) <= EntriesIn(a) <=> k <= a)
<1>1. Entry \in Nat \ {0} /\ k - 1 \in Nat
  BY Positive
<1>2. (k - 1) \div Entry \in Nat
  BY <1>1, DivNat
<1>3. ASSUME NEW a \in Nat, a % Entry = 0
      PROVE  EntryOf(k) <= a \div Entry <=> k <= a
  <2>1. a \div Entry \in Nat /\ a = (a \div Entry) * Entry
    BY <1>1, <1>3, DivNat, DivMod
  <2>2. (k - 1) \div Entry < a \div Entry <=> k - 1 < (a \div Entry) * Entry
    BY <1>1, <2>1, SameDiv
  <2>. QED
    BY <1>1, <1>2, <2>1, <2>2 DEF EntryOf
<1>. QED
  BY <1>2, <1>3 DEF EntryOf, InEntries, EntriesIn

(* Which bytes of a buffer are those of its entry n.                       *)
LEMMA InEntry ==
  ASSUME NEW o \in Nat, NEW n \in Nat
  PROVE  /\ EntriesIn(o) \in Nat
         /\ EntriesIn(o) = n <=> n * Entry <= o /\ o < n * Entry + Entry
         /\ EntriesIn(o) < n <=> o < n * Entry
<1>1. Entry \in Nat \ {0}
  BY Positive
<1>. QED
  BY <1>1, SameDiv, DivNat DEF EntriesIn

(* The bytes of entry n.                                                   *)
LEMMA BytesOfEntry ==
  ASSUME NEW n \in Nat \ {0}, NEW o \in 0..Entry - 1
  PROVE  /\ n * Entry - o \in Nat \ {0} /\ EntryOf(n * Entry - o) = n
         /\ \A m \in Nat : n <= m => n * Entry - o <= m * Entry
<1>1. Entry \in Nat \ {0} /\ n - 1 \in Nat /\ (n - 1) * Entry \in Int
  BY Positive, TimesOrder
<1>2. ((n - 1) * Entry) % Entry = 0 /\ ((n - 1) * Entry) \div Entry = n - 1
  BY <1>1, Whole
<1>3. n * Entry = (n - 1) * Entry + Entry
  BY <1>1, TimesOrder
<1>4. (n - 1) * Entry \in Nat
  BY <1>1
<1>5. n * Entry - o \in Nat \ {0}
  BY <1>1, <1>3, <1>4
<1>6. ((n - 1) * Entry + (Entry - 1 - o)) \div Entry = n - 1
  BY <1>1, <1>2, DivUnique, Entry - 1 - o \in 0..Entry - 1
<1>7. n * Entry - o - 1 = (n - 1) * Entry + (Entry - 1 - o)
  BY <1>1, <1>3, <1>4
<1>8. EntryOf(n * Entry - o) = n
  BY <1>6, <1>7 DEF EntryOf
<1>9. ASSUME NEW m \in Nat, n <= m
      PROVE  n * Entry - o <= m * Entry
  <2>1. n * Entry <= m * Entry /\ n * Entry \in Int /\ m * Entry \in Int
    BY <1>1, <1>9, TimesOrder
  <2>. QED
    BY <2>1
<1>. QED
  BY <1>5, <1>8, <1>9

-----------------------------------------------------------------------------
(* The writer.                                                             *)

WriterInv == WriterState /\ WriterBytes

LEMMA InitWriter == Init => WriterInv
<1>. SUFFICES ASSUME Init PROVE WriterInv
  OBVIOUS
<1>1. /\ file = <<>> /\ main = "fill" /\ wuse = 0 /\ num = 0 /\ total = 0 /\ passes = 0
      /\ wbuffer = [b \in {0, 1} |-> [o \in W!Offsets |-> W!Junk]]
      /\ writer = [running |-> FALSE, buffer |-> 1, size |-> 0, done |-> 0]
      /\ R!Unopened
  BY DEF Init, W!Init
<1>2. InEntries(0) /\ EntriesIn(0) = 0 /\ 0 * Entry = 0
  BY Zero, InOrder
<1>3. file \in Seq(0..W!Junk) /\ Len(file) = 0
  BY <1>1
<1>4. W!TypeOK
  BY <1>1, <1>3, Positive, Sizes DEF W!TypeOK
<1>5. W!Written = 0
  BY <1>1, <1>2 DEF W!Written, EntriesIn
<1>6. WriterState
  BY <1>1, <1>2, <1>3, <1>4, <1>5, Positive DEF WriterState, InWriter, Reached
<1>7. WriterBytes
  BY <1>1, <1>2, <1>3 DEF WriterBytes
<1>. QED
  BY <1>6, <1>7 DEF WriterInv

(* The types of the writer, and the sizes derived from them.               *)
LEMMA WriterTypes ==
  ASSUME WriterState
  PROVE  /\ file \in Seq(0..W!Junk) /\ Len(file) \in Nat
         /\ main \in {"fill", "full", "finish"}
         /\ wbuffer \in [{0, 1} -> [W!Offsets -> 0..W!Junk]]
         /\ wuse \in {0, 1} /\ num \in 0..WriteEntries /\ total \in Nat
         /\ writer \in [running : BOOLEAN, buffer : {0, 1},
                        size : 0..W!BufferBytes, done : 0..W!BufferBytes]
         /\ InEntries(total) /\ N \in Nat /\ N * Entry = total
         /\ num * Entry \in 0..W!BufferBytes
         /\ InEntries(total + num * Entry) /\ EntriesIn(total + num * Entry) = N + num
         /\ W!Written = IF main = "finish" THEN N ELSE N + num
         /\ W!Written <= MaxEntries
<1>1. /\ W!TypeOK /\ InEntries(total) /\ W!Written <= MaxEntries
      /\ main \in {"fill", "full", "finish"}
  BY DEF WriterState, InWriter
<1>2. /\ file \in Seq(0..W!Junk)
      /\ wbuffer \in [{0, 1} -> [W!Offsets -> 0..W!Junk]]
      /\ wuse \in {0, 1} /\ num \in 0..WriteEntries /\ total \in Nat
      /\ writer \in [running : BOOLEAN, buffer : {0, 1},
                     size : 0..W!BufferBytes, done : 0..W!BufferBytes]
  BY <1>1 DEF W!TypeOK
<1>3. N \in Nat /\ N * Entry = total
  BY <1>1, <1>2, InNumbers DEF N
<1>4. num * Entry \in Nat /\ InEntries(num * Entry) /\ EntriesIn(num * Entry) = num
  <2>1. num \in Nat
    BY <1>2, Positive
  <2>. QED
    BY <2>1, InBytes
<1>5. num * Entry \in 0..W!BufferBytes
  <2>1. num \in Nat /\ num <= WriteEntries /\ WriteEntries \in Nat
    BY <1>2, Positive
  <2>2. num * Entry <= WriteEntries * Entry
    BY <2>1, InOrder
  <2>. QED
    BY <1>4, <2>2, Sizes
<1>6. InEntries(total + num * Entry) /\ EntriesIn(total + num * Entry) = N + num
  BY <1>1, <1>2, <1>4, InSums DEF N
<1>7. W!Written = IF main = "finish" THEN N ELSE N + num
  BY <1>1, <1>2, <1>3 DEF W!Written, N, EntriesIn
<1>. QED
  BY <1>1, <1>2, <1>3, <1>4, <1>5, <1>6, <1>7, LenProperties

LEMMA WriterProducts ==
  ASSUME WriterState
  PROVE  /\ N * Entry = total /\ num * Entry \in Nat /\ num * Entry <= W!BufferBytes
         /\ InEntries(total + num * Entry) /\ EntriesIn(total + num * Entry) = N + num
<1>1. num * Entry \in 0..W!BufferBytes /\ W!BufferBytes \in Nat
  BY WriterTypes, Sizes
<1>2. num * Entry \in Nat /\ num * Entry <= W!BufferBytes
  BY <1>1
<1>. QED
  BY <1>2, WriterTypes

LEMMA WriterNumbers ==
  ASSUME WriterState
  PROVE  /\ Len(file) \in Nat /\ total \in Nat /\ num \in Nat /\ num <= WriteEntries
         /\ N \in Nat /\ InEntries(total)
         /\ W!Written = (IF main = "finish" THEN N ELSE N + num) /\ W!Written <= MaxEntries
         /\ wuse \in {0, 1} /\ main \in {"fill", "full", "finish"}
<1>1. num \in 0..WriteEntries /\ WriteEntries \in Nat
  BY WriterTypes, Positive
<1>2. num \in Nat /\ num <= WriteEntries
  BY <1>1
<1>. QED
  BY <1>2, WriterTypes

(* A sequence with more of its elements after it.                          *)
LEMMA Appended ==
  ASSUME NEW S, NEW s \in Seq(S), NEW n \in Nat, NEW t \in [1..n -> S]
  PROVE  /\ s \o t \in Seq(S) /\ Len(s \o t) = Len(s) + n
         /\ \A k \in 1..Len(s) : (s \o t)[k] = s[k]
         /\ \A k \in 1..n : (s \o t)[Len(s) + k] = t[k]
<1>1. t \in Seq(S) /\ Len(t) = n /\ Len(s) \in Nat
  BY LenProperties
<1>2. /\ s \o t \in Seq(S)
      /\ Len(s \o t) = Len(s) + Len(t)
      /\ \A k \in 1..Len(s) + Len(t) : (s \o t)[k] =
            IF k <= Len(s) THEN s[k] ELSE t[k - Len(s)]
  BY <1>1, ConcatProperties
<1>3. ASSUME NEW k \in 1..n
      PROVE  (s \o t)[Len(s) + k] = t[k]
  <2>1. Len(s) + k \in 1..Len(s) + Len(t) /\ ~(Len(s) + k <= Len(s)) /\ Len(s) + k - Len(s) = k
    BY <1>1
  <2>. QED
    BY <1>2, <2>1
<1>. QED
  BY <1>1, <1>2, <1>3

(* An entry is put at its place in the buffer.                             *)
LEMMA WriteStep ==
  ASSUME WriterInv, W!Write, UNCHANGED <<rvars, passes>>
  PROVE  WriterInv'
<1>. USE DEF WriterInv
<1>1. /\ main = "fill" /\ num' = num + 1 /\ W!Written < MaxEntries
      /\ main' = IF num + 1 = WriteEntries THEN "full" ELSE "fill"
      /\ wbuffer' = [wbuffer EXCEPT ![wuse] =
                       [o \in W!Offsets |-> IF o \div Entry = num THEN W!Written + 1
                                             ELSE wbuffer[wuse][o]]]
      /\ file' = file /\ wuse' = wuse /\ total' = total /\ writer' = writer
  BY DEF W!Write, W!Goto
<1>2. num < WriteEntries
  BY <1>1 DEF WriterState
<1>3. W!Written = N + num /\ W!Written' = N + num + 1
  BY <1>1, <1>2, WriterTypes DEF W!Written, N, EntriesIn
<1>4. W!Written + 1 \in 0..W!Junk
  <2>1. W!Written \in Nat
    BY <1>1, WriterNumbers
  <2>. QED
    BY <1>1, <2>1, Positive
<1>5. wbuffer' \in [{0, 1} -> [W!Offsets -> 0..W!Junk]]
  <2>1. wbuffer \in [{0, 1} -> [W!Offsets -> 0..W!Junk]] /\ wuse \in {0, 1}
    BY WriterTypes
  <2>2. [o \in W!Offsets |-> IF o \div Entry = num THEN W!Written + 1 ELSE wbuffer[wuse][o]]
          \in [W!Offsets -> 0..W!Junk]
    BY <1>4, <2>1
  <2>. QED
    BY <1>1, <2>1, <2>2
<1>6. W!TypeOK'
  <2>1. num' \in 0..WriteEntries
    BY <1>1, <1>2, WriterNumbers, Positive
  <2>. QED
    BY <1>1, <1>5, <2>1, WriterTypes DEF W!TypeOK
<1>7. R!Unopened' /\ passes' = 0
  BY DEF WriterState, R!Unopened, rvars
<1>8. WriterState'
  <2>1. num' < WriteEntries \/ num' = WriteEntries
    BY <1>1, <1>2, WriterNumbers, Positive
  <2>2. N + num + 1 <= MaxEntries
    BY <1>1, <1>3, WriterNumbers, Positive
  <2>. QED
    BY <1>1, <1>3, <1>6, <1>7, <2>1, <2>2 DEF WriterState, InWriter, Reached
<1>9. ASSUME NEW o \in 0..num' * Entry - 1
      PROVE  wbuffer'[wuse'][o] = EntryOf(total' + o + 1)
  <2>1. num' * Entry = num * Entry + Entry /\ num' * Entry <= W!BufferBytes
    <3>1. (num + 1) * Entry = num * Entry + Entry /\ (num + 1) * Entry <= WriteEntries * Entry
      BY <1>2, WriterNumbers, Positive, InOrder, num + 1 \in Nat, num + 1 <= WriteEntries
    <3>. QED
      BY <1>1, <3>1, Sizes
  <2>2. o \in W!Offsets /\ o \in Nat /\ o < num * Entry + Entry
    <3>. DEFINE m == num' * Entry
    <3>1. m \in Nat /\ m = num * Entry + Entry
      <4>1. num' \in Nat
        BY <1>1, WriterNumbers
      <4>. QED
        BY <1>1, <2>1, <4>1, InBytes
    <3>. HIDE DEF m
    <3>2. o \in 0..m - 1 /\ m <= W!BufferBytes
      BY <1>9, <2>1 DEF m
    <3>. QED
      BY <3>1, <3>2, Sizes DEF W!Offsets
  <2>3. EntryOf(total + o + 1) = N + EntriesIn(o) + 1
    BY <2>2, EntryOfAt, WriterTypes DEF N
  <2>4. wbuffer'[wuse][o] = IF EntriesIn(o) = num THEN W!Written + 1 ELSE wbuffer[wuse][o]
    BY <1>1, <2>2, WriterTypes DEF EntriesIn
  <2>5. EntriesIn(o) = num <=> num * Entry <= o /\ o < num * Entry + Entry
    BY <2>2, WriterNumbers, InEntry
  <2>6. CASE EntriesIn(o) = num
    BY <1>1, <1>3, <2>3, <2>4, <2>6, WriterNumbers
  <2>7. CASE EntriesIn(o) # num
    <3>1. o \in 0..num * Entry - 1
      BY <2>2, <2>5, <2>7, WriterProducts
    <3>2. wbuffer[wuse][o] = EntryOf(total + o + 1)
      BY <1>1, <3>1 DEF WriterBytes
    <3>. QED
      BY <1>1, <2>4, <2>7, <3>2
  <2>. QED
    BY <2>6, <2>7
<1>10. ASSUME writer.running, NEW o \in writer.done..writer.size - 1
       PROVE  wbuffer'[writer.buffer][o] = Numbered(Len(file) - writer.done + o + 1)
  <2>1. writer.buffer # wuse
    BY <1>1, <1>10 DEF WriterState
  <2>2. wbuffer'[writer.buffer] = wbuffer[writer.buffer]
    BY <1>1, <2>1, WriterTypes
  <2>. QED
    BY <1>10, <2>2 DEF WriterBytes
<1>11. \A k : Numbered(k)' = Numbered(k) /\ EntryOf(k)' = EntryOf(k)
  BY <1>1 DEF Numbered, EntryOf
<1>12. WriterBytes'
  <2>1. \A k \in 1..Len(file') : file'[k] = Numbered(k)'
    BY <1>1, <1>11 DEF WriterBytes
  <2>2. writer'.running => \A o \in writer'.done..writer'.size - 1 :
                             wbuffer'[writer'.buffer][o] = (Numbered(Len(file) - writer.done + o + 1))'
    BY <1>1, <1>10, <1>11
  <2>3. \A o \in 0..num' * Entry - 1 : wbuffer'[wuse'][o] = (EntryOf(total + o + 1))'
    BY <1>9, <1>11
  <2>. QED
    BY <2>1, <2>2, <2>3 DEF WriterBytes
<1>. QED
  BY <1>8, <1>12

(* A full buffer goes to the thread and ends where the next one begins.    *)
LEMMA SwapStep ==
  ASSUME WriterInv, W!Swap, UNCHANGED <<rvars, passes>>
  PROVE  WriterInv'
<1>. USE DEF WriterInv
<1>1. /\ main = "full" /\ main' = "fill" /\ ~writer.running
      /\ writer' = [running |-> TRUE, buffer |-> wuse, size |-> num * Entry, done |-> 0]
      /\ wuse' = 1 - wuse /\ total' = total + num * Entry /\ num' = 0
      /\ file' = file /\ wbuffer' = wbuffer
  BY DEF W!Swap, W!Goto
<1>2. num = WriteEntries /\ Len(file) = total
  BY <1>1, WriterTypes DEF WriterState, Reached
<1>3. num * Entry = W!BufferBytes /\ W!BufferBytes \in Nat \ {0}
  BY <1>2, Sizes
<1>4. R!Unopened' /\ passes' = 0
  BY DEF WriterState, R!Unopened, rvars
<1>5. total' \in Nat /\ InEntries(total') /\ EntriesIn(total') = N + num
  BY <1>1, WriterTypes
<1>6. W!Written = N + num /\ W!Written' = N + num
  BY <1>1, <1>5, WriterTypes DEF W!Written, N, EntriesIn
<1>7. W!TypeOK'
  <2>1. 0 \in 0..WriteEntries /\ num * Entry \in 0..W!BufferBytes /\ 0 \in 0..W!BufferBytes
    BY <1>3, Positive
  <2>2. wuse \in {0, 1} /\ 1 - wuse \in {0, 1}
    BY WriterNumbers
  <2>3. writer' \in [running : BOOLEAN, buffer : {0, 1},
                    size : 0..W!BufferBytes, done : 0..W!BufferBytes]
    BY <1>1, <2>1, <2>2
  <2>. QED
    BY <1>1, <1>5, <2>1, <2>2, <2>3, WriterTypes DEF W!TypeOK
<1>8. WriterState'
  BY <1>1, <1>2, <1>3, <1>4, <1>5, <1>6, <1>7, WriterNumbers, Positive
  DEF WriterState, InWriter, Reached
<1>9. ASSUME NEW o \in 0..num * Entry - 1
      PROVE  wbuffer[wuse][o] = EntryOf(total + o + 1) /\ total + o + 1 <= total'
  BY <1>1, WriterTypes DEF WriterBytes
<1>10. ASSUME NEW k \in 1..Len(file)
       PROVE  file[k] = EntryOf(k) /\ k <= total'
  BY <1>1, <1>2, WriterTypes DEF WriterBytes, Numbered
<1>11. WriterBytes'
  <2>1. \A o \in 0..num' * Entry - 1 : FALSE
    BY <1>1, InOrder, Zero
  <2>. QED
    BY <1>1, <1>2, <1>9, <1>10, <2>1, WriterTypes DEF WriterBytes, Numbered, EntryOf
<1>. QED
  BY <1>8, <1>11

(* The thread appends what comes next in its buffer.                       *)
LEMMA AsyncWriteStep ==
  ASSUME WriterInv, W!AsyncWrite, UNCHANGED <<rvars, passes>>
  PROVE  WriterInv'
<1>. USE DEF WriterInv
<1>. DEFINE d == writer.done
            z == writer.size
            stretch(n) == [k \in 1..n |-> wbuffer[writer.buffer][d + k - 1]]
<1>1. PICK n \in W!Transfers(z - d) :
        /\ file' = file \o stretch(n)
        /\ writer' = [writer EXCEPT !.done = d + n, !.running = d + n < z]
  BY DEF W!AsyncWrite
<1>2. /\ writer.running /\ main' = main /\ wbuffer' = wbuffer /\ wuse' = wuse /\ num' = num
      /\ total' = total
  BY DEF W!AsyncWrite
<1>3. d \in Nat /\ z \in Nat /\ z <= W!BufferBytes /\ n \in Nat /\ 1 <= n /\ n <= z - d /\ d < z
  BY <1>1, <1>2, WriterTypes, Sizes DEF W!Transfers, WriterState
<1>4. writer.buffer \in {0, 1}
  BY WriterTypes
<1>. HIDE DEF d, z
<1>5. ASSUME NEW k \in 1..n
      PROVE  d + k - 1 \in W!Offsets /\ d + k - 1 \in d..z - 1
  BY <1>3, <1>5, Sizes DEF W!Offsets
<1>6. stretch(n) \in [1..n -> 0..W!Junk]
  <2>1. \A k \in 1..n : wbuffer[writer.buffer][d + k - 1] \in 0..W!Junk
    BY <1>4, <1>5, WriterTypes
  <2>. QED
    BY <2>1
<1>7. /\ file' \in Seq(0..W!Junk) /\ Len(file') = Len(file) + n
      /\ \A k \in 1..Len(file) : file'[k] = file[k]
      /\ \A k \in 1..n : file'[Len(file) + k] = wbuffer[writer.buffer][d + k - 1]
  <2>1. \A k \in 1..n : stretch(n)[k] = wbuffer[writer.buffer][d + k - 1]
    OBVIOUS
  <2>. DEFINE t == stretch(n)
              S == 0..W!Junk
  <2>2. file \in Seq(S) /\ t \in [1..n -> S] /\ n \in Nat /\ file' = file \o t
    BY <1>1, <1>3, <1>6, WriterTypes
  <2>3. \A k \in 1..n : t[k] = wbuffer[writer.buffer][d + k - 1]
    BY <2>1
  <2>. HIDE DEF t, S
  <2>4. /\ file' \in Seq(S) /\ Len(file') = Len(file) + n
        /\ \A k \in 1..Len(file) : file'[k] = file[k]
        /\ \A k \in 1..n : file'[Len(file) + k] = t[k]
    BY <2>2, Appended
  <2>. QED
    BY <2>3, <2>4 DEF S
<1>8. /\ writer'.running = (d + n < z) /\ writer'.done = d + n /\ writer'.size = z
      /\ writer'.buffer = writer.buffer
      /\ writer' \in [running : BOOLEAN, buffer : {0, 1},
                      size : 0..W!BufferBytes, done : 0..W!BufferBytes]
  <2>1. d + n \in 0..W!BufferBytes /\ (d + n < z) \in BOOLEAN
    BY <1>3, Sizes
  <2>2. writer \in [running : BOOLEAN, buffer : {0, 1},
                   size : 0..W!BufferBytes, done : 0..W!BufferBytes]
    BY WriterTypes
  <2>. QED
    BY <1>1, <2>1, <2>2 DEF z
<1>9. W!TypeOK'
  BY <1>2, <1>7, <1>8, WriterTypes DEF W!TypeOK
<1>10. R!Unopened' /\ passes' = 0
  BY DEF WriterState, R!Unopened, rvars
<1>11. Reached' = Reached
  <2>1. Reached = Len(file) + (z - d)
    BY <1>2 DEF Reached, d, z
  <2>2. Len(file) \in Nat
    BY WriterTypes
  <2>3. Reached' = Len(file) + n + IF d + n < z THEN z - (d + n) ELSE 0
    BY <1>7, <1>8 DEF Reached
  <2>. QED
    BY <1>3, <2>1, <2>2, <2>3
<1>12. WriterState'
  <2>1. W!Written' = W!Written
    BY <1>2 DEF W!Written
  <2>. QED
    BY <1>2, <1>8, <1>9, <1>10, <1>11, <2>1 DEF WriterState, InWriter
<1>13. \A k : Numbered(k)' = Numbered(k) /\ EntryOf(k)' = EntryOf(k)
  BY <1>2 DEF Numbered, EntryOf
<1>14. ASSUME NEW k \in 1..Len(file')
       PROVE  file'[k] = Numbered(k)
  <2>1. CASE k \in 1..Len(file)
    BY <1>7, <2>1 DEF WriterBytes
  <2>2. CASE k > Len(file)
    <3>. DEFINE j == k - Len(file)
                o == d + j - 1
    <3>1. j \in 1..n /\ o \in d..z - 1 /\ Len(file) - d + o + 1 = k /\ k = Len(file) + j
      BY <1>3, <1>7, <2>2, WriterNumbers
    <3>2. file'[k] = wbuffer[writer.buffer][o]
      BY <1>7, <3>1
    <3>3. wbuffer[writer.buffer][o] = Numbered(Len(file) - d + o + 1)
      BY <1>2, <3>1 DEF WriterBytes, d, z
    <3>. QED
      BY <3>1, <3>2, <3>3
  <2>. QED
    BY <2>1, <2>2, WriterNumbers
<1>15. ASSUME writer'.running, NEW o \in writer'.done..writer'.size - 1
       PROVE  wbuffer[writer.buffer][o] = Numbered(Len(file') - writer'.done + o + 1)
  <2>1. o \in d..z - 1 /\ Len(file') - writer'.done + o + 1 = Len(file) - d + o + 1
    BY <1>3, <1>7, <1>8, <1>15, WriterNumbers
  <2>. QED
    BY <1>2, <2>1 DEF WriterBytes, d, z
<1>16. WriterBytes'
  <2>1. \A k \in 1..Len(file') : file'[k] = Numbered(k)'
    BY <1>13, <1>14
  <2>2. writer'.running => \A o \in writer'.done..writer'.size - 1 :
                             wbuffer'[writer'.buffer][o] = (Numbered(Len(file) - writer.done + o + 1))'
    BY <1>2, <1>8, <1>13, <1>15
  <2>3. main' # "finish" => \A o \in 0..num' * Entry - 1 :
                              wbuffer'[wuse'][o] = (EntryOf(total + o + 1))'
    BY <1>2, <1>13 DEF WriterBytes
  <2>. QED
    BY <2>1, <2>2, <2>3 DEF WriterBytes
<1>. QED
  BY <1>12, <1>16

-----------------------------------------------------------------------------
(* The file is closed.                                                     *)

ReaderInv(c) == ReaderState /\ ReaderBytes(c)

(* The structure of the reader before it is opened has its types.          *)
LEMMA UnopenedTypes ==
  ASSUME R!Unopened
  PROVE  /\ update \in BOOLEAN /\ size = 0 /\ size % Entry = 0
         /\ buffer \in [{0, 1} -> [R!Offsets -> -MaxEntries..R!Junk]]
         /\ bytes \in [{0, 1} -> {n \in 0..R!BufferBytes : n % Entry = 0}]
         /\ place \in [{0, 1} -> 0..size]
         /\ use \in {0, 1} /\ position \in 0..ReadEntries /\ max \in 0..ReadEntries
         /\ read \in 0..size /\ offset \in Nat /\ thread = "none" /\ done \in 0..R!BufferBytes
<1>1. 0 % Entry = 0
  BY Zero DEF InEntries
<1>2. R!Junk \in -MaxEntries..R!Junk
  BY Positive
<1>3. 0 \in 0..R!BufferBytes /\ 0 \in 0..ReadEntries
  BY Positive, Sizes
<1>4. /\ update = FALSE /\ size = 0
      /\ buffer = [b \in {0, 1} |-> [o \in R!Offsets |-> R!Junk]]
      /\ bytes = [b \in {0, 1} |-> 0] /\ place = [b \in {0, 1} |-> 0]
      /\ use = 0 /\ position = 0 /\ max = 0 /\ read = 0 /\ offset = 0
      /\ thread = "none" /\ done = 0
  BY DEF R!Unopened
<1>5. buffer \in [{0, 1} -> [R!Offsets -> -MaxEntries..R!Junk]]
  BY <1>2, <1>4
<1>6. bytes \in [{0, 1} -> {n \in 0..R!BufferBytes : n % Entry = 0}]
  BY <1>1, <1>3, <1>4
<1>7. place \in [{0, 1} -> 0..size]
  BY <1>4
<1>. QED
  BY <1>1, <1>3, <1>4, <1>5, <1>6, <1>7

(* Numbers, and sequences of them.                                         *)
LEMMA WiderFile ==
  ASSUME NEW s \in Seq(0..W!Junk)
  PROVE  s \in Seq(-MaxEntries..R!Junk)
<1>1. 0..W!Junk \subseteq -MaxEntries..R!Junk
  BY Positive
<1>. QED
  BY <1>1, SeqMonotonic

(* A file that holds the entries as they were written.                     *)
LEMMA ClosedWhole ==
  ASSUME main' = "closed", R!Unopened, UNCHANGED <<rvars, passes>>, passes = 0,
         total' \in Nat, InEntries(total'), EntriesIn(total') <= MaxEntries,
         file' \in Seq(0..W!Junk), Len(file') = total',
         \A k \in 1..total' : file'[k] = EntryOf(k),
         NEW c, c = [e \in 1..EntriesIn(total') |-> e]
  PROVE  ReaderInv(c)'
<1>1. R!Unopened' /\ passes' = 0
  BY DEF R!Unopened, rvars
<1>2. /\ size' = size /\ update' = update /\ buffer' = buffer /\ bytes' = bytes /\ place' = place
      /\ use' = use /\ position' = position /\ max' = max /\ read' = read /\ offset' = offset
      /\ thread' = thread /\ done' = done
  BY DEF rvars
<1>3. R!TypeOK'
  BY <1>2, UnopenedTypes, WiderFile DEF R!TypeOK
<1>4. N' = EntriesIn(total') /\ N' \in Nat
  BY InNumbers DEF N, EntriesIn
<1>5. ReaderState'
  BY <1>1, <1>2, <1>3, <1>4, UnopenedTypes DEF ReaderState, InEntries
<1>6. ASSUME NEW k \in 1..total'
      PROVE  EntryOf(k) \in 1..N' /\ EntryOf(k) \in Int
  <2>1. k \in Nat \ {0} /\ k <= total'
    OBVIOUS
  <2>2. EntryOf(k) \in Nat \ {0} /\ EntryOf(k) <= EntriesIn(total')
    BY <2>1, EntryOfIs
  <2>. QED
    BY <1>4, <2>2
<1>7. FileHolds(c)'
  <2>1. ASSUME NEW k \in 1..Len(file')
        PROVE  k <= total' /\ file'[k] = EntryOf(k) /\ c[EntryOf(k)] = EntryOf(k)
    BY <1>4, <1>6
  <2>. QED
    BY <2>1 DEF FileHolds, EntryOf
<1>8. Entries(c)' /\ Untouched(c)'
  BY <1>1, <1>4 DEF Entries, Untouched
<1>. QED
  BY <1>5, <1>7, <1>8 DEF ReaderInv, ReaderBytes

First == [e \in 1..N |-> e]

(* The rest of the entries goes to the thread, or there is none.           *)
LEMMA FinishStep ==
  ASSUME WriterInv, W!Finish, UNCHANGED <<rvars, passes>>
  PROVE  /\ main' = "finish" => WriterInv' /\ num > 0
         /\ main' # "finish" => ReaderInv(First)' /\ main' = "closed" /\ num = 0
<1>. USE DEF WriterInv
<1>. DEFINE m == num * Entry
            r == W!Rounded(m)
<1>1. /\ main = "fill" /\ ~writer.running /\ file' = file /\ wuse' = wuse /\ num' = num
      /\ \/ num = 0 /\ main' = "closed" /\ UNCHANGED <<wbuffer, total, writer>>
         \/ /\ num > 0 /\ main' = "finish"
            /\ wbuffer' = [wbuffer EXCEPT ![wuse] =
                             [o \in W!Offsets |-> IF o \in m..r - 1 THEN 0 ELSE wbuffer[wuse][o]]]
            /\ writer' = [running |-> TRUE, buffer |-> wuse, size |-> r, done |-> 0]
            /\ total' = total + m
  BY DEF W!Finish
<1>2. Len(file) = total
  BY <1>1, WriterNumbers DEF WriterState, Reached
<1>3. \A k \in 1..total : file[k] = EntryOf(k)
  BY <1>2 DEF WriterBytes, Numbered
<1>4. R!Unopened /\ R!Unopened' /\ passes = 0 /\ passes' = 0
  BY DEF WriterState, R!Unopened, rvars
<1>5. CASE num = 0
  <2>1. main' = "closed" /\ total' = total
    BY <1>1, <1>5
  <2>2. /\ EntriesIn(total) <= MaxEntries /\ total \in Nat /\ InEntries(total)
        /\ file \in Seq(0..W!Junk)
    BY <1>1, <1>5, WriterNumbers, WriterTypes DEF N
  <2>3. First = [e \in 1..EntriesIn(total') |-> e]
    BY <2>1 DEF First, N
  <2>4. ReaderInv(First)'
    <3>. DEFINE c == First
    <3>1. PICK d : d = c
      OBVIOUS
    <3>. HIDE DEF c
    <3>2. ReaderInv(d)'
      BY <1>1, <1>2, <1>3, <1>4, <2>1, <2>2, <2>3, <3>1, ClosedWhole DEF c
    <3>3. First' = First
      BY <2>1 DEF First, N, EntriesIn
    <3>. QED
      BY <3>1, <3>2, <3>3 DEF c
  <2>. QED
    BY <1>5, <2>1, <2>4
<1>6. CASE num > 0
  <2>1. /\ main' = "finish" /\ total' = total + m
        /\ wbuffer' = [wbuffer EXCEPT ![wuse] =
                         [o \in W!Offsets |-> IF o \in m..r - 1 THEN 0 ELSE wbuffer[wuse][o]]]
        /\ writer' = [running |-> TRUE, buffer |-> wuse, size |-> r, done |-> 0]
    BY <1>1, <1>6
  <2>2. m \in Nat /\ m <= W!BufferBytes /\ m > 0
    <3>1. 0 * Entry < num * Entry /\ 0 * Entry = 0
      BY <1>6, WriterNumbers, InOrder
    <3>. QED
      BY <3>1, WriterProducts
  <2>3. InEntries(total + m) /\ EntriesIn(total + m) = N + num
    BY WriterProducts
  <2>. HIDE DEF m
  <2>4. r \in Nat /\ m <= r /\ r <= W!BufferBytes
    BY <2>2, Padding
  <2>. HIDE DEF r
  <2>5. wbuffer' \in [{0, 1} -> [W!Offsets -> 0..W!Junk]]
    <3>1. 0 \in 0..W!Junk
      BY Positive
    <3>2. wbuffer \in [{0, 1} -> [W!Offsets -> 0..W!Junk]] /\ wuse \in {0, 1}
      BY WriterTypes
    <3>3. [o \in W!Offsets |-> IF o \in m..r - 1 THEN 0 ELSE wbuffer[wuse][o]]
            \in [W!Offsets -> 0..W!Junk]
      BY <3>1, <3>2
    <3>. QED
      BY <2>1, <3>2, <3>3
  <2>6. W!TypeOK'
    <3>1. /\ r \in 0..W!BufferBytes /\ 0 \in 0..W!BufferBytes /\ total' \in Nat
          /\ num' \in 0..WriteEntries /\ wuse \in {0, 1}
      <4>1. total \in Nat /\ num \in 0..WriteEntries /\ wuse \in {0, 1} /\ W!BufferBytes \in Nat
        BY WriterTypes, Sizes
      <4>. HIDE DEF m
      <4>. QED
        BY <1>1, <2>1, <2>2, <2>4, <4>1
    <3>2. writer' \in [running : BOOLEAN, buffer : {0, 1},
                      size : 0..W!BufferBytes, done : 0..W!BufferBytes]
      BY <2>1, <3>1
    <3>. QED
      BY <1>1, <2>1, <2>5, <3>1, <3>2, WriterTypes DEF W!TypeOK
  <2>7. W!Written' <= MaxEntries
    <3>1. W!Written' = EntriesIn(total') + 0
      BY <2>1 DEF W!Written, EntriesIn
    <3>. QED
      BY <1>1, <2>1, <2>3, <3>1, WriterNumbers
  <2>8. WriterState'
    <3>1. Reached' >= total' /\ 0 < r
      BY <1>1, <1>2, <2>1, <2>2, <2>4, WriterNumbers DEF Reached
    <3>. QED
      BY <1>4, <2>1, <2>3, <2>6, <2>7, <3>1 DEF WriterState, InWriter
  <2>9. \A k : (Numbered(k))' = IF k <= total + m THEN EntryOf(k) ELSE 0
    BY <2>1 DEF Numbered, EntryOf
  <2>10. ASSUME NEW k \in 1..Len(file)
         PROVE  file[k] = (Numbered(k))'
    BY <1>2, <1>3, <2>2, <2>9, WriterNumbers
  <2>11. ASSUME NEW o \in 0..r - 1
         PROVE  wbuffer'[wuse][o] = (Numbered(Len(file) - 0 + o + 1))'
    <3>1. o \in W!Offsets
      BY <2>4, Sizes DEF W!Offsets
    <3>2. wbuffer'[wuse][o] = IF o \in m..r - 1 THEN 0 ELSE wbuffer[wuse][o]
      BY <2>1, <3>1, WriterTypes
    <3>3. Len(file)' - 0 + o + 1 = total + o + 1
      BY <1>1, <1>2, WriterNumbers
    <3>4. o < m => wbuffer[wuse][o] = EntryOf(total + o + 1)
      BY <1>1, <2>2, <2>4 DEF WriterBytes, m
    <3>5. (Numbered(Len(file) - 0 + o + 1))' = IF o < m THEN EntryOf(total + o + 1) ELSE 0
      BY <2>2, <2>9, <3>3, WriterNumbers
    <3>. QED
      BY <2>2, <2>4, <3>2, <3>4, <3>5
  <2>12. WriterBytes'
    <3>1. writer'.running /\ writer'.buffer = wuse /\ writer'.size = r /\ writer'.done = 0
      BY <2>1
    <3>. QED
      BY <1>1, <2>1, <2>10, <2>11, <3>1 DEF WriterBytes
  <2>. QED
    BY <1>6, <2>1, <2>8, <2>12
<1>. QED
  BY <1>5, <1>6, WriterNumbers

(* The padding is cut off.                                                 *)
LEMMA TruncateStep ==
  ASSUME WriterInv, W!Truncate, UNCHANGED <<rvars, passes>>
  PROVE  ReaderInv(First)' /\ main' = "closed" /\ main = "finish" /\ total' = total
<1>. USE DEF WriterInv
<1>1. /\ main = "finish" /\ main' = "closed" /\ ~writer.running
      /\ file' = SubSeq(file, 1, total) /\ total' = total
  BY DEF W!Truncate, W!Goto
<1>2. /\ R!Unopened /\ passes = 0
      /\ Len(file) >= total /\ file \in Seq(0..W!Junk) /\ Len(file) \in Nat /\ total \in Nat
      /\ InEntries(total) /\ EntriesIn(total) <= MaxEntries
  BY <1>1, WriterNumbers, WriterTypes DEF WriterState, Reached, N
<1>3. /\ file' \in Seq(0..W!Junk) /\ Len(file') = total
      /\ \A k \in 1..total : file'[k] = file[k]
  <2>1. ASSUME NEW k \in 1..total PROVE file[k] \in 0..W!Junk
    <3>1. k \in 1..Len(file)
      BY <1>2
    <3>. QED
      BY <1>2, <3>1, ElementOfSeq
  <2>. QED
    BY <1>1, <1>2, <2>1, SubSeqProperties
<1>4. \A k \in 1..total : file'[k] = EntryOf(k)
  BY <1>2, <1>3 DEF WriterBytes, Numbered
<1>. DEFINE c == First
<1>5. First' = c /\ c = [e \in 1..EntriesIn(total') |-> e]
  BY <1>1 DEF First, N, EntriesIn
<1>6. PICK d : d = c
  OBVIOUS
<1>. HIDE DEF c
<1>7. ReaderInv(d)'
  BY <1>1, <1>2, <1>3, <1>4, <1>5, <1>6, ClosedWhole
<1>. QED
  BY <1>1, <1>5, <1>6, <1>7 DEF c

-----------------------------------------------------------------------------
(* What the files hold.                                                    *)

LEMMA EntriesOfIs ==
  ASSUME NEW held, NEW n \in Nat, NEW c \in [1..n -> Int],
         \A k \in 1..n * Entry : held[k] = c[EntryOf(k)]
  PROVE  W!EntriesOf(held, n) = c
<1>1. ASSUME NEW k \in 1..n, NEW o \in 0..Entry - 1
      PROVE  held[k * Entry - o] = c[k]
  <2>1. k \in Nat \ {0} /\ k <= n
    OBVIOUS
  <2>2. /\ k * Entry - o \in Nat \ {0} /\ EntryOf(k * Entry - o) = k
        /\ k * Entry - o <= n * Entry
    BY <2>1, BytesOfEntry
  <2>3. n * Entry \in Nat
    BY InBytes
  <2>4. k * Entry - o \in 1..n * Entry
    BY <2>2, <2>3
  <2>. QED
    BY <2>2, <2>4
<1>2. ASSUME NEW k \in 1..n
      PROVE  /\ held[k * Entry] = c[k]
             /\ \A o \in 1..Entry - 1 : held[k * Entry - o] = c[k]
  <2>1. Entry \in Nat \ {0} /\ k \in Nat
    BY Positive
  <2>2. k * Entry \in Nat
    BY <2>1, InBytes
  <2>3. 0 \in 0..Entry - 1 /\ k * Entry - 0 = k * Entry
    BY <2>1, <2>2
  <2>4. \A o \in 1..Entry - 1 : o \in 0..Entry - 1
    BY <2>1
  <2>. QED
    BY <1>1, <2>3, <2>4
<1>3. W!EntriesOf(held, n) = [k \in 1..n |-> c[k]]
  BY <1>2 DEF W!EntriesOf
<1>. QED
  BY <1>3

(* The writer has put out, or holds, the entries it was given.             *)
LEMMA WriterContent ==
  ASSUME WriterInv
  PROVE  W!Content = [e \in 1..W!Written |-> e] /\ W!Written \in Nat
<1>. USE DEF WriterInv
<1>. DEFINE d == writer.done
            n1 == IF writer.running THEN writer.size - d ELSE 0
            n2 == IF main # "finish" THEN num * Entry ELSE 0
            t1 == IF writer.running
                    THEN [k \in 1..writer.size - d |-> wbuffer[writer.buffer][d + k - 1]]
                    ELSE <<>>
            t2 == IF main # "finish" THEN [k \in 1..num * Entry |-> wbuffer[wuse][k - 1]] ELSE <<>>
            S == 0..W!Junk
<1>1. W!Content = W!EntriesOf(file \o (t1 \o t2), W!Written)
  BY WriterNumbers DEF W!Content, W!Pending
<1>2. d \in Nat /\ writer.size \in Nat /\ writer.size <= W!BufferBytes /\ writer.buffer \in {0, 1}
  BY WriterTypes, Sizes
<1>3. n1 \in Nat /\ n2 \in Nat
  BY <1>2, WriterProducts DEF WriterState
<1>4. t1 \in [1..n1 -> S] /\ \A k \in 1..n1 : t1[k] = wbuffer[writer.buffer][d + k - 1]
  <2>1. ASSUME writer.running, NEW k \in 1..writer.size - d
        PROVE  wbuffer[writer.buffer][d + k - 1] \in S
    <3>1. d + k - 1 \in W!Offsets
      BY <1>2, Sizes DEF W!Offsets
    <3>. QED
      BY <1>2, <3>1, WriterTypes
  <2>2. CASE writer.running
    BY <2>1, <2>2
  <2>3. CASE ~writer.running
    BY <2>3
  <2>. QED
    BY <2>2, <2>3
<1>5. t2 \in [1..n2 -> S] /\ \A k \in 1..n2 : t2[k] = wbuffer[wuse][k - 1]
  <2>1. ASSUME NEW k \in 1..num * Entry
        PROVE  wbuffer[wuse][k - 1] \in S
    <3>1. k - 1 \in W!Offsets
      BY WriterProducts, Sizes DEF W!Offsets
    <3>. QED
      BY <3>1, WriterTypes
  <2>2. CASE main # "finish"
    BY <2>1, <2>2
  <2>3. CASE main = "finish"
    BY <2>3
  <2>. QED
    BY <2>2, <2>3
<1>6. file \in Seq(S) /\ Len(file) \in Nat
  BY WriterTypes
<1>7. Reached = Len(file) + n1
  BY DEF Reached
<1>. HIDE DEF t1, t2, S
<1>8. /\ t1 \in Seq(S) /\ Len(t1) = n1 /\ t1 \o t2 \in Seq(S) /\ Len(t1 \o t2) = n1 + n2
      /\ \A k \in 1..n1 : (t1 \o t2)[k] = t1[k]
      /\ \A k \in 1..n2 : (t1 \o t2)[n1 + k] = t2[k]
  <2>. HIDE DEF n1, n2
  <2>1. t1 \in Seq(S) /\ Len(t1) = n1
    BY <1>3, <1>4
  <2>3. n2 \in Nat /\ t2 \in [1..n2 -> S] /\ t1 \in Seq(S)
    BY <1>3, <1>5, <2>1
  <2>2. /\ t1 \o t2 \in Seq(S) /\ Len(t1 \o t2) = Len(t1) + n2
        /\ \A k \in 1..Len(t1) : (t1 \o t2)[k] = t1[k]
        /\ \A k \in 1..n2 : (t1 \o t2)[Len(t1) + k] = t2[k]
    BY <2>3, Appended
  <2>. QED
    BY <2>1, <2>2
<1>9. t1 \o t2 \in [1..n1 + n2 -> S] /\ n1 + n2 \in Nat
  BY <1>3, <1>8, LenProperties
<1>. DEFINE held == file \o (t1 \o t2)
<1>10. /\ \A k \in 1..Len(file) : held[k] = file[k]
       /\ \A k \in 1..n1 + n2 : held[Len(file) + k] = (t1 \o t2)[k]
  <2>. HIDE DEF n1, n2
  <2>. QED
    BY <1>6, <1>9, Appended
<1>. HIDE DEF held
<1>11. W!Written \in Nat /\ W!Written * Entry = total + n2
  <2>1. N \in Nat /\ num \in Nat /\ total \in Nat /\ N * Entry = total
    BY WriterNumbers, WriterProducts
  <2>2. W!Written = IF main = "finish" THEN N ELSE N + num
    BY WriterNumbers
  <2>3. (N + num) * Entry = N * Entry + num * Entry
    BY <2>1, Positive
  <2>. QED
    BY <2>1, <2>2, <2>3
<1>12. (main = "finish" => n2 = 0 /\ Reached >= total) /\ (main # "finish" => Reached = total)
  BY DEF WriterState
<1>13. ASSUME NEW k \in 1..W!Written * Entry
       PROVE  held[k] = EntryOf(k)
  <2>1. k \in Nat \ {0} /\ k <= total + n2
    BY <1>3, <1>11, WriterNumbers
  <2>2. CASE k <= Len(file)
    <3>1. k <= total
      BY <1>3, <1>6, <1>7, <1>12, <2>1, <2>2, WriterNumbers
    <3>. QED
      BY <1>6, <1>10, <2>1, <2>2, <3>1 DEF WriterBytes, Numbered
  <2>3. CASE k > Len(file) /\ k <= Len(file) + n1
    <3>. DEFINE j == k - Len(file)
    <3>1. j \in 1..n1 /\ j \in 1..n1 + n2 /\ k = Len(file) + j
      BY <1>3, <1>6, <2>1, <2>3
    <3>2. k <= total
      BY <1>3, <1>7, <1>12, <2>1, <2>3, WriterNumbers
    <3>3. held[k] = wbuffer[writer.buffer][d + j - 1]
      <4>1. held[k] = (t1 \o t2)[j]
        BY <1>10, <3>1
      <4>2. (t1 \o t2)[j] = t1[j]
        BY <1>8, <3>1
      <4>. QED
        BY <1>4, <3>1, <4>1, <4>2
    <3>4. writer.running /\ d + j - 1 \in d..writer.size - 1 /\ Len(file) - d + (d + j - 1) + 1 = k
      <4>1. writer.running /\ j \in 1..writer.size - d
        BY <3>1
      <4>. HIDE DEF d, n1, n2, j
      <4>. QED
        BY <1>2, <1>6, <3>1, <4>1
    <3>. QED
      BY <3>2, <3>3, <3>4 DEF WriterBytes, Numbered
  <2>4. CASE k > Len(file) + n1
    <3>. DEFINE j == k - total
    <3>5. main # "finish" /\ n2 = num * Entry
      <4>1. main = "finish" => n2 = 0
        BY <1>12
      <4>. HIDE DEF n1, n2
      <4>2. main # "finish"
        BY <4>1, <1>3, <1>6, <1>7, <1>12, <2>1, <2>4, WriterNumbers
      <4>. QED
        BY <4>2 DEF n2
    <3>1. /\ j \in 1..n2 /\ n1 + j \in 1..n1 + n2
          /\ k = Len(file) + (n1 + j) /\ j - 1 \in 0..n2 - 1 /\ total + (j - 1) + 1 = k
      <4>1. Len(file) + n1 = total /\ total \in Nat /\ Len(file) \in Nat
        BY <1>6, <1>7, <1>12, <3>5, WriterNumbers
      <4>. HIDE DEF n1, n2
      <4>. QED
        BY <4>1, <1>3, <2>1, <2>4
    <3>2. held[k] = wbuffer[wuse][j - 1]
      <4>1. held[k] = (t1 \o t2)[n1 + j]
        BY <1>10, <3>1
      <4>2. (t1 \o t2)[n1 + j] = t2[j]
        BY <1>8, <3>1
      <4>. QED
        BY <1>5, <3>1, <4>1, <4>2
    <3>. QED
      BY <3>5, <3>1, <3>2 DEF WriterBytes
  <2>. QED
    BY <1>3, <1>6, <2>1, <2>2, <2>3, <2>4
<1>14. W!EntriesOf(held, W!Written) = [e \in 1..W!Written |-> e]
  <2>. DEFINE c == [e \in 1..W!Written |-> e]
  <2>1. c \in [1..W!Written -> Int] /\ \A e \in 1..W!Written : c[e] = e
    OBVIOUS
  <2>. HIDE DEF c
  <2>2. ASSUME NEW k \in 1..W!Written * Entry
        PROVE  held[k] = c[EntryOf(k)]
    <3>1. W!Written * Entry \in Nat /\ InEntries(W!Written * Entry)
          /\ EntriesIn(W!Written * Entry) = W!Written
      BY <1>11, InBytes
    <3>2. k \in Nat \ {0} /\ k <= W!Written * Entry
      BY <3>1
    <3>3. EntryOf(k) \in 1..W!Written
      BY <1>11, <3>1, <3>2, EntryOfIs
    <3>. QED
      BY <1>13, <2>1, <3>3
  <2>3. W!EntriesOf(held, W!Written) = c
    <3>. DEFINE n == W!Written
    <3>1. n \in Nat /\ c \in [1..n -> Int] /\ \A k \in 1..n * Entry : held[k] = c[EntryOf(k)]
      BY <1>11, <2>1, <2>2
    <3>. HIDE DEF n
    <3>2. W!EntriesOf(held, n) = c
      BY <3>1, EntriesOfIs
    <3>. QED
      BY <3>2 DEF n
  <2>. QED
    BY <2>3 DEF c
<1>. QED
  BY <1>1, <1>11, <1>14 DEF held

-----------------------------------------------------------------------------
(* The reader.                                                             *)

LEMMA ReaderTypes ==
  ASSUME ReaderState
  PROVE  /\ main \in {"closed", "first", "ready", "got", "end", "leaving"}
         /\ file \in Seq(-MaxEntries..R!Junk) /\ size \in Nat
         /\ buffer \in [{0, 1} -> [R!Offsets -> -MaxEntries..R!Junk]]
         /\ bytes \in [{0, 1} -> 0..R!BufferBytes]
         /\ place \in [{0, 1} -> 0..size]
         /\ \A b \in {0, 1} : InEntries(bytes[b])
BY DEF ReaderState, R!TypeOK, InEntries

LEMMA ReaderNumbers ==
  ASSUME ReaderState
  PROVE  /\ Len(file) \in Nat /\ size \in Nat /\ total \in Nat /\ N \in Nat
         /\ \A b \in {0, 1} : bytes[b] \in Nat /\ bytes[b] <= R!BufferBytes /\ place[b] \in Nat
         /\ use \in {0, 1} /\ Background \in {0, 1} /\ Background # use
         /\ R!background = Background /\ \A b \in {0, 1} : b = use \/ b = Background
         /\ read \in Nat /\ read <= size /\ offset \in Nat
         /\ done \in Nat /\ done <= R!BufferBytes /\ N <= MaxEntries
         /\ thread \in {"none", "start", "write", "truncate", "seek", "read"}
         /\ update \in BOOLEAN /\ passes \in 0..2 /\ InEntries(total)
<1>1. /\ file \in Seq(-MaxEntries..R!Junk) /\ size \in Nat /\ total \in Nat /\ use \in {0, 1}
      /\ bytes \in [{0, 1} -> 0..R!BufferBytes] /\ place \in [{0, 1} -> 0..size]
      /\ read \in 0..size /\ offset \in Nat /\ done \in 0..R!BufferBytes
      /\ thread \in {"none", "start", "write", "truncate", "seek", "read"}
      /\ update \in BOOLEAN /\ passes \in 0..2 /\ InEntries(total) /\ N <= MaxEntries
  BY DEF ReaderState, R!TypeOK
<1>2. R!BufferBytes \in Nat
  BY Sizes
<1>3. \A b \in {0, 1} : bytes[b] \in 0..R!BufferBytes /\ place[b] \in 0..size
  BY <1>1
<1>4. \A b \in {0, 1} : bytes[b] \in Nat /\ bytes[b] <= R!BufferBytes /\ place[b] \in Nat
  BY <1>1, <1>2, <1>3
<1>5. read \in Nat /\ read <= size /\ done \in Nat /\ done <= R!BufferBytes
  BY <1>1, <1>2
<1>6. /\ Background \in {0, 1} /\ Background # use
      /\ R!background = Background /\ \A b \in {0, 1} : b = use \/ b = Background
  BY <1>1 DEF Background, R!background
<1>7. Len(file) \in Nat
  BY <1>1
<1>8. N \in Nat
  BY <1>1, InNumbers DEF N
<1>. QED
  BY <1>1, <1>4, <1>5, <1>6, <1>7, <1>8

LEMMA ReaderWritten ==
  ASSUME ReaderState
  PROVE  W!Written = N /\ N * Entry = total /\ ~InWriter /\ Len(file) >= total
<1>1. total \in Nat /\ InEntries(total)
  BY ReaderNumbers
<1>2. N \in Nat /\ N * Entry = total
  BY <1>1, InNumbers DEF N
<1>3. main \notin {"fill", "full", "finish"}
  BY ReaderTypes
<1>4. W!Written = N
  BY <1>2, <1>3 DEF W!Written, N, EntriesIn
<1>. QED
  BY <1>2, <1>3, <1>4 DEF InWriter, ReaderState

LEMMA EntryInFile ==
  ASSUME ReaderState, NEW k \in 1..total
  PROVE  EntryOf(k) \in 1..N /\ EntryOf(k) \in Int /\ EntryOf(k) <= MaxEntries
<1>1. k \in Nat \ {0} /\ k <= total /\ total \in Nat /\ InEntries(total)
  BY ReaderNumbers
<1>2. EntryOf(k) \in Nat \ {0} /\ EntryOf(k) <= N
  BY <1>1, EntryOfIs DEF N
<1>. QED
  BY <1>2, ReaderNumbers, Positive

(* While the file is open, a buffer lies inside it.                        *)
LEMMA BuffersInFile ==
  ASSUME ReaderState, main # "closed", NEW b \in {0, 1}
  PROVE  /\ Filled(b) \in Nat /\ place[b] + Filled(b) <= total /\ size = total
         /\ Filled(b) <= R!BufferBytes
         /\ R!Buffered(b) => Filled(b) = bytes[b]
<1>1. Reader
  BY DEF ReaderState
<1>2. b = use \/ b = Background
  BY ReaderNumbers
<1>3. R!Buffered(b) => Filled(b) = bytes[b]
  BY ReaderNumbers DEF R!Buffered, Filled
<1>4. size = total /\ Tiled /\ (thread = "read" => read + done <= size)
  BY <1>1 DEF Reader
<1>5. Filled(b) \in Nat /\ Filled(b) <= R!BufferBytes
  BY ReaderNumbers DEF Filled
<1>6. /\ place[use] \in Nat /\ bytes[use] \in Nat /\ read \in Nat /\ done \in Nat
      /\ place[Background] \in Nat /\ bytes[Background] \in Nat /\ read <= size /\ size \in Nat
      /\ Background # use
      /\ thread \in {"none", "start", "write", "truncate", "seek", "read"}
  BY ReaderNumbers
<1>7. /\ place[use] + Filled(use) <= size
      /\ place[Background] + Filled(Background) <= size
  <2>1. /\ Filled(use) = bytes[use]
        /\ Filled(Background) = IF thread = "read" THEN done ELSE bytes[Background]
    BY <1>6 DEF Filled
  <2>2. /\ place[use] + bytes[use] <= read
        /\ thread = "read" => place[Background] = read
        /\ thread # "read" => place[Background] + bytes[Background] <= read
    BY <1>4, <1>6 DEF Tiled
  <2>. QED
    BY <1>4, <1>6, <2>1, <2>2
<1>8. b = use \/ b = Background
  BY ReaderNumbers
<1>9. place[b] + Filled(b) <= total
  BY <1>4, <1>7, <1>8
<1>. QED
  BY <1>3, <1>4, <1>5, <1>9

(* The bytes of the file, with those in the buffers, are the entries.      *)
LEMMA ReaderContent ==
  ASSUME NEW c, ReaderInv(c)
  PROVE  W!EntriesOf(R!Bytes, W!Written) = c
<1>. USE DEF ReaderInv
<1>1. N \in Nat /\ N * Entry = total /\ c \in [1..N -> Int] /\ W!Written = N
  BY ReaderNumbers, ReaderWritten DEF ReaderBytes, Entries
<1>2. \A k \in 1..total : R!Bytes[k] = R!ByteAt(k)
  <2>1. CASE main = "closed"
    <3>1. Len(file) = total
      BY <2>1 DEF ReaderState
    <3>. QED
      BY <2>1, <3>1 DEF R!Bytes
  <2>2. CASE main # "closed"
    <3>1. size = total
      BY <2>2 DEF ReaderState, Reader
    <3>. QED
      BY <2>2, <3>1 DEF R!Bytes
  <2>. QED
    BY <2>1, <2>2
<1>3. ASSUME NEW k \in 1..total
      PROVE  R!ByteAt(k) = c[EntryOf(k)]
  <2>. DEFINE At(b) == R!Buffered(b) /\ k - 1 \in place[b]..place[b] + bytes[b] - 1
  <2>1. CASE \E b \in {0, 1} : At(b)
    <3>1. PICK b : /\ b \in {0, 1} /\ At(b) /\ R!ByteAt(k) = buffer[b][k - 1 - place[b]]
      <4>. DEFINE b0 == CHOOSE b \in {0, 1} : At(b)
      <4>1. b0 \in {0, 1} /\ At(b0)
        BY <2>1
      <4>2. R!ByteAt(k) = buffer[b0][k - 1 - place[b0]]
        BY <2>1 DEF R!ByteAt
      <4>. HIDE DEF b0
      <4>. QED
        BY <4>1, <4>2
    <3>2. main # "closed" /\ Filled(b) = bytes[b]
      BY <3>1, BuffersInFile DEF R!Buffered
    <3>3. k - 1 - place[b] \in 0..Filled(b) - 1 /\ place[b] + (k - 1 - place[b]) + 1 = k
      <4>1. place[b] \in Nat /\ bytes[b] \in Nat
        BY <3>1, ReaderNumbers
      <4>. QED
        BY <3>1, <3>2, <4>1
    <3>4. buffer[b][k - 1 - place[b]] = c[EntryOf(place[b] + (k - 1 - place[b]) + 1)]
      BY <3>1, <3>2, <3>3 DEF ReaderBytes, BuffersHold
    <3>. QED
      BY <3>1, <3>3, <3>4
  <2>2. CASE ~ \E b \in {0, 1} : At(b)
    <3>1. R!ByteAt(k) = file[k]
      BY <2>2 DEF R!ByteAt
    <3>2. main = "closed" \/ ~Stale(k)
      <4>. SUFFICES ASSUME main # "closed", Stale(k) PROVE FALSE
        OBVIOUS
      <4>1. PICK b : /\ b \in {0, 1} /\ R!Buffered(b)
                     /\ k \in place[b] + 1..place[b] + bytes[b]
        <5>. use \in {0, 1} /\ Background \in {0, 1} /\ Background # use /\ R!background = Background
          BY ReaderNumbers
        <5>1. R!Buffered(use)
          BY DEF R!Buffered
        <5>2. thread \in {"start", "write"} => R!Buffered(Background)
          BY DEF R!Buffered
        <5>3. CASE k \in place[use] + 1..place[use] + bytes[use]
          BY <5>1, <5>3
        <5>4. CASE /\ thread \in {"start", "write"}
                   /\ k \in place[Background] + done + 1..place[Background] + bytes[Background]
          <6>1. /\ place[Background] \in Nat /\ done \in Nat /\ bytes[Background] \in Nat
            BY ReaderNumbers
          <6>2. k \in place[Background] + 1..place[Background] + bytes[Background]
            BY <5>4, <6>1
          <6>. QED
            BY <5>2, <5>4, <6>2
        <5>. QED
          BY <5>3, <5>4 DEF Stale
      <4>2. k - 1 \in place[b]..place[b] + bytes[b] - 1
        <5>1. place[b] \in Nat /\ bytes[b] \in Nat
          BY <4>1, ReaderNumbers
        <5>. QED
          BY <4>1, <5>1
      <4>. QED
        BY <2>2, <4>1, <4>2
    <3>. QED
      BY <3>1, <3>2 DEF ReaderBytes, FileHolds
  <2>. QED
    BY <2>1, <2>2
<1>4. \A k \in 1..N * Entry : R!Bytes[k] = c[EntryOf(k)]
  BY <1>1, <1>2, <1>3
<1>. QED
  BY <1>1, <1>4, EntriesOfIs

-----------------------------------------------------------------------------
(* What the invariant says of a file that a kill leaves behind.            *)

LEMMA PlacedIs ==
  BytesInPlace <=> \A k \in 1..Len(file) :
                     file[k] \in IF EntryOf(k) <= W!Written THEN {EntryOf(k), -EntryOf(k)} ELSE {0}
BY DEF BytesInPlace, EntryOf

LEMMA WriterPlaced ==
  ASSUME WriterInv
  PROVE  BytesInPlace
<1>. USE DEF WriterInv
<1>1. ASSUME NEW k \in 1..Len(file)
      PROVE  file[k] \in IF EntryOf(k) <= W!Written THEN {EntryOf(k), -EntryOf(k)} ELSE {0}
  <2>1. file[k] = Numbered(k)
    BY DEF WriterBytes
  <2>2. /\ k \in Nat \ {0} /\ k <= Len(file) /\ total \in Nat /\ InEntries(total)
        /\ N \in Nat /\ num \in Nat /\ Len(file) \in Nat
        /\ W!Written = IF main = "finish" THEN N ELSE N + num
    BY WriterNumbers
  <2>3. EntryOf(k) \in Nat \ {0} /\ (EntryOf(k) <= N <=> k <= total)
    BY <2>2, EntryOfIs DEF N
  <2>4. CASE k <= total
    BY <2>1, <2>2, <2>3, <2>4 DEF Numbered
  <2>5. CASE k > total
    <3>1. writer.size \in Nat /\ writer.done \in Nat
      BY WriterTypes, Sizes
    <3>2. main # "finish" => Len(file) <= total
      BY <2>2, <3>1 DEF WriterState, Reached
    <3>. QED
      BY <2>1, <2>2, <2>3, <2>5, <3>2 DEF Numbered
  <2>. QED
    BY <2>2, <2>4, <2>5
<1>. QED
  BY <1>1, PlacedIs

LEMMA ReaderPlaced ==
  ASSUME NEW c, ReaderInv(c)
  PROVE  BytesInPlace
<1>. USE DEF ReaderInv
<1>1. ASSUME NEW k \in 1..Len(file)
      PROVE  file[k] \in IF EntryOf(k) <= W!Written THEN {EntryOf(k), -EntryOf(k)} ELSE {0}
  <2>1. file[k] \in IF k <= total THEN {EntryOf(k), -EntryOf(k)} ELSE {0}
    BY DEF ReaderBytes, FileHolds
  <2>2. k \in Nat \ {0} /\ total \in Nat /\ InEntries(total) /\ W!Written = N
    BY ReaderNumbers, ReaderWritten
  <2>3. EntryOf(k) <= N <=> k <= total
    BY <2>2, EntryOfIs DEF N
  <2>. QED
    BY <2>1, <2>2, <2>3
<1>. QED
  BY <1>1, PlacedIs

-----------------------------------------------------------------------------
(* The steps of a pass.                                                    *)

(* The file is opened.                                                     *)
LEMMA OpenStep ==
  ASSUME NEW c, ReaderInv(c), Open
  PROVE  ReaderInv(c)'
<1>. USE DEF ReaderInv
<1>1. /\ main = "closed" /\ main' = "first" /\ passes < 2 /\ passes' = passes + 1
      /\ update' = (passes = 0) /\ size' = Len(file) /\ file' = file /\ total' = total
      /\ buffer' = [b \in {0, 1} |-> [o \in R!Offsets |-> R!Junk]]
      /\ bytes' = [b \in {0, 1} |-> 0] /\ place' = [b \in {0, 1} |-> 0]
      /\ use' = 0 /\ position' = 0 /\ max' = 0 /\ read' = 0 /\ offset' = 0
      /\ thread' = "start" /\ done' = 0
  BY DEF Open, R!Start, R!Goto, wvars
<1>2. Len(file) = total /\ passes \in 0..1 /\ total \in Nat /\ InEntries(total) /\ N <= MaxEntries
      /\ file \in Seq(-MaxEntries..R!Junk)
  BY <1>1, ReaderNumbers, ReaderTypes DEF ReaderState
<1>3. InEntries(0) /\ EntriesIn(0) = 0 /\ InBlocks(0)
      /\ 0 \in 0..R!BufferBytes /\ 0 \in 0..ReadEntries
  BY Zero, Sizes, Positive
<1>4. R!TypeOK'
  <2>1. R!Junk \in -MaxEntries..R!Junk
    BY Positive
  <2>2. buffer' \in [{0, 1} -> [R!Offsets -> -MaxEntries..R!Junk]]
    BY <1>1, <2>1
  <2>3. bytes' \in [{0, 1} -> {n \in 0..R!BufferBytes : n % Entry = 0}]
    BY <1>1, <1>3 DEF InEntries
  <2>4. place' \in [{0, 1} -> 0..size']
    BY <1>1, <1>2
  <2>5. size' \in Nat /\ size' % Entry = 0 /\ read' \in 0..size' /\ update' \in BOOLEAN
    BY <1>1, <1>2 DEF InEntries
  <2>. QED
    BY <1>1, <1>2, <1>3, <2>2, <2>3, <2>4, <2>5 DEF R!TypeOK
<1>5. Background' = 1 /\ N' = N /\ \A b \in {0, 1} : Filled(b)' = 0
  BY <1>1 DEF Background, N, Filled, EntriesIn
<1>6. Reader'
  <2>1. Tiled'
    BY <1>1, <1>5 DEF Tiled
  <2>2. passes' \in 1..2 /\ update' = (passes' = 1)
    BY <1>1, <1>2
  <2>3. \A b \in {0, 1} : InBlocks(Filled(b))' /\ InEntries(place[b])'
    BY <1>1, <1>3, <1>5 DEF InBlocks, InEntries
  <2>4. InEntries(read)'
    BY <1>1, <1>3 DEF InEntries
  <2>. QED
    BY <1>1, <1>2, <1>5, <2>1, <2>2, <2>3, <2>4 DEF Reader
<1>7. ReaderState'
  <2>1. passes' \in 0..2
    BY <1>1, <1>2
  <2>. QED
    BY <1>1, <1>2, <1>4, <1>5, <1>6, <2>1 DEF ReaderState, InEntries
<1>8. ReaderBytes(c)'
  <2>1. Entries(c)'
    BY <1>5 DEF ReaderBytes, Entries
  <2>2. FileHolds(c)'
    BY <1>1 DEF ReaderBytes, FileHolds, EntryOf
  <2>3. Untouched(c)'
    BY <1>1, <1>2, <1>5 DEF ReaderBytes, Untouched
  <2>4. BuffersHold(c)'
    BY <1>1, <1>5 DEF BuffersHold
  <2>. QED
    BY <2>1, <2>2, <2>3, <2>4 DEF ReaderBytes
<1>. QED
  BY <1>7, <1>8

(* The entries of a buffer.                                                *)
LEMMA BufferEntriesAre ==
  ASSUME ReaderState, NEW b \in {0, 1}
  PROVE  /\ EntriesIn(bytes[b]) \in Nat /\ EntriesIn(bytes[b]) <= ReadEntries
         /\ EntriesIn(bytes[b]) * Entry = bytes[b]
         /\ EntriesIn(bytes[b]) = 0 <=> bytes[b] = 0
<1>1. bytes[b] \in Nat /\ bytes[b] <= R!BufferBytes /\ InEntries(bytes[b])
  BY ReaderNumbers, ReaderTypes
<1>. DEFINE n == EntriesIn(bytes[b])
<1>2. n \in Nat /\ n * Entry = bytes[b]
  BY <1>1, InNumbers
<1>. HIDE DEF n
<1>3. ReadEntries \in Nat /\ n * Entry <= ReadEntries * Entry
  BY <1>1, <1>2, Sizes, Positive
<1>4. n <= ReadEntries
  BY <1>2, <1>3, InOrder
<1>5. n = 0 <=> bytes[b] = 0
  <2>1. 0 * Entry = 0 /\ (0 < n <=> 0 * Entry < n * Entry)
    BY <1>2, InOrder
  <2>. QED
    BY <1>1, <1>2, <2>1
<1>. QED
  BY <1>2, <1>4, <1>5 DEF n

(* Types of what a step of the caller writes.                              *)
LEMMA CallerTypes ==
  ASSUME ReaderState, UNCHANGED <<file, update, size, bytes, place, read, offset, done>>,
         buffer' \in [{0, 1} -> [R!Offsets -> -MaxEntries..R!Junk]],
         main' \in {"closed", "first", "ready", "got", "end", "leaving"},
         use' \in {0, 1}, position' \in Nat, position' <= ReadEntries,
         max' \in Nat, max' <= ReadEntries,
         thread' \in {"none", "start", "write", "truncate", "seek", "read"}
  PROVE  R!TypeOK'
<1>1. position' \in 0..ReadEntries /\ max' \in 0..ReadEntries
  BY Positive
<1>. QED
  BY <1>1 DEF ReaderState, R!TypeOK

(* The buffers change places, and a new thread takes the one that was used. *)
LEMMA HandOver ==
  ASSUME NEW c, ReaderInv(c), main # "closed",
         main' \in {"ready", "got", "end", "leaving"},
         thread = "none", thread' = "start", use' = 1 - use,
         UNCHANGED <<file, update, size, buffer, bytes, place, read, offset, done, wvars, passes>>,
         position' \in Nat, position' <= ReadEntries, max' \in Nat, max' <= ReadEntries,
         main' \in {"ready", "got"} => position' <= max' /\ max' = EntriesIn(bytes[1 - use]),
         main' = "got" => position' > 0,
         Untouched(c)'
  PROVE  ReaderInv(c)'
<1>. USE DEF ReaderInv
<1>1. /\ file' = file /\ update' = update /\ size' = size /\ buffer' = buffer /\ bytes' = bytes
      /\ place' = place /\ read' = read /\ offset' = offset /\ done' = done /\ passes' = passes
      /\ total' = total
  BY DEF wvars
<1>2. /\ Reader /\ Tiled /\ done = 0 /\ offset = read /\ Len(file) = total
      /\ use \in {0, 1} /\ Background = 1 - use
  BY ReaderNumbers DEF ReaderState, Reader, Background
<1>3. use' = Background /\ Background' = use /\ N' = N
  BY <1>1, <1>2 DEF Background, N, EntriesIn
<1>4. ASSUME NEW b \in {0, 1}
      PROVE  Filled(b)' = bytes[b] /\ Filled(b) = bytes[b]
  BY <1>1 DEF Filled
<1>5. R!TypeOK'
  <2>1. use' \in {0, 1}
    BY <1>2
  <2>2. buffer' \in [{0, 1} -> [R!Offsets -> -MaxEntries..R!Junk]]
    BY <1>1, ReaderTypes
  <2>. QED
    BY <1>1, <2>1, <2>2, CallerTypes
<1>6. Tiled'
  BY <1>1, <1>2, <1>3, ReaderNumbers DEF Tiled
<1>7. Reader'
  <2>1. \A b \in {0, 1} : (InBlocks(Filled(b)) \/ place[b] + Filled(b) = size)'
    BY <1>1, <1>2, <1>4 DEF Reader, InBlocks
  <2>2. \A b \in {0, 1} : InEntries(place[b])'
    BY <1>1, <1>2 DEF Reader, InEntries
  <2>3. max' = EntriesIn(bytes[1 - use]) => max' = EntriesIn(bytes[use])'
    BY <1>1, <1>3 DEF EntriesIn, Background
  <2>. QED
    BY <1>1, <1>2, <1>6, <2>1, <2>2, <2>3 DEF Reader, InEntries
<1>8. ReaderState'
  BY <1>1, <1>2, <1>3, <1>5, <1>7 DEF ReaderState, InEntries
<1>9. ASSUME NEW k \in 1..total, ~Stale(k)'
      PROVE  ~Stale(k)
  <2>1. place[use] \in Nat /\ bytes[use] \in Nat
    BY ReaderNumbers
  <2>2. ASSUME Stale(k) PROVE Stale(k)'
    <3>1. update /\ k \in place[use] + 1..place[use] + bytes[use]
      BY <2>2, <1>2 DEF Stale
    <3>2. k \in place[use] + done + 1..place[use] + bytes[use]
      BY <1>2, <2>1, <3>1
    <3>. QED
      BY <1>1, <1>3, <3>1, <3>2 DEF Stale
  <2>. QED
    BY <1>9, <2>2
<1>10. FileHolds(c)'
  BY <1>1, <1>9 DEF ReaderBytes, FileHolds, EntryOf
<1>11. BuffersHold(c)'
  <2>1. ASSUME NEW b \in {0, 1}, NEW o \in 0..Filled(b)' - 1
        PROVE  buffer'[b][o] = c[EntryOf(place'[b] + o + 1)]
    BY <1>1, <1>4 DEF ReaderBytes, BuffersHold
  <2>. QED
    BY <2>1 DEF BuffersHold, EntryOf
<1>12. Entries(c)'
  BY <1>3 DEF ReaderBytes, Entries
<1>. QED
  BY <1>8, <1>10, <1>11, <1>12 DEF ReaderBytes

LEMMA StartedStep ==
  ASSUME NEW c, ReaderInv(c), R!Started, UNCHANGED <<wvars, passes>>
  PROVE  ReaderInv(c)'
<1>. USE DEF ReaderInv
<1>1. /\ main = "first" /\ main' = "ready" /\ thread = "none" /\ thread' = "start"
      /\ use' = 1 - use /\ max' = EntriesIn(bytes[use']) /\ position' = position
      /\ UNCHANGED <<file, update, size, buffer, bytes, place, read, offset, done>>
  BY DEF R!Started, R!Goto, EntriesIn
<1>2. position = 0 /\ use \in {0, 1} /\ 1 - use \in {0, 1}
  BY <1>1, ReaderNumbers DEF ReaderState, Reader
<1>3. max' \in Nat /\ max' <= ReadEntries /\ ReadEntries \in Nat
  BY <1>1, <1>2, BufferEntriesAre, Positive
<1>4. Untouched(c)'
  <2>1. N' = N /\ passes' = passes
    BY DEF wvars, N, EntriesIn
  <2>2. passes = 1 => \A e \in 1..N : c[e] = e
    BY <1>1 DEF ReaderBytes, Untouched
  <2>3. passes # 0
    BY <1>1 DEF ReaderState, Reader
  <2>. QED
    BY <1>1, <2>1, <2>2, <2>3 DEF Untouched
<1>. QED
  BY <1>1, <1>2, <1>3, <1>4, HandOver

(* The last entry of a buffer precedes the first of the other.             *)
LEMMA SwapHands ==
  ASSUME ReaderState, main # "closed", thread = "none", main = "ready", position >= max
  PROVE  /\ R!HandedOut = EntriesIn(place[1 - use])
         /\ place[1 - use] \in Nat /\ InEntries(place[1 - use])
         /\ place[1 - use] + bytes[1 - use] = read
<1>1. /\ Tiled /\ position <= max /\ max = EntriesIn(bytes[use]) /\ position \in Int
      /\ \A b \in {0, 1} : InEntries(place[b])
  BY ReaderNumbers DEF ReaderState, Reader, R!TypeOK
<1>2. /\ use \in {0, 1} /\ 1 - use \in {0, 1} /\ place[use] \in Nat /\ bytes[use] \in Nat
      /\ place[1 - use] \in Nat /\ InEntries(bytes[use]) /\ Background = 1 - use
  BY ReaderNumbers, ReaderTypes DEF Background
<1>3. max \in Nat
  BY <1>1, <1>2, BufferEntriesAre
<1>4. position = EntriesIn(bytes[use])
  BY <1>1, <1>3
<1>5. EntriesIn(place[use] + bytes[use]) = EntriesIn(place[use]) + EntriesIn(bytes[use])
  BY <1>1, <1>2, InSums
<1>6. place[use] + bytes[use] = place[1 - use] /\ place[1 - use] + bytes[1 - use] = read
  BY <1>1, <1>2 DEF Tiled
<1>7. R!HandedOut = EntriesIn(place[use]) + position
  BY DEF R!HandedOut, EntriesIn
<1>. QED
  BY <1>1, <1>2, <1>4, <1>5, <1>6, <1>7

LEMMA SwapBuffersStep ==
  ASSUME NEW c, ReaderInv(c), R!SwapBuffers, UNCHANGED <<wvars, passes>>
  PROVE  /\ ReaderInv(c)'
         /\ main' = "got" => R!HandedOut' = R!HandedOut + 1 /\ R!HandedOut < N
         /\ main' = "end" => R!HandedOut' = R!HandedOut /\ R!HandedOut = N
         /\ R!HandedOut \in Nat /\ main' \in {"got", "end"}
<1>. USE DEF ReaderInv
<1>1. /\ main = "ready" /\ position >= max /\ thread = "none" /\ thread' = "start"
      /\ use' = 1 - use /\ max' = EntriesIn(bytes[use'])
      /\ UNCHANGED <<file, update, size, buffer, bytes, place, read, offset, done>>
      /\ \/ max' = 0 /\ main' = "end" /\ position' = 0
         \/ max' > 0 /\ main' = "got" /\ position' = 1
  BY DEF R!SwapBuffers, EntriesIn
<1>2. /\ R!HandedOut = EntriesIn(place[1 - use]) /\ place[1 - use] \in Nat
      /\ InEntries(place[1 - use]) /\ place[1 - use] + bytes[1 - use] = read
  BY <1>1, SwapHands
<1>3. EntriesIn(place[1 - use]) \in Nat
  BY <1>2, InNumbers
<1>4. 1 - use \in {0, 1} /\ Background = 1 - use
  BY ReaderNumbers DEF Background
<1>5. /\ max' \in Nat /\ max' <= ReadEntries /\ ReadEntries \in Nat \ {0}
      /\ max' * Entry = bytes[1 - use] /\ (max' = 0 <=> bytes[1 - use] = 0)
      /\ InEntries(bytes[1 - use]) /\ bytes[1 - use] \in Nat
  BY <1>1, <1>4, BufferEntriesAre, Positive, ReaderTypes, ReaderNumbers
<1>6. R!HandedOut' = EntriesIn(place[1 - use]) + position'
  BY <1>1 DEF R!HandedOut, EntriesIn
<1>7. EntriesIn(read) = EntriesIn(place[1 - use]) + max'
  BY <1>1, <1>2, <1>5, InSums
<1>8. /\ read \in Nat /\ read <= total /\ InEntries(read) /\ InEntries(total) /\ size = total
      /\ total \in Nat /\ N \in Nat /\ N * Entry = total
      /\ bytes[1 - use] = R!BufferBytes \/ read = total
  BY <1>1, <1>4, ReaderNumbers, ReaderWritten DEF ReaderState, Reader
<1>9. EntriesIn(read) \in Nat /\ EntriesIn(read) <= N
  <2>1. EntriesIn(read) \in Nat /\ EntriesIn(read) * Entry = read
    BY <1>8, InNumbers
  <2>. QED
    BY <1>8, <2>1, InOrder
<1>10. main' = "got" => R!HandedOut' = R!HandedOut + 1 /\ R!HandedOut < N
  BY <1>1, <1>2, <1>3, <1>5, <1>6, <1>7, <1>8, <1>9
<1>11. main' = "end" => R!HandedOut' = R!HandedOut /\ R!HandedOut = N
  <2>1. ASSUME main' = "end"
        PROVE  read = total
    BY <1>1, <1>5, <1>8, <2>1, Sizes
  <2>2. main' = "end" => EntriesIn(read) = N
    BY <2>1 DEF N
  <2>. QED
    BY <1>1, <1>2, <1>3, <1>5, <1>6, <1>7, <2>2
<1>12. Untouched(c)'
  <2>1. N' = N /\ passes' = passes
    BY DEF wvars, N, EntriesIn
  <2>2. passes # 0
    BY <1>1 DEF ReaderState, Reader
  <2>3. passes = 1 => \A e \in 1..N : e > R!HandedOut => c[e] = e
    BY <1>1 DEF ReaderBytes, Untouched
  <2>4. ASSUME main' = "got", passes = 1, NEW e \in 1..N, e >= R!HandedOut'
        PROVE  c[e] = e
    BY <1>2, <1>3, <1>10, <2>3, <2>4
  <2>. QED
    BY <1>1, <2>1, <2>2, <2>4 DEF Untouched
<1>13. position' \in Nat /\ position' <= ReadEntries /\ position' <= max'
  BY <1>1, <1>5
<1>14. ReaderInv(c)'
  BY <1>1, <1>5, <1>12, <1>13, HandOver
<1>. QED
  BY <1>1, <1>2, <1>3, <1>10, <1>11, <1>14

LEMMA FinishFileStep ==
  ASSUME NEW c, ReaderInv(c), R!Finish, UNCHANGED <<wvars, passes>>
  PROVE  ReaderInv(c)'
<1>. USE DEF ReaderInv
<1>1. /\ main \in {"ready", "end"} /\ main' = "leaving" /\ thread = "none" /\ thread' = "start"
      /\ use' = 1 - use /\ position' = position /\ max' = max
      /\ UNCHANGED <<file, update, size, buffer, bytes, place, read, offset, done>>
  BY DEF R!Finish
<1>2. position \in 0..ReadEntries /\ max \in 0..ReadEntries /\ ReadEntries \in Nat
  BY Positive DEF ReaderState, R!TypeOK
<1>3. position' \in Nat /\ position' <= ReadEntries /\ max' \in Nat /\ max' <= ReadEntries
  BY <1>1, <1>2
<1>4. Untouched(c)'
  <2>1. passes' # 0
    BY <1>1 DEF ReaderState, Reader
  <2>. QED
    BY <1>1, <2>1 DEF Untouched
<1>. QED
  BY <1>1, <1>3, <1>4, HandOver

(* The next entry is in the buffer, and in the file.                       *)
LEMMA NextInBufferStep ==
  ASSUME NEW c, ReaderInv(c), R!NextInBuffer, UNCHANGED <<wvars, passes>>
  PROVE  /\ ReaderInv(c)'
         /\ R!HandedOut' = R!HandedOut + 1 /\ R!HandedOut < N /\ R!HandedOut \in Nat
         /\ main = "ready" /\ main' = "got"
<1>. USE DEF ReaderInv
<1>1. /\ main = "ready" /\ main' = "got" /\ position < max /\ position' = position + 1
      /\ file' = file /\ update' = update /\ size' = size /\ buffer' = buffer /\ bytes' = bytes
      /\ place' = place /\ use' = use /\ max' = max /\ read' = read /\ offset' = offset
      /\ thread' = thread /\ done' = done /\ passes' = passes /\ total' = total
  BY DEF R!NextInBuffer, R!Goto, wvars
<1>2. Reader /\ max = EntriesIn(bytes[use]) /\ use \in {0, 1}
  BY <1>1, ReaderNumbers DEF ReaderState, Reader
<1>3. max \in Nat /\ max <= ReadEntries /\ position \in Nat /\ ReadEntries \in Nat
  BY <1>2, BufferEntriesAre, Positive DEF ReaderState, R!TypeOK
<1>4. N' = N /\ Background' = Background /\ \A b : Filled(b)' = Filled(b)
  BY <1>1 DEF N, EntriesIn, Background, Filled
<1>5. R!TypeOK'
  <2>1. position' \in Nat /\ position' <= ReadEntries /\ use' \in {0, 1}
        /\ thread' \in {"none", "start", "write", "truncate", "seek", "read"}
        /\ max' \in Nat /\ max' <= ReadEntries
    BY <1>1, <1>2, <1>3, ReaderNumbers
  <2>2. buffer' \in [{0, 1} -> [R!Offsets -> -MaxEntries..R!Junk]]
    BY <1>1, ReaderTypes
  <2>. QED
    BY <1>1, <2>1, <2>2, CallerTypes
<1>6. Tiled'
  BY <1>1, <1>2, <1>4 DEF Tiled, Reader
<1>7. Reader'
  <2>1. \A b \in {0, 1} : (InBlocks(Filled(b)) \/ place[b] + Filled(b) = size)'
    BY <1>1, <1>2, <1>4 DEF Reader, InBlocks
  <2>2. \A b \in {0, 1} : InEntries(place[b])'
    BY <1>1, <1>2 DEF Reader, InEntries
  <2>3. position' <= max' /\ position' > 0 /\ max' = (EntriesIn(bytes[use]))'
    BY <1>1, <1>2, <1>3 DEF EntriesIn
  <2>4. (thread = "write" => done < R!Rounded(bytes[Background]))'
    BY <1>1, <1>2, <1>4 DEF Reader, R!Rounded
  <2>. QED
    BY <1>1, <1>2, <1>4, <1>6, <2>1, <2>2, <2>3, <2>4 DEF Reader, InEntries, InBlocks
<1>8. ReaderState'
  BY <1>1, <1>2, <1>4, <1>5, <1>7 DEF ReaderState, InEntries, InBlocks
<1>9. \A k : Stale(k)' = Stale(k)
  BY <1>1, <1>4 DEF Stale
<1>10. FileHolds(c)'
  BY <1>1, <1>9 DEF ReaderBytes, FileHolds, EntryOf
<1>11. BuffersHold(c)'
  BY <1>1, <1>4 DEF ReaderBytes, BuffersHold, EntryOf, R!Rounded
<1>12. R!HandedOut = EntriesIn(place[use]) + position
  BY DEF R!HandedOut, EntriesIn
<1>13. /\ InEntries(place[use]) /\ place[use] \in Nat /\ InEntries(bytes[use]) /\ bytes[use] \in Nat
  BY <1>2, ReaderNumbers, ReaderTypes DEF Reader
<1>14. EntriesIn(place[use]) \in Nat
  BY <1>13, InNumbers
<1>15. R!HandedOut' = R!HandedOut + 1 /\ R!HandedOut \in Nat
  <2>1. R!HandedOut' = EntriesIn(place[use]) + position'
    BY <1>1 DEF R!HandedOut, EntriesIn
  <2>. QED
    BY <1>1, <1>3, <1>12, <1>14, <2>1
<1>16. R!HandedOut < N
  <2>. DEFINE a == place[use] + bytes[use]
  <2>1. EntriesIn(a) = EntriesIn(place[use]) + max /\ InEntries(a) /\ a \in Nat
    <3>1. /\ InEntries(place[use]) /\ place[use] \in Nat
          /\ InEntries(bytes[use]) /\ bytes[use] \in Nat
      BY <1>13
    <3>2. /\ InEntries(place[use] + bytes[use])
          /\ EntriesIn(place[use] + bytes[use]) = EntriesIn(place[use]) + EntriesIn(bytes[use])
      BY <3>1, InSums
    <3>. QED
      BY <1>2, <3>1, <3>2
  <2>2. a <= total
    <3>1. Filled(use) = bytes[use]
      BY ReaderNumbers DEF Filled
    <3>. QED
      BY <1>1, <1>2, <3>1, BuffersInFile
  <2>. HIDE DEF a
  <2>3. EntriesIn(a) \in Nat /\ EntriesIn(a) * Entry = a
    BY <2>1, InNumbers
  <2>4. N \in Nat /\ N * Entry = total
    BY ReaderNumbers, ReaderWritten
  <2>5. EntriesIn(a) <= N
    BY <2>2, <2>3, <2>4, InOrder
  <2>. QED
    BY <1>1, <1>3, <1>12, <1>14, <2>1, <2>4, <2>5
<1>17. Untouched(c)'
  <2>1. passes = 1 => \A e \in 1..N : e > R!HandedOut => c[e] = e
    BY <1>1 DEF ReaderBytes, Untouched
  <2>2. passes # 0
    BY <1>2, ReaderNumbers DEF Reader
  <2>3. \A e \in 1..N : e >= R!HandedOut' => e > R!HandedOut
    BY <1>15
  <2>. QED
    BY <1>1, <1>4, <2>1, <2>2, <2>3 DEF Untouched
<1>18. Entries(c)'
  BY <1>4 DEF ReaderBytes, Entries
<1>. QED
  BY <1>1, <1>8, <1>10, <1>11, <1>15, <1>16, <1>17, <1>18 DEF ReaderBytes

(* The file is closed when everything is back in it.                       *)
LEMMA FinishedStep ==
  ASSUME NEW c, ReaderInv(c), R!Finished, UNCHANGED <<wvars, passes>>
  PROVE  ReaderInv(c)'
<1>. USE DEF ReaderInv
<1>1. /\ main = "leaving" /\ main' = "closed" /\ thread = "none"
      /\ position' = position /\ max' = max
      /\ file' = file /\ update' = update /\ size' = size /\ buffer' = buffer /\ bytes' = bytes
      /\ place' = place /\ use' = use /\ read' = read /\ offset' = offset
      /\ thread' = thread /\ done' = done /\ passes' = passes /\ total' = total
  BY DEF R!Finished, R!Goto, wvars
<1>2. R!TypeOK'
  BY <1>1 DEF ReaderState, R!TypeOK
<1>3. N' = N
  BY <1>1 DEF N, EntriesIn
<1>4. ReaderState'
  BY <1>1, <1>2, <1>3 DEF ReaderState, InEntries
<1>5. \A k : ~Stale(k)
  BY <1>1 DEF Stale
<1>6. FileHolds(c)'
  BY <1>1, <1>5 DEF ReaderBytes, FileHolds, EntryOf
<1>7. Untouched(c)'
  <2>1. passes # 0
    BY <1>1 DEF ReaderState, Reader
  <2>. QED
    BY <1>1, <2>1 DEF Untouched
<1>8. Entries(c)'
  BY <1>3 DEF ReaderBytes, Entries
<1>. QED
  BY <1>1, <1>4, <1>6, <1>7, <1>8 DEF ReaderBytes

(* The bytes of a file outside the buffer in use are not of the entry that *)
(* was handed out.                                                         *)
LEMMA InUse ==
  ASSUME ReaderState, main = "got"
  PROVE  /\ R!HandedOut \in 1..N /\ R!HandedOut = EntriesIn(place[use]) + position
         /\ EntriesIn(place[use]) \in Nat /\ position \in Nat /\ position >= 1
         /\ \A k \in Nat \ {0} : EntryOf(k) = R!HandedOut =>
              k \in place[use] + 1..place[use] + bytes[use]
<1>1. /\ Reader /\ position <= max /\ position > 0 /\ max = EntriesIn(bytes[use])
      /\ use \in {0, 1} /\ position \in Int
  BY ReaderNumbers DEF ReaderState, Reader, R!TypeOK
<1>2. /\ place[use] \in Nat /\ InEntries(place[use]) /\ bytes[use] \in Nat /\ InEntries(bytes[use])
  BY <1>1, ReaderNumbers, ReaderTypes DEF Reader
<1>3. EntriesIn(place[use]) \in Nat /\ EntriesIn(bytes[use]) \in Nat
  BY <1>2, InNumbers
<1>. DEFINE a == place[use]
            z == place[use] + bytes[use]
<1>4. /\ InEntries(z) /\ EntriesIn(z) = EntriesIn(a) + EntriesIn(bytes[use]) /\ z \in Nat
  BY <1>2, InSums
<1>5. z <= total
  <2>1. Filled(use) = bytes[use]
    BY ReaderNumbers DEF Filled
  <2>. QED
    BY <1>1, <2>1, BuffersInFile
<1>6. R!HandedOut = EntriesIn(a) + position
  BY DEF R!HandedOut, EntriesIn
<1>. HIDE DEF z
<1>7. EntriesIn(z) <= N /\ N \in Nat
  <2>1. EntriesIn(z) \in Nat /\ EntriesIn(z) * Entry = z
    BY <1>4, InNumbers
  <2>2. N \in Nat /\ N * Entry = total
    BY ReaderNumbers, ReaderWritten
  <2>. QED
    BY <1>5, <2>1, <2>2, InOrder
<1>8. R!HandedOut \in 1..N /\ EntriesIn(a) < R!HandedOut /\ R!HandedOut <= EntriesIn(z)
  BY <1>1, <1>3, <1>4, <1>6, <1>7
<1>9. ASSUME NEW k \in Nat \ {0}, EntryOf(k) = R!HandedOut
      PROVE  k \in a + 1..z
  <2>1. EntryOf(k) <= EntriesIn(a) <=> k <= a
    BY <1>2, EntryOfIs
  <2>2. EntryOf(k) <= EntriesIn(z) <=> k <= z
    BY <1>4, EntryOfIs
  <2>. QED
    BY <1>2, <1>3, <1>4, <1>8, <1>9, <2>1, <2>2
<1>. QED
  BY <1>1, <1>3, <1>6, <1>8, <1>9 DEF z

(* The entry handed out is updated in its buffer.                          *)
LEMMA UseStep ==
  ASSUME NEW c, ReaderInv(c), R!Use, UNCHANGED <<wvars, passes>>,
         NEW d, d = IF update THEN [c EXCEPT ![R!HandedOut] = -c[R!HandedOut]] ELSE c
  PROVE  /\ ReaderInv(d)' /\ R!HandedOut' = R!HandedOut /\ R!HandedOut \in 1..N
         /\ main = "got" /\ main' = "ready" /\ (update => c[R!HandedOut] = R!HandedOut)
<1>. USE DEF ReaderInv
<1>1. /\ main = "got" /\ main' = "ready" /\ max' = max /\ position' = position
      /\ buffer' = IF update
                     THEN [buffer EXCEPT ![use] =
                             [o \in R!Offsets |-> IF o \div Entry = position - 1
                                                    THEN -buffer[use][o] ELSE buffer[use][o]]]
                     ELSE buffer
      /\ file' = file /\ update' = update /\ size' = size /\ bytes' = bytes
      /\ place' = place /\ use' = use /\ read' = read /\ offset' = offset
      /\ thread' = thread /\ done' = done /\ passes' = passes /\ total' = total
  BY DEF R!Use, R!Goto, wvars
<1>2. /\ Reader /\ position <= max /\ max = EntriesIn(bytes[use]) /\ use \in {0, 1}
      /\ update = (passes = 1) /\ passes # 0
  BY <1>1, ReaderNumbers DEF ReaderState, Reader
<1>. DEFINE h == R!HandedOut
<1>3. /\ h \in 1..N /\ h = EntriesIn(place[use]) + position
      /\ EntriesIn(place[use]) \in Nat /\ position \in Nat /\ position >= 1
      /\ \A k \in Nat \ {0} : EntryOf(k) = h => k \in place[use] + 1..place[use] + bytes[use]
  BY <1>1, InUse
<1>4. R!HandedOut' = h
  BY <1>1 DEF R!HandedOut
<1>5. c \in [1..N -> Int] /\ \A e \in 1..N : c[e] \in {e, -e}
  BY DEF ReaderBytes, Entries
<1>6. ASSUME update
      PROVE  c[h] = h /\ \A e \in 1..N : e > h => c[e] = e
  <2>1. passes = 1
    BY <1>2, <1>6
  <2>2. \A e \in 1..N : e >= h => c[e] = e
    BY <1>1, <2>1 DEF ReaderBytes, Untouched
  <2>. HIDE DEF h
  <2>. QED
    BY <1>3, <2>2
<1>. HIDE DEF h
<1>7. /\ d \in [1..N -> Int] /\ \A e \in 1..N : d[e] \in {e, -e}
      /\ \A e \in 1..N : e # h => d[e] = c[e]
      /\ update => d[h] = -c[h]
      /\ ~update => d = c
  <2>1. d = IF update THEN [c EXCEPT ![h] = -c[h]] ELSE c
    BY DEF h
  <2>2. CASE update
    <3>1. c[h] \in Int /\ -c[h] \in Int /\ -c[h] \in {h, -h}
      BY <1>3, <1>5
    <3>2. d = [c EXCEPT ![h] = -c[h]]
      BY <2>1, <2>2
    <3>. QED
      BY <1>3, <1>5, <2>2, <3>1, <3>2
  <2>3. CASE ~update
    BY <1>5, <2>1, <2>3
  <2>. QED
    BY <2>2, <2>3
<1>8. N' = N /\ Background' = Background /\ \A b : Filled(b)' = Filled(b)
  BY <1>1 DEF N, EntriesIn, Background, Filled
<1>9. max \in Nat /\ max <= ReadEntries /\ ReadEntries \in Nat /\ max * Entry = bytes[use]
  BY <1>2, BufferEntriesAre, Positive
<1>10. Filled(use) = bytes[use] /\ place[use] \in Nat /\ InEntries(place[use]) /\ bytes[use] \in Nat
  BY <1>2, ReaderNumbers DEF Filled, Reader
<1>11. ASSUME NEW o \in Nat, EntriesIn(o) = position - 1
       PROVE  o \in 0..bytes[use] - 1
  <2>1. EntriesIn(o) < max
    BY <1>2, <1>3, <1>9, <1>11
  <2>2. o < max * Entry
    BY <1>9, <2>1, InEntry
  <2>. QED
    BY <1>9, <1>10, <2>2
<1>12. ASSUME NEW o \in Nat
       PROVE  EntryOf(place[use] + o + 1) = h <=> EntriesIn(o) = position - 1
  <2>1. EntryOf(place[use] + o + 1) = EntriesIn(place[use]) + EntriesIn(o) + 1
    BY <1>10, EntryOfAt
  <2>2. EntriesIn(o) \in Nat
    BY InEntry, 0 \in Nat
  <2>. QED
    BY <1>3, <2>1, <2>2
<1>13. ASSUME NEW b \in {0, 1}, NEW o \in R!Offsets
       PROVE  buffer'[b][o] = IF update /\ b = use /\ EntriesIn(o) = position - 1
                                THEN -buffer[b][o] ELSE buffer[b][o]
  BY <1>1, <1>2, ReaderTypes DEF EntriesIn
<1>14. ASSUME NEW o \in 0..bytes[use] - 1
       PROVE  /\ o \in R!Offsets /\ o \in Nat
              /\ place[use] + o + 1 \in 1..total
              /\ buffer[use][o] = c[EntryOf(place[use] + o + 1)]
  <2>1. bytes[use] <= R!BufferBytes /\ R!BufferBytes \in Nat /\ total \in Nat
    BY <1>2, ReaderNumbers, Sizes
  <2>2. place[use] + bytes[use] <= total
    BY <1>1, <1>2, <1>10, BuffersInFile
  <2>3. buffer[use][o] = c[EntryOf(place[use] + o + 1)]
    BY <1>1, <1>2, <1>10 DEF ReaderBytes, BuffersHold
  <2>. QED
    BY <1>10, <2>1, <2>2, <2>3 DEF R!Offsets
<1>15. buffer' \in [{0, 1} -> [R!Offsets -> -MaxEntries..R!Junk]]
  <2>1. ASSUME NEW o \in R!Offsets, EntriesIn(o) = position - 1
        PROVE  -buffer[use][o] \in -MaxEntries..R!Junk
    <3>1. o \in Nat
      BY Sizes DEF R!Offsets
    <3>2. o \in 0..bytes[use] - 1
      BY <1>11, <2>1, <3>1
    <3>3. buffer[use][o] = c[h]
      BY <1>12, <1>14, <2>1, <3>1, <3>2
    <3>4. c[h] \in {h, -h} /\ h \in Nat /\ h <= MaxEntries /\ MaxEntries \in Nat
      <4>1. N <= MaxEntries /\ N \in Nat /\ MaxEntries \in Nat
        BY ReaderNumbers, Positive
      <4>. QED
        BY <1>3, <1>5, <4>1
    <3>. QED
      BY <3>3, <3>4, Positive
  <2>2. ASSUME NEW o \in R!Offsets
        PROVE  (IF o \div Entry = position - 1 THEN -buffer[use][o] ELSE buffer[use][o])
                 \in -MaxEntries..R!Junk
    BY <1>2, <2>1, ReaderTypes DEF EntriesIn
  <2>3. [o \in R!Offsets |-> IF o \div Entry = position - 1 THEN -buffer[use][o] ELSE buffer[use][o]]
          \in [R!Offsets -> -MaxEntries..R!Junk]
    BY <2>2
  <2>. QED
    BY <1>1, <2>3, ReaderTypes
<1>16. R!TypeOK'
  <2>1. position' \in Nat /\ position' <= ReadEntries /\ use' \in {0, 1}
        /\ thread' \in {"none", "start", "write", "truncate", "seek", "read"}
        /\ max' \in Nat /\ max' <= ReadEntries
    BY <1>1, <1>2, <1>3, <1>9, ReaderNumbers
  <2>. QED
    BY <1>1, <1>15, <2>1, CallerTypes
<1>17. Tiled'
  BY <1>1, <1>2, <1>8 DEF Tiled, Reader
<1>18. Reader'
  <2>1. \A b \in {0, 1} : (InBlocks(Filled(b)) \/ place[b] + Filled(b) = size)'
    BY <1>1, <1>2, <1>8 DEF Reader, InBlocks
  <2>2. \A b \in {0, 1} : InEntries(place[b])'
    BY <1>1, <1>2 DEF Reader, InEntries
  <2>3. position' <= max' /\ max' = (EntriesIn(bytes[use]))'
    BY <1>1, <1>2 DEF EntriesIn
  <2>4. (thread = "write" => done < R!Rounded(bytes[Background]))'
    BY <1>1, <1>2, <1>8 DEF Reader, R!Rounded
  <2>. QED
    BY <1>1, <1>2, <1>8, <1>17, <2>1, <2>2, <2>3, <2>4 DEF Reader, InEntries, InBlocks
<1>19. ReaderState'
  BY <1>1, <1>2, <1>8, <1>16, <1>18 DEF ReaderState, InEntries, InBlocks
<1>20. FileHolds(d)'
  <2>1. \A k : Stale(k)' = Stale(k)
    BY <1>1, <1>8 DEF Stale
  <2>2. ASSUME NEW k \in 1..total, ~Stale(k)
        PROVE  file[k] = d[EntryOf(k)]
    <3>1. file[k] = c[EntryOf(k)]
      BY <2>2 DEF ReaderBytes, FileHolds
    <3>2. EntryOf(k) \in 1..N /\ k \in Nat \ {0}
      BY <2>2, EntryInFile
    <3>3. update => EntryOf(k) # h
      BY <1>1, <1>3, <2>2, <3>2 DEF Stale
    <3>. QED
      BY <1>7, <3>1, <3>2, <3>3
  <2>. QED
    BY <1>1, <2>1, <2>2 DEF ReaderBytes, FileHolds, EntryOf
<1>21. BuffersHold(d)'
  <2>1. ASSUME NEW b \in {0, 1}, NEW o \in 0..Filled(b) - 1
        PROVE  buffer'[b][o] = d[EntryOf(place[b] + o + 1)]
    <3>1. /\ Filled(b) \in Nat /\ place[b] + Filled(b) <= total /\ Filled(b) <= R!BufferBytes
          /\ place[b] \in Nat /\ total \in Nat /\ R!BufferBytes \in Nat
      BY <1>1, BuffersInFile, ReaderNumbers, Sizes
    <3>2. o \in R!Offsets /\ o \in Nat /\ place[b] + o + 1 \in 1..total
      BY <3>1 DEF R!Offsets
    <3>3. buffer[b][o] = c[EntryOf(place[b] + o + 1)]
      BY <1>1 DEF ReaderBytes, BuffersHold
    <3>4. EntryOf(place[b] + o + 1) \in 1..N
      BY <3>2, EntryInFile
    <3>5. CASE b = use
      BY <1>7, <1>12, <1>13, <3>2, <3>3, <3>4, <3>5
    <3>6. CASE b # use
      <4>1. b = Background
        BY <3>6, ReaderNumbers
      <4>2. place[b] + o + 1 \notin place[use] + 1..place[use] + bytes[use]
        <5>1. /\ place[b] + Filled(b) <= place[use] \/ place[b] >= place[use] + bytes[use]
          <6>1. Tiled /\ thread \in {"none", "start", "write", "truncate", "seek", "read"}
            BY <1>2, ReaderNumbers DEF Reader
          <6>2. thread = "none" => place[b] >= place[use] + bytes[use]
            BY <1>10, <3>1, <4>1, <6>1 DEF Tiled
          <6>3. thread = "read" => place[b] >= place[use] + bytes[use]
            BY <1>10, <3>1, <4>1, <6>1 DEF Tiled
          <6>4. thread \notin {"none", "read"} => place[b] + Filled(b) <= place[use]
            <7>1. thread # "read" => Filled(b) = bytes[b]
              BY DEF Filled
            <7>. QED
              BY <1>10, <3>1, <4>1, <6>1, <7>1 DEF Tiled
          <6>. QED
            BY <6>2, <6>3, <6>4
        <5>. QED
          BY <1>10, <3>1, <5>1
      <4>3. EntryOf(place[b] + o + 1) # h
        BY <1>3, <3>2, <4>2
      <4>. QED
        BY <1>7, <1>13, <3>2, <3>3, <3>4, <3>6, <4>3
    <3>. QED
      BY <3>5, <3>6
  <2>2. ASSUME thread = "write", NEW o \in bytes[Background]..R!Rounded(bytes[Background]) - 1
        PROVE  buffer'[Background][o] = 0
    <3>1. buffer[Background][o] = 0
      BY <1>1, <2>2 DEF ReaderBytes, BuffersHold
    <3>2. buffer'[Background] = buffer[Background]
      BY <1>1, ReaderNumbers, ReaderTypes
    <3>. QED
      BY <3>1, <3>2
  <2>. QED
    BY <1>1, <1>8, <2>1, <2>2 DEF BuffersHold, EntryOf, R!Rounded
<1>22. Untouched(d)'
  <2>1. ASSUME passes = 1, NEW e \in 1..N, e > h
        PROVE  d[e] = e
    <3>1. update
      BY <1>2, <2>1
    <3>2. e # h /\ c[e] = e
      BY <1>3, <1>6, <2>1, <3>1
    <3>. QED
      BY <1>7, <3>2
  <2>. QED
    BY <1>1, <1>2, <1>4, <1>8, <2>1 DEF Untouched
<1>23. Entries(d)'
  BY <1>7, <1>8 DEF Entries
<1>. QED
  BY <1>1, <1>3, <1>4, <1>6, <1>19, <1>20, <1>21, <1>22, <1>23 DEF ReaderBytes, h

-----------------------------------------------------------------------------
(* The steps of the thread.                                                *)

(* What they leave alone.                                                  *)
LEMMA ThreadKeeps ==
  ASSUME NEW c, ReaderInv(c), UNCHANGED R!caller, UNCHANGED <<wvars, passes>>,
         place'[use] = place[use]
  PROVE  /\ main' = main /\ update' = update /\ size' = size /\ use' = use /\ position' = position
         /\ max' = max /\ passes' = passes /\ total' = total
         /\ N' = N /\ Background' = Background /\ R!HandedOut' = R!HandedOut
         /\ Entries(c)' /\ Untouched(c)'
<1>. USE DEF ReaderInv
<1>1. /\ main' = main /\ update' = update /\ size' = size /\ use' = use /\ position' = position
      /\ max' = max /\ passes' = passes /\ total' = total
  BY DEF R!caller, wvars
<1>2. N' = N /\ Background' = Background /\ R!HandedOut' = R!HandedOut
  BY <1>1 DEF N, EntriesIn, Background, R!HandedOut
<1>3. Entries(c)' /\ Untouched(c)'
  BY <1>1, <1>2 DEF ReaderBytes, Entries, Untouched
<1>. QED
  BY <1>1, <1>2, <1>3

LEMMA ThreadTypes ==
  ASSUME ReaderState, UNCHANGED R!caller,
         file' \in Seq(-MaxEntries..R!Junk),
         buffer' \in [{0, 1} -> [R!Offsets -> -MaxEntries..R!Junk]],
         bytes' \in [{0, 1} -> {n \in 0..R!BufferBytes : n % Entry = 0}],
         place' \in [{0, 1} -> 0..size], read' \in 0..size, offset' \in Nat,
         thread' \in {"none", "start", "write", "truncate", "seek", "read"},
         done' \in 0..R!BufferBytes
  PROVE  R!TypeOK'
BY DEF ReaderState, R!TypeOK, R!caller

(* The buffer is about to be read into.                                    *)
LEMMA ReadBegins ==
  ASSUME NEW c, ReaderInv(c), main # "closed", UNCHANGED R!caller, UNCHANGED <<wvars, passes>>,
         thread \in {"start", "seek"}, thread' = "read",
         thread = "start" => bytes[Background] = 0 \/ ~update,
         done' = 0, offset' = read, place' = [place EXCEPT ![Background] = read],
         UNCHANGED <<file, buffer, bytes, read>>
  PROVE  ReaderInv(c)'
<1>. USE DEF ReaderInv
<1>1. file' = file /\ buffer' = buffer /\ bytes' = bytes /\ read' = read
  OBVIOUS
<1>2. /\ Background \in {0, 1} /\ use \in {0, 1} /\ Background # use
      /\ \A b \in {0, 1} : b = use \/ b = Background
  BY ReaderNumbers
<1>3. /\ \A b \in {0, 1} : place'[b] = IF b = Background THEN read ELSE place[b]
      /\ place'[use] = place[use] /\ place'[Background] = read
  BY <1>2, ReaderTypes
<1>4. /\ main' = main /\ update' = update /\ size' = size /\ use' = use /\ position' = position
      /\ max' = max /\ passes' = passes /\ total' = total
      /\ N' = N /\ Background' = Background /\ Entries(c)' /\ Untouched(c)'
  BY <1>3, ThreadKeeps
<1>5. Reader /\ Tiled /\ Len(file) = total
  BY DEF ReaderState, Reader
<1>6. R!TypeOK'
  <2>1. read \in 0..size /\ bytes \in [{0, 1} -> {n \in 0..R!BufferBytes : n % Entry = 0}]
        /\ place \in [{0, 1} -> 0..size]
    BY DEF ReaderState, R!TypeOK
  <2>2. place' \in [{0, 1} -> 0..size]
    BY <2>1
  <2>3. done' \in 0..R!BufferBytes /\ offset' \in Nat
    BY <2>1, Sizes, ReaderNumbers
  <2>4. /\ file' \in Seq(-MaxEntries..R!Junk)
        /\ buffer' \in [{0, 1} -> [R!Offsets -> -MaxEntries..R!Junk]]
    BY <1>1, ReaderTypes
  <2>. QED
    BY <1>1, <2>1, <2>2, <2>3, <2>4, ThreadTypes
<1>7. Tiled'
  BY <1>1, <1>2, <1>3, <1>4, <1>5 DEF Tiled
<1>8. \A b \in {0, 1} : Filled(b)' = IF b = Background THEN 0 ELSE Filled(b)
  BY <1>1, <1>4 DEF Filled
<1>9. Reader'
  <2>1. \A b \in {0, 1} : (InBlocks(Filled(b)) \/ place[b] + Filled(b) = size)'
    BY <1>1, <1>3, <1>4, <1>5, <1>8, Zero DEF Reader, InBlocks
  <2>2. \A b \in {0, 1} : InEntries(place[b])'
    BY <1>3, <1>5 DEF Reader, InEntries
  <2>3. done' < R!BufferBytes /\ read + done' <= size /\ InBlocks(done)' /\ offset' = read + done'
    BY Sizes, Zero, ReaderNumbers DEF InBlocks
  <2>4. use' = use /\ place'[use'] = place[use] /\ bytes'[use'] = bytes[use]
    BY <1>1, <1>3, <1>4
  <2>. QED
    BY <1>1, <1>4, <1>5, <1>7, <2>1, <2>2, <2>3, <2>4 DEF Reader, InEntries, EntriesIn
<1>10. ReaderState'
  BY <1>1, <1>4, <1>5, <1>6, <1>9 DEF ReaderState, InEntries
<1>11. ASSUME NEW k \in 1..total, Stale(k)
       PROVE  Stale(k)'
  <2>1. CASE main \in {"ready", "got"} /\ k \in place[use] + 1..place[use] + bytes[use]
    BY <1>1, <1>3, <1>4, <1>11, <2>1 DEF Stale
  <2>2. CASE /\ thread \in {"start", "write"}
             /\ k \in place[Background] + done + 1..place[Background] + bytes[Background]
    <3>1. update /\ bytes[Background] = 0
      BY <1>11, <2>2 DEF Stale
    <3>2. place[Background] \in Nat /\ done \in Nat
      BY ReaderNumbers
    <3>. QED
      BY <2>2, <3>1, <3>2
  <2>. QED
    BY <1>11, <2>1, <2>2 DEF Stale
<1>12. FileHolds(c)'
  BY <1>1, <1>4, <1>11 DEF ReaderBytes, FileHolds, EntryOf
<1>13. BuffersHold(c)'
  <2>1. ASSUME NEW b \in {0, 1}, NEW o \in 0..Filled(b)' - 1
        PROVE  buffer'[b][o] = c[EntryOf(place'[b] + o + 1)]
    <3>1. b # Background
      BY <1>8, <2>1
    <3>2. place'[b] = place[b] /\ o \in 0..Filled(b) - 1
      BY <1>3, <1>8, <2>1, <3>1
    <3>. QED
      BY <1>1, <3>2 DEF ReaderBytes, BuffersHold
  <2>. QED
    BY <2>1 DEF BuffersHold, EntryOf
<1>. QED
  BY <1>4, <1>10, <1>12, <1>13 DEF ReaderBytes

(* The other buffer is written back if it can have changed.                *)
LEMMA ThreadStartStep ==
  ASSUME NEW c, ReaderInv(c), R!ThreadStart, UNCHANGED <<wvars, passes>>
  PROVE  ReaderInv(c)' /\ place'[use] = place[use] /\ UNCHANGED R!caller
<1>. USE DEF ReaderInv
<1>1. /\ UNCHANGED <<file, R!caller, bytes, read>> /\ thread = "start" /\ R!background = Background
      /\ place' = IF thread' = "read" THEN [place EXCEPT ![R!background] = read] ELSE place
      /\ \/ /\ thread' = "write" /\ bytes[R!background] # 0 /\ update
            /\ offset' = place[R!background] /\ done' = 0
            /\ buffer' = [buffer EXCEPT ![R!background] =
                  [o \in R!Offsets |-> IF o \in bytes[R!background]..R!Rounded(bytes[R!background]) - 1
                                         THEN 0 ELSE buffer[R!background][o]]]
         \/ /\ thread' = "read" /\ (bytes[R!background] = 0 \/ ~update)
            /\ done' = 0
            /\ UNCHANGED <<buffer, offset>>
  BY ReaderNumbers DEF R!ThreadStart, R!GotoThread
<1>2. /\ Background \in {0, 1} /\ use \in {0, 1} /\ Background # use
      /\ \A b \in {0, 1} : b = use \/ b = Background
  BY ReaderNumbers
<1>3. place'[use] = place[use]
  BY <1>1, <1>2, ReaderTypes
<1>4. main # "closed" /\ Reader /\ Tiled /\ Len(file) = total /\ offset = read /\ done = 0
  BY <1>1 DEF ReaderState, Reader
<1>5. CASE thread' = "read"
  BY <1>1, <1>3, <1>4, <1>5, ReadBegins
<1>6. CASE thread' = "write"
  <2>. DEFINE n == bytes[Background]
              r == R!Rounded(n)
  <2>1. /\ file' = file /\ bytes' = bytes /\ read' = read /\ place' = place
        /\ n # 0 /\ offset' = place[Background] /\ done' = 0
        /\ buffer' = [buffer EXCEPT ![Background] =
              [o \in R!Offsets |-> IF o \in n..r - 1 THEN 0 ELSE buffer[Background][o]]]
    BY <1>1, <1>6
  <2>2. /\ main' = main /\ update' = update /\ size' = size /\ use' = use /\ position' = position
        /\ max' = max /\ passes' = passes /\ total' = total
        /\ N' = N /\ Background' = Background /\ Entries(c)' /\ Untouched(c)'
    BY <1>1, <1>3, ThreadKeeps
  <2>3. n \in Nat /\ r \in Nat /\ n <= r /\ r <= R!BufferBytes
    BY <1>2, ReaderNumbers, Padding
  <2>4. R!Rounded(bytes[Background])' = r
    BY <2>1, <2>2 DEF R!Rounded
  <2>. HIDE DEF r
  <2>5. buffer' \in [{0, 1} -> [R!Offsets -> -MaxEntries..R!Junk]]
    <3>1. 0 \in -MaxEntries..R!Junk
      BY Positive
    <3>2. \A o \in R!Offsets : buffer[Background][o] \in -MaxEntries..R!Junk
      BY <1>2, ReaderTypes
    <3>3. [o \in R!Offsets |-> IF o \in n..r - 1 THEN 0 ELSE buffer[Background][o]]
            \in [R!Offsets -> -MaxEntries..R!Junk]
      BY <3>1, <3>2
    <3>. QED
      BY <2>1, <3>3, ReaderTypes
  <2>6. R!TypeOK'
    <3>1. /\ read \in 0..size /\ bytes \in [{0, 1} -> {m \in 0..R!BufferBytes : m % Entry = 0}]
          /\ place \in [{0, 1} -> 0..size]
      BY DEF ReaderState, R!TypeOK
    <3>2. done' \in 0..R!BufferBytes /\ offset' \in Nat
      BY <1>2, <2>1, Sizes, ReaderNumbers
    <3>3. file' \in Seq(-MaxEntries..R!Junk)
      BY <2>1, ReaderTypes
    <3>. QED
      BY <1>1, <1>6, <2>1, <2>5, <3>1, <3>2, <3>3, ThreadTypes
  <2>7. \A b \in {0, 1} : Filled(b)' = bytes[b] /\ Filled(b) = bytes[b]
    BY <1>1, <1>6, <2>1 DEF Filled
  <2>8. Tiled'
    BY <1>1, <1>4, <1>6, <2>1, <2>2 DEF Tiled
  <2>9. Reader'
    <3>1. \A b \in {0, 1} : (InBlocks(Filled(b)) \/ place[b] + Filled(b) = size)'
      BY <1>4, <2>1, <2>2, <2>7 DEF Reader, InBlocks
    <3>2. \A b \in {0, 1} : InEntries(place[b])'
      BY <1>4, <2>1 DEF Reader, InEntries
    <3>3. done' < r /\ offset' = place'[Background'] + done'
      <4>1. place[Background] \in Nat
        BY <1>2, ReaderNumbers
      <4>2. done' < r
        BY <2>1, <2>3
      <4>3. offset' = place[Background] + done'
        BY <2>1, <4>1
      <4>. QED
        BY <2>1, <2>2, <4>2, <4>3
    <3>. QED
      BY <1>4, <1>6, <2>1, <2>2, <2>4, <2>8, <3>1, <3>2, <3>3 DEF Reader, InEntries, EntriesIn
  <2>10. ReaderState'
    <3>1. size = total /\ place \in [{0, 1} -> 0..size] /\ size \in Nat
      BY <1>4, ReaderTypes DEF Reader
    <3>2. Len(file') >= total' /\ Len(file') >= offset' /\ Len(file') = total'
      BY <1>2, <1>4, <2>1, <2>2, <3>1
    <3>3. total' \in Nat /\ InEntries(total)' /\ N' <= MaxEntries /\ passes' \in 0..2
      BY <2>2, ReaderNumbers DEF InEntries
    <3>. QED
      BY <1>4, <2>2, <2>6, <2>9, <3>2, <3>3 DEF ReaderState
  <2>11. \A k : Stale(k)' = Stale(k)
    BY <1>1, <1>4, <1>6, <2>1, <2>2 DEF Stale
  <2>12. FileHolds(c)'
    BY <1>4, <2>1, <2>2, <2>11 DEF ReaderBytes, FileHolds, EntryOf
  <2>13. BuffersHold(c)'
    <3>1. ASSUME NEW b \in {0, 1}, NEW o \in R!Offsets
          PROVE  buffer'[b][o] = IF b = Background /\ o \in n..r - 1 THEN 0 ELSE buffer[b][o]
      BY <1>2, <2>1, ReaderTypes
    <3>2. ASSUME NEW b \in {0, 1}, NEW o \in 0..bytes[b] - 1
          PROVE  buffer'[b][o] = c[EntryOf(place[b] + o + 1)]
      <4>1. bytes[b] \in Nat /\ bytes[b] <= R!BufferBytes /\ R!BufferBytes \in Nat
        BY ReaderNumbers, Sizes
      <4>2. o \in R!Offsets
        BY <3>2, <4>1 DEF R!Offsets
      <4>3. b = Background => o \notin n..r - 1
        BY <3>2, <4>1
      <4>4. buffer[b][o] = c[EntryOf(place[b] + o + 1)]
        BY <1>4, <2>7 DEF ReaderBytes, BuffersHold
      <4>. QED
        BY <3>1, <4>2, <4>3, <4>4
    <3>3. ASSUME NEW o \in n..r - 1
          PROVE  buffer'[Background][o] = 0
      <4>1. o \in R!Offsets
        BY <2>3, <3>3, Sizes DEF R!Offsets
      <4>. QED
        BY <1>2, <3>1, <3>3, <4>1
    <3>4. /\ \A b \in {0, 1} : \A o \in 0..Filled(b)' - 1 :
               buffer'[b][o] = c[EntryOf(place'[b] + o + 1)]
          /\ \A o \in bytes'[Background']..r - 1 : buffer'[Background'][o] = 0
      BY <2>1, <2>2, <2>7, <3>2, <3>3
    <3>. QED
      BY <2>4, <3>4 DEF BuffersHold, EntryOf
  <2>. QED
    BY <1>1, <1>3, <2>2, <2>10, <2>12, <2>13 DEF ReaderBytes
<1>. QED
  BY <1>1, <1>5, <1>6

(* What write() takes from the buffer is what belongs there.               *)
LEMMA WriteBackStep ==
  ASSUME NEW c, ReaderInv(c), R!WriteBack, UNCHANGED <<wvars, passes>>
  PROVE  ReaderInv(c)' /\ place'[use] = place[use] /\ UNCHANGED R!caller
<1>. USE DEF ReaderInv
<1>. DEFINE z == bytes[Background]
            r == R!Rounded(z)
            a == place[Background]
            T == -MaxEntries..R!Junk
<1>1. thread = "write" /\ R!background = Background /\ main # "closed"
  BY ReaderNumbers DEF R!WriteBack, ReaderState
<1>2. PICK n \in R!Transfers(r - done) :
        /\ file' = [k \in 1..(IF offset + n > Len(file) THEN offset + n ELSE Len(file)) |->
                      IF k \in offset + 1..offset + n
                        THEN buffer[Background][done + k - offset - 1] ELSE file[k]]
        /\ offset' = offset + n /\ done' = done + n
        /\ thread' = IF n < r - done THEN "write" ELSE IF z % Block # 0 THEN "truncate" ELSE "seek"
  BY <1>1 DEF R!WriteBack
<1>3. UNCHANGED <<R!caller, buffer, bytes, place, read>>
  BY DEF R!WriteBack
<1>4. /\ main' = main /\ update' = update /\ size' = size /\ use' = use /\ position' = position
      /\ max' = max /\ passes' = passes /\ total' = total
      /\ N' = N /\ Background' = Background /\ Entries(c)' /\ Untouched(c)'
      /\ buffer' = buffer /\ bytes' = bytes /\ place' = place /\ read' = read
  BY <1>3, ThreadKeeps
<1>5. /\ Reader /\ Tiled /\ offset = a + done /\ done < r /\ size = total
      /\ Len(file) >= total /\ Len(file) >= offset /\ (InBlocks(z) => Len(file) = total)
      /\ InBlocks(z) \/ a + z = total
  <2>1. Filled(Background) = z
    BY <1>1 DEF Filled
  <2>. QED
    BY <1>1, <2>1, ReaderNumbers DEF ReaderState, Reader
<1>6. /\ z \in Nat /\ r \in Nat /\ z <= r /\ r <= R!BufferBytes /\ (InBlocks(z) => r = z)
      /\ a \in Nat /\ done \in Nat /\ total \in Nat /\ Len(file) \in Nat /\ R!BufferBytes \in Nat
      /\ Background \in {0, 1} /\ offset \in Nat
  BY ReaderNumbers, Padding, Sizes
<1>7. a + z <= total
  <2>1. Filled(Background) = z
    BY <1>1 DEF Filled
  <2>. QED
    BY <1>1, <1>6, <2>1, BuffersInFile
<1>8. R!Rounded(bytes[Background])' = r
  BY <1>4 DEF R!Rounded
<1>9. n \in Nat /\ 1 <= n /\ n <= r - done
  BY <1>2, <1>5, <1>6 DEF R!Transfers
<1>10. thread' = IF n < r - done THEN "write" ELSE IF InBlocks(z) THEN "seek" ELSE "truncate"
  BY <1>2 DEF InBlocks
<1>11. \A o \in 0..z - 1 : buffer[Background][o] = c[EntryOf(a + o + 1)]
  <2>1. Filled(Background) = z
    BY <1>1 DEF Filled
  <2>. QED
    BY <1>1, <1>6, <2>1 DEF ReaderBytes, BuffersHold
<1>12. \A o \in z..r - 1 : buffer[Background][o] = 0
  BY <1>1 DEF ReaderBytes, BuffersHold
<1>. DEFINE L == IF offset + n > Len(file) THEN offset + n ELSE Len(file)
<1>. HIDE DEF z, r, a
<1>13. /\ L \in Nat /\ L >= Len(file) /\ L >= offset + n /\ (InBlocks(z) => L = total)
  BY <1>5, <1>6, <1>7, <1>9
<1>14. ASSUME NEW k \in offset + 1..offset + n
       PROVE  /\ done + k - offset - 1 \in R!Offsets
              /\ buffer[Background][done + k - offset - 1] = IF k <= total THEN c[EntryOf(k)] ELSE 0
  <2>. DEFINE o == done + k - offset - 1
  <2>1. o \in 0..r - 1 /\ a + o + 1 = k
    BY <1>5, <1>6, <1>9
  <2>2. CASE o < z
    <3>1. o \in 0..z - 1 /\ o \in 0..R!BufferBytes - 1 /\ k <= total
      BY <1>6, <1>7, <2>1, <2>2
    <3>2. buffer[Background][o] = c[EntryOf(k)]
      BY <1>11, <2>1, <3>1
    <3>. QED
      BY <3>1, <3>2 DEF R!Offsets
  <2>3. CASE o >= z
    <3>1. k > total
      BY <1>5, <1>6, <2>1, <2>3
    <3>. QED
      BY <1>6, <1>12, <2>1, <2>3, <3>1 DEF R!Offsets
  <2>. QED
    BY <1>6, <2>1, <2>2, <2>3
<1>15. ASSUME NEW k \in 1..L
       PROVE  file'[k] = IF k \in offset + 1..offset + n
                           THEN IF k <= total THEN c[EntryOf(k)] ELSE 0
                           ELSE file[k]
  <2>1. file'[k] = IF k \in offset + 1..offset + n
                     THEN buffer[Background][done + k - offset - 1] ELSE file[k]
    BY <1>2
  <2>. QED
    BY <1>14, <2>1
<1>16. \A k \in 1..L : k \notin offset + 1..offset + n => k \in 1..Len(file)
  BY <1>5, <1>6, <1>9
<1>17. file' \in Seq(T) /\ Len(file') = L
  <2>1. ASSUME NEW k \in 1..L
        PROVE  (IF k \in offset + 1..offset + n
                  THEN buffer[Background][done + k - offset - 1] ELSE file[k]) \in T
    <3>1. CASE k \in offset + 1..offset + n
      BY <1>6, <1>14, <3>1, ReaderTypes
    <3>2. CASE k \notin offset + 1..offset + n
      <4>1. k \in 1..Len(file) /\ file \in Seq(T)
        BY <1>16, <3>2, ReaderTypes
      <4>2. file[k] \in T
        BY <4>1, ElementOfSeq
      <4>. QED
        BY <3>2, <4>2
    <3>. QED
      BY <3>1, <3>2
  <2>2. file' = [k \in 1..L |-> IF k \in offset + 1..offset + n
                                  THEN buffer[Background][done + k - offset - 1] ELSE file[k]]
    BY <1>2
  <2>. HIDE DEF L, T
  <2>3. file' \in [1..L -> T]
    BY <2>1, <2>2
  <2>. QED
    BY <1>13, <2>3
<1>. HIDE DEF L
<1>18. R!TypeOK'
  <2>1. /\ read \in 0..size /\ bytes \in [{0, 1} -> {m \in 0..R!BufferBytes : m % Entry = 0}]
        /\ place \in [{0, 1} -> 0..size]
    BY DEF ReaderState, R!TypeOK
  <2>2. done' \in 0..R!BufferBytes /\ offset' \in Nat
    BY <1>2, <1>6, <1>9
  <2>. QED
    BY <1>3, <1>4, <1>10, <1>17, <2>1, <2>2, ReaderTypes, ThreadTypes
<1>19. \A b \in {0, 1} : Filled(b)' = Filled(b)
  BY <1>1, <1>4, <1>10 DEF Filled
<1>20. Tiled'
  BY <1>1, <1>4, <1>5, <1>10 DEF Tiled
<1>21. Reader'
  <2>1. \A b \in {0, 1} : (InBlocks(Filled(b)) \/ place[b] + Filled(b) = size)'
    BY <1>4, <1>5, <1>19 DEF Reader, InBlocks
  <2>2. \A b \in {0, 1} : InEntries(place[b])'
    BY <1>4, <1>5 DEF Reader, InEntries
  <2>3. offset' = place'[Background'] + done'
    <3>1. offset' = a + done'
      BY <1>2, <1>5, <1>6, <1>9
    <3>. QED
      BY <1>4, <3>1 DEF a
  <2>4. thread' = "write" => done' < R!Rounded(bytes[Background])'
    <3>1. thread' = "write" => n < r - done
      BY <1>10
    <3>2. thread' = "write" => done' < r
      BY <1>2, <1>6, <1>9, <3>1
    <3>. QED
      BY <1>8, <3>2
  <2>. QED
    BY <1>4, <1>5, <1>10, <1>20, <2>1, <2>2, <2>3, <2>4 DEF Reader, InEntries, EntriesIn
<1>22. ReaderState'
  <2>1. Len(file') >= total /\ (thread' = "write" => Len(file') >= offset')
    BY <1>2, <1>5, <1>6, <1>13, <1>17
  <2>2. \/ thread' = "truncate"
        \/ thread' = "write" /\ ~InBlocks(bytes[Background])'
        \/ Len(file') = total
    BY <1>4, <1>10, <1>13, <1>17 DEF InBlocks, z
  <2>. QED
    BY <1>1, <1>4, <1>18, <1>21, <2>1, <2>2 DEF ReaderState, InEntries
<1>23. FileHolds(c)'
  <2>1. ASSUME NEW k \in 1..L
        PROVE  file'[k] \in IF k <= total THEN {EntryOf(k), -EntryOf(k)} ELSE {0}
    <3>1. CASE k \in offset + 1..offset + n
      <4>1. k <= total => c[EntryOf(k)] \in {EntryOf(k), -EntryOf(k)}
        <5>1. ASSUME k <= total PROVE EntryOf(k) \in 1..N
          BY <1>6, <1>13, <5>1, EntryInFile
        <5>. QED
          BY <5>1 DEF ReaderBytes, Entries
      <4>. QED
        BY <1>15, <3>1, <4>1
    <3>2. CASE k \notin offset + 1..offset + n
      BY <1>15, <1>16, <3>2 DEF ReaderBytes, FileHolds
    <3>. QED
      BY <3>1, <3>2
  <2>2. ASSUME NEW k \in 1..total, ~Stale(k)'
        PROVE  file'[k] = c[EntryOf(k)]
    <3>1. k \in 1..L
      BY <1>5, <1>6, <1>13
    <3>2. CASE k \in offset + 1..offset + n
      BY <1>6, <1>15, <3>1, <3>2
    <3>3. CASE k \notin offset + 1..offset + n
      <4>1. ~Stale(k)
        <5>. SUFFICES ASSUME Stale(k) PROVE FALSE
          OBVIOUS
        <5>1. update
          BY DEF Stale
        <5>2. CASE main \in {"ready", "got"} /\ k \in place[use] + 1..place[use] + bytes[use]
          BY <1>4, <2>2, <5>1, <5>2 DEF Stale
        <5>3. CASE k \in a + done + 1..a + z
          <6>1. k > offset + n
            BY <1>5, <1>6, <1>9, <3>3, <5>3
          <6>2. n < r - done /\ k \in a + done' + 1..a + z
            BY <1>2, <1>5, <1>6, <1>9, <5>3, <6>1
          <6>. QED
            BY <1>4, <1>10, <2>2, <5>1, <6>2 DEF Stale, a, z
        <5>. QED
          BY <5>2, <5>3 DEF Stale, a, z
      <4>2. file[k] = c[EntryOf(k)]
        BY <4>1 DEF ReaderBytes, FileHolds
      <4>. QED
        BY <1>15, <3>1, <3>3, <4>2
    <3>. QED
      BY <3>2, <3>3
  <2>. QED
    BY <1>1, <1>4, <1>17, <2>1, <2>2 DEF FileHolds, EntryOf
<1>24. BuffersHold(c)'
  <2>1. \A b \in {0, 1} : \A o \in 0..Filled(b)' - 1 :
          buffer'[b][o] = c[EntryOf(place'[b] + o + 1)]
    BY <1>1, <1>4, <1>19 DEF ReaderBytes, BuffersHold
  <2>2. \A o \in bytes'[Background']..r - 1 : buffer'[Background'][o] = 0
    BY <1>4, <1>12 DEF z
  <2>. QED
    BY <1>8, <2>1, <2>2 DEF BuffersHold, EntryOf
<1>. QED
  BY <1>3, <1>4, <1>22, <1>23, <1>24 DEF ReaderBytes

(* What was padded is cut off.                                             *)
LEMMA CutBackStep ==
  ASSUME NEW c, ReaderInv(c), R!ThreadTruncate, UNCHANGED <<wvars, passes>>
  PROVE  ReaderInv(c)' /\ place'[use] = place[use] /\ UNCHANGED R!caller
<1>. USE DEF ReaderInv
<1>1. /\ thread = "truncate" /\ thread' = "seek" /\ file' = SubSeq(file, 1, size)
      /\ UNCHANGED R!caller /\ buffer' = buffer /\ bytes' = bytes /\ place' = place
      /\ read' = read /\ offset' = offset /\ done' = done
  BY DEF R!ThreadTruncate, R!GotoThread
<1>2. /\ main' = main /\ update' = update /\ size' = size /\ use' = use /\ position' = position
      /\ max' = max /\ passes' = passes /\ total' = total
      /\ N' = N /\ Background' = Background /\ Entries(c)' /\ Untouched(c)'
  BY <1>1, ThreadKeeps
<1>3. main # "closed" /\ Reader /\ Tiled /\ size = total /\ Len(file) >= total
  BY <1>1 DEF ReaderState, Reader
<1>4. /\ file' \in Seq(-MaxEntries..R!Junk) /\ Len(file') = total
      /\ \A k \in 1..total : file'[k] = file[k]
  <2>. DEFINE T == -MaxEntries..R!Junk
  <2>1. file \in Seq(T) /\ total \in Nat /\ Len(file) \in Nat /\ file' = SubSeq(file, 1, total)
    BY <1>1, <1>3, ReaderTypes, ReaderNumbers
  <2>. HIDE DEF T
  <2>2. ASSUME NEW k \in 1..total PROVE file[k] \in T
    <3>1. k \in 1..Len(file)
      BY <1>3, <2>1
    <3>. QED
      BY <2>1, <3>1, ElementOfSeq
  <2>3. /\ file' \in Seq(T) /\ Len(file') = total
        /\ \A k \in 1..total : file'[k] = file[k]
    BY <1>3, <2>1, <2>2, SubSeqProperties
  <2>. QED
    BY <2>3 DEF T
<1>5. R!TypeOK'
  <2>1. /\ read \in 0..size /\ bytes \in [{0, 1} -> {m \in 0..R!BufferBytes : m % Entry = 0}]
        /\ place \in [{0, 1} -> 0..size] /\ offset \in Nat /\ done \in 0..R!BufferBytes
    BY DEF ReaderState, R!TypeOK
  <2>. QED
    BY <1>1, <1>4, <2>1, ReaderTypes, ThreadTypes
<1>6. \A b : Filled(b)' = Filled(b)
  BY <1>1, <1>2 DEF Filled
<1>7. Tiled'
  BY <1>1, <1>2, <1>3 DEF Tiled
<1>8. Reader'
  <2>1. \A b \in {0, 1} : (InBlocks(Filled(b)) \/ place[b] + Filled(b) = size)'
    BY <1>1, <1>2, <1>3, <1>6 DEF Reader, InBlocks
  <2>2. \A b \in {0, 1} : InEntries(place[b])'
    BY <1>1, <1>3 DEF Reader, InEntries
  <2>. QED
    BY <1>1, <1>2, <1>3, <1>7, <2>1, <2>2 DEF Reader, InEntries, EntriesIn
<1>9. ReaderState'
  <2>1. Len(file') >= total /\ Len(file') = total' /\ thread' # "write"
    BY <1>1, <1>2, <1>4, ReaderNumbers
  <2>2. total' \in Nat /\ InEntries(total)' /\ N' <= MaxEntries /\ passes' \in 0..2
    BY <1>2, ReaderNumbers DEF InEntries
  <2>. QED
    BY <1>2, <1>3, <1>5, <1>8, <2>1, <2>2 DEF ReaderState
<1>10. \A k : Stale(k)' = Stale(k)
  BY <1>1, <1>2 DEF Stale
<1>11. FileHolds(c)'
  <2>1. \A k \in 1..total : k \in 1..Len(file)
    BY <1>3, ReaderNumbers
  <2>. QED
    BY <1>2, <1>4, <1>10, <2>1 DEF ReaderBytes, FileHolds, EntryOf
<1>12. BuffersHold(c)'
  BY <1>1, <1>2, <1>3, <1>6 DEF ReaderBytes, BuffersHold, EntryOf
<1>. QED
  BY <1>1, <1>2, <1>9, <1>11, <1>12 DEF ReaderBytes

(* The thread goes on to read where it stopped.                            *)
LEMMA SeekBackStep ==
  ASSUME NEW c, ReaderInv(c), R!SeekBack, UNCHANGED <<wvars, passes>>
  PROVE  ReaderInv(c)' /\ place'[use] = place[use] /\ UNCHANGED R!caller
<1>. USE DEF ReaderInv
<1>1. /\ thread = "seek" /\ thread' = "read" /\ offset' = read /\ done' = 0
      /\ place' = [place EXCEPT ![Background] = read]
      /\ UNCHANGED <<file, buffer, bytes, read>> /\ UNCHANGED R!caller
  BY ReaderNumbers DEF R!SeekBack, R!GotoThread
<1>2. main # "closed"
  BY <1>1 DEF ReaderState
<1>3. place'[use] = place[use]
  BY <1>1, ReaderTypes, ReaderNumbers
<1>. QED
  BY <1>1, <1>2, <1>3, ReadBegins

(* A read ends at the end of the buffer, at the end of the file or at the  *)
(* border of a block.                                                      *)
LEMMA ReadEnds ==
  ASSUME ReaderState, main # "closed", thread = "read",
         NEW left, left = R!Smaller(R!BufferBytes - done, Len(file) - offset),
         NEW n, n \in IF left > 0 THEN R!Transfers(left) ELSE {0}
  PROVE  /\ n \in Nat /\ done + n <= R!BufferBytes /\ offset + n <= total
         /\ offset = read + done /\ Len(file) = total /\ size = total
         /\ R!LastRead(n) => done + n = R!BufferBytes \/ offset + n = total
         /\ ~R!LastRead(n) => InBlocks(done + n) /\ done + n < R!BufferBytes
<1>1. /\ Len(file) = total /\ size = total /\ offset = read + done /\ read + done <= total
      /\ done < R!BufferBytes /\ InBlocks(done)
  BY DEF ReaderState, Reader
<1>2. /\ read \in Nat /\ done \in Nat /\ total \in Nat /\ R!BufferBytes \in Nat
      /\ InBlocks(R!BufferBytes)
  BY ReaderNumbers, Sizes
<1>. DEFINE room == R!BufferBytes - done
            rest == total - offset
<1>3. room \in Nat /\ room > 0 /\ InBlocks(room) /\ rest \in Nat
  BY <1>1, <1>2, InBlockSums
<1>4. left = IF room <= rest THEN room ELSE rest
  BY <1>1 DEF R!Smaller
<1>5. InBlocks(0)
  BY Zero
<1>. HIDE DEF room, rest
<1>6. left \in Nat /\ left <= room /\ left <= rest
  BY <1>3, <1>4
<1>7. n \in Nat /\ n <= left /\ (n = left \/ InBlocks(n)) /\ (n = 0 => left = 0)
  BY <1>5, <1>6 DEF R!Transfers, InBlocks
<1>8. R!LastRead(n) <=> n = 0 \/ ~InBlocks(n) \/ done + n = R!BufferBytes
  BY DEF R!LastRead, InBlocks
<1>9. n = 0 \/ ~InBlocks(n) => n = rest
  <2>1. CASE n = 0
    BY <1>3, <1>4, <1>7, <2>1
  <2>2. CASE ~InBlocks(n)
    BY <1>3, <1>4, <1>7, <2>2
  <2>. QED
    BY <2>1, <2>2
<1>10. done + n <= R!BufferBytes /\ offset + n <= total
  BY <1>1, <1>2, <1>6, <1>7 DEF room, rest
<1>11. n = rest => offset + n = total
  BY <1>1, <1>2 DEF rest
<1>12. InBlocks(n) => InBlocks(done + n)
  BY <1>1, <1>2, <1>7, InBlockSums
<1>13. done + n # R!BufferBytes => done + n < R!BufferBytes
  BY <1>2, <1>7, <1>10
<1>. QED
  BY <1>1, <1>7, <1>8, <1>9, <1>10, <1>11, <1>12, <1>13

(* What the thread reads is the newest there is of it.                     *)
LEMMA ReadAheadStep ==
  ASSUME NEW c, ReaderInv(c), R!ReadAhead, UNCHANGED <<wvars, passes>>
  PROVE  ReaderInv(c)' /\ place'[use] = place[use] /\ UNCHANGED R!caller
<1>. USE DEF ReaderInv
<1>. DEFINE B == R!BufferBytes
            T == -MaxEntries..R!Junk
<1>1. /\ thread = "read" /\ R!background = Background /\ main # "closed"
      /\ file' = file /\ UNCHANGED R!caller /\ place' = place
  BY ReaderNumbers DEF R!ReadAhead, ReaderState
<1>2. PICK n \in IF R!Smaller(B - done, Len(file) - offset) > 0
                   THEN R!Transfers(R!Smaller(B - done, Len(file) - offset)) ELSE {0} :
        /\ buffer' = [buffer EXCEPT ![Background] =
                        [o \in R!Offsets |-> IF o \in done..done + n - 1
                                               THEN file[offset + o - done + 1]
                                               ELSE buffer[Background][o]]]
        /\ offset' = offset + n
        /\ \/ /\ R!LastRead(n)
              /\ bytes' = [bytes EXCEPT ![Background] = done + n]
              /\ read' = read + done + n
              /\ thread' = "none" /\ done' = 0
           \/ /\ ~R!LastRead(n)
              /\ done' = done + n
              /\ UNCHANGED <<bytes, read, thread>>
  BY <1>1 DEF R!ReadAhead
<1>3. /\ n \in Nat /\ done + n <= B /\ offset + n <= total
      /\ offset = read + done /\ Len(file) = total /\ size = total
      /\ R!LastRead(n) => done + n = B \/ offset + n = total
      /\ ~R!LastRead(n) => InBlocks(done + n) /\ done + n < B
  BY <1>1, <1>2, ReadEnds
<1>4. /\ main' = main /\ update' = update /\ size' = size /\ use' = use /\ position' = position
      /\ max' = max /\ passes' = passes /\ total' = total
      /\ N' = N /\ Background' = Background /\ Entries(c)' /\ Untouched(c)'
  BY <1>1, ThreadKeeps
<1>5. Reader /\ Tiled /\ place[Background] = read /\ place[use] + bytes[use] = read
  BY <1>1 DEF ReaderState, Reader, Tiled
<1>6. /\ read \in Nat /\ done \in Nat /\ total \in Nat /\ B \in Nat /\ offset \in Nat
      /\ Background \in {0, 1} /\ use \in {0, 1} /\ Background # use
      /\ \A b \in {0, 1} : b = use \/ b = Background
      /\ InEntries(read) /\ InEntries(total) /\ InEntries(B)
  BY <1>5, ReaderNumbers, Sizes DEF Reader
<1>. HIDE DEF B, T
<1>7. ASSUME NEW o \in done..done + n - 1
      PROVE  /\ o \in R!Offsets /\ o \in Nat /\ file[offset + o - done + 1] \in T
             /\ file[offset + o - done + 1] = c[EntryOf(read + o + 1)]
  <2>. DEFINE k == read + o + 1
  <2>1. k \in 1..total /\ k = offset + o - done + 1 /\ o \in 0..B - 1
    BY <1>3, <1>6
  <2>2. ~Stale(k)
    <3>1. k \notin place[use] + 1..place[use] + bytes[use]
      BY <1>5, <1>6, <2>1
    <3>. QED
      BY <1>1, <3>1 DEF Stale
  <2>3. file[k] = c[EntryOf(k)]
    BY <2>1, <2>2 DEF ReaderBytes, FileHolds
  <2>4. file[k] \in T
    <3>1. file \in Seq(T) /\ k \in 1..Len(file)
      BY <1>3, <2>1, ReaderTypes DEF T
    <3>. QED
      BY <3>1, ElementOfSeq
  <2>5. o \in R!Offsets /\ o \in Nat
    BY <2>1 DEF R!Offsets, B
  <2>. QED
    BY <2>1, <2>3, <2>4, <2>5
<1>8. ASSUME NEW b \in {0, 1}, NEW o \in R!Offsets
      PROVE  buffer'[b][o] = IF b = Background /\ o \in done..done + n - 1
                               THEN file[offset + o - done + 1] ELSE buffer[b][o]
  BY <1>2, <1>6, ReaderTypes
<1>9. buffer' \in [{0, 1} -> [R!Offsets -> T]]
  <2>1. buffer \in [{0, 1} -> [R!Offsets -> T]]
    BY ReaderTypes DEF T
  <2>2. [o \in R!Offsets |-> IF o \in done..done + n - 1
                               THEN file[offset + o - done + 1]
                               ELSE buffer[Background][o]] \in [R!Offsets -> T]
    BY <1>6, <1>7, <2>1
  <2>. QED
    BY <1>2, <2>1, <2>2
<1>10. ASSUME NEW b \in {0, 1}, NEW m \in Nat, m <= IF b = Background THEN done + n ELSE bytes[use],
              NEW o \in 0..m - 1
       PROVE  buffer'[b][o] = c[EntryOf(place[b] + o + 1)]
  <2>1. bytes[use] \in Nat /\ bytes[use] <= B
    BY <1>6, ReaderNumbers DEF B
  <2>2. o \in 0..B - 1 /\ o \in Nat
    BY <1>3, <1>6, <1>10, <2>1
  <2>3. o \in R!Offsets
    BY <2>2 DEF R!Offsets, B
  <2>4. CASE b = Background /\ o \in done..done + n - 1
    BY <1>5, <1>7, <1>8, <2>3, <2>4
  <2>5. CASE b = Background /\ o \notin done..done + n - 1
    <3>1. o \in 0..Filled(b) - 1
      BY <1>1, <1>3, <1>6, <1>10, <2>2, <2>5 DEF Filled
    <3>2. buffer[b][o] = c[EntryOf(place[b] + o + 1)]
      BY <1>1, <3>1 DEF ReaderBytes, BuffersHold
    <3>. QED
      BY <1>8, <2>3, <2>5, <3>2
  <2>6. CASE b # Background
    <3>1. b = use /\ o \in 0..Filled(b) - 1
      BY <1>6, <1>10, <2>1, <2>2, <2>6 DEF Filled
    <3>2. buffer[b][o] = c[EntryOf(place[b] + o + 1)]
      BY <1>1, <3>1 DEF ReaderBytes, BuffersHold
    <3>. QED
      BY <1>8, <2>3, <2>6, <3>2
  <2>. QED
    BY <2>4, <2>5, <2>6
<1>11. \A k \in 1..total : Stale(k) => Stale(k)'
  <2>1. bytes'[use] = bytes[use]
    BY <1>2, <1>6, ReaderTypes
  <2>. QED
    BY <1>1, <1>4, <2>1 DEF Stale
<1>12. FileHolds(c)'
  BY <1>1, <1>4, <1>11 DEF ReaderBytes, FileHolds, EntryOf
<1>13. \A b \in {0, 1} : InEntries(place[b])'
  BY <1>1, <1>5 DEF Reader, InEntries
<1>14. /\ file' \in Seq(-MaxEntries..R!Junk) /\ place' \in [{0, 1} -> 0..size] /\ offset' \in Nat
       /\ buffer' \in [{0, 1} -> [R!Offsets -> -MaxEntries..R!Junk]]
  BY <1>1, <1>2, <1>3, <1>6, <1>9, ReaderTypes DEF T
<1>15. total' \in Nat /\ InEntries(total)' /\ N' <= MaxEntries /\ passes' \in 0..2
  BY <1>4, ReaderNumbers DEF InEntries
<1>16. bytes \in [{0, 1} -> {m \in 0..B : m % Entry = 0}] /\ read \in 0..size
  BY DEF ReaderState, R!TypeOK, B
<1>17. CASE R!LastRead(n)
  <2>1. /\ bytes' = [bytes EXCEPT ![Background] = done + n] /\ read' = read + done + n
        /\ thread' = "none" /\ done' = 0 /\ offset' = read'
    BY <1>2, <1>3, <1>6, <1>17
  <2>2. InEntries(done + n) /\ (done + n = B \/ read' = total) /\ read' <= total
    <3>1. done + n = B \/ (done + n = total - read)
      BY <1>3, <1>6, <1>17
    <3>2. InEntries(total - read)
      BY <1>6, InSums
    <3>. QED
      BY <1>3, <1>6, <1>17, <2>1, <3>1, <3>2
  <2>3. read' = read + (done + n) /\ read' \in Nat /\ done + n \in Nat
    BY <1>3, <1>6, <2>1
  <2>4. InEntries(read')
    BY <1>6, <2>2, <2>3, InSums
  <2>5. R!TypeOK'
    <3>1. done + n \in {m \in 0..B : m % Entry = 0}
      BY <1>3, <1>6, <2>2, <2>3 DEF InEntries
    <3>2. bytes' \in [{0, 1} -> {m \in 0..B : m % Entry = 0}]
      BY <1>16, <2>1, <3>1
    <3>3. read' \in 0..size /\ done' \in 0..B
      BY <1>3, <1>6, <2>1, <2>2, <2>3
    <3>. QED
      BY <1>1, <1>14, <2>1, <3>2, <3>3, ThreadTypes DEF B
  <2>6. /\ bytes'[Background] = done + n /\ bytes'[use] = bytes[use]
        /\ \A b \in {0, 1} : Filled(b)' = bytes'[b]
    BY <1>6, <1>16, <2>1 DEF Filled
  <2>7. Tiled'
    BY <1>1, <1>4, <1>5, <2>1, <2>3, <2>6 DEF Tiled
  <2>8. Reader'
    <3>1. InBlocks(done + n) \/ place[Background] + (done + n) = size
      BY <1>3, <1>5, <2>2, <2>3, Sizes DEF B
    <3>2. InBlocks(bytes[use]) \/ place[use] + bytes[use] = size
      <4>1. Filled(use) = bytes[use]
        BY <1>6 DEF Filled
      <4>. QED
        BY <1>5, <1>6, <4>1 DEF Reader
    <3>3. \A b \in {0, 1} : (InBlocks(Filled(b)) \/ place[b] + Filled(b) = size)'
      BY <1>1, <1>4, <1>6, <2>6, <3>1, <3>2 DEF InBlocks
    <3>. QED
      BY <1>1, <1>3, <1>4, <1>5, <1>13, <2>1, <2>2, <2>4, <2>6, <2>7, <3>3
         DEF Reader, InEntries, EntriesIn, B, R!BufferBytes
  <2>9. ReaderState'
    BY <1>1, <1>3, <1>4, <1>6, <1>15, <2>1, <2>5, <2>8 DEF ReaderState
  <2>10. BuffersHold(c)'
    <3>1. \A b \in {0, 1} : bytes'[b] = (IF b = Background THEN done + n ELSE bytes[use])
      BY <1>6, <2>6
    <3>2. bytes[use] \in Nat
      BY <1>6, ReaderNumbers
    <3>3. \A b \in {0, 1} : bytes'[b] \in Nat
      BY <2>3, <3>1, <3>2
    <3>4. \A b \in {0, 1} : \A o \in 0..bytes'[b] - 1 : buffer'[b][o] = c[EntryOf(place[b] + o + 1)]
      <4>. SUFFICES ASSUME NEW b \in {0, 1}, NEW o \in 0..bytes'[b] - 1
                    PROVE  buffer'[b][o] = c[EntryOf(place[b] + o + 1)]
        OBVIOUS
      <4>1. bytes'[b] <= IF b = Background THEN done + n ELSE bytes[use]
        BY <3>1, <3>3
      <4>. QED
        BY <1>10, <3>3, <4>1
    <3>. QED
      BY <1>1, <2>1, <2>6, <3>4 DEF BuffersHold, EntryOf
  <2>. QED
    BY <1>1, <1>4, <1>12, <2>9, <2>10 DEF ReaderBytes
<1>18. CASE ~R!LastRead(n)
  <2>1. /\ bytes' = bytes /\ read' = read /\ thread' = "read" /\ done' = done + n
        /\ offset' = read + done' /\ InBlocks(done') /\ done' < B /\ read + done' <= total
        /\ done' \in Nat
    BY <1>1, <1>2, <1>3, <1>6, <1>18
  <2>2. R!TypeOK'
    <3>1. done' \in 0..B
      BY <1>6, <2>1
    <3>. QED
      BY <1>1, <1>14, <1>16, <2>1, <3>1, ThreadTypes DEF B
  <2>3. \A b \in {0, 1} : Filled(b)' = IF b = Background THEN done' ELSE Filled(b)
    BY <1>1, <1>4, <2>1 DEF Filled
  <2>4. Tiled'
    BY <1>1, <1>4, <1>5, <2>1 DEF Tiled
  <2>5. Reader'
    <3>1. InBlocks(Filled(use)) \/ place[use] + Filled(use) = size
      BY <1>5, <1>6 DEF Reader
    <3>2. \A b \in {0, 1} : (InBlocks(Filled(b)) \/ place[b] + Filled(b) = size)'
      BY <1>1, <1>4, <1>6, <2>1, <2>3, <3>1 DEF InBlocks
    <3>3. done' < R!BufferBytes /\ read' + done' <= size'
      BY <1>3, <1>4, <2>1 DEF B
    <3>. QED
      BY <1>1, <1>3, <1>4, <1>5, <1>13, <2>1, <2>4, <3>2, <3>3
         DEF Reader, InEntries, EntriesIn, InBlocks, R!BufferBytes
  <2>6. ReaderState'
    BY <1>1, <1>3, <1>4, <1>6, <1>15, <2>1, <2>2, <2>5 DEF ReaderState
  <2>7. BuffersHold(c)'
    <3>1. Filled(use) = bytes[use] /\ bytes[use] \in Nat
      BY <1>6, ReaderNumbers DEF Filled
    <3>2. \A b \in {0, 1} : Filled(b)' = IF b = Background THEN done + n ELSE bytes[use]
      <4>1. \A b \in {0, 1} : b # Background => Filled(b) = bytes[use]
        BY <1>6, <3>1
      <4>2. done' = done + n
        BY <2>1
      <4>. QED
        BY <2>3, <4>1, <4>2
    <3>3. \A b \in {0, 1} : Filled(b)' \in Nat
      BY <2>1, <3>1, <3>2
    <3>4. \A b \in {0, 1} : \A o \in 0..Filled(b)' - 1 : buffer'[b][o] = c[EntryOf(place[b] + o + 1)]
      <4>. SUFFICES ASSUME NEW b \in {0, 1}, NEW o \in 0..Filled(b)' - 1
                    PROVE  buffer'[b][o] = c[EntryOf(place[b] + o + 1)]
        OBVIOUS
      <4>1. Filled(b)' <= IF b = Background THEN done + n ELSE bytes[use]
        BY <3>2, <3>3
      <4>. QED
        BY <1>10, <3>3, <4>1
    <3>. QED
      BY <1>1, <2>1, <3>4 DEF BuffersHold, EntryOf
  <2>. QED
    BY <1>1, <1>4, <1>12, <2>6, <2>7 DEF ReaderBytes
<1>. QED
  BY <1>17, <1>18

-----------------------------------------------------------------------------
(* What the plain file is, in either part of the life of the file.         *)

PlainContent == IF InWriter THEN W!Content ELSE W!EntriesOf(R!Bytes, W!Written)
PlainNext == IF main \in {"first", "ready", "got", "end"} THEN R!HandedOut ELSE 0
PlainMode == IF InWriter THEN "write"
             ELSE IF main \in {"first", "ready", "got"} THEN "open"
             ELSE IF main = "end" THEN "ended" ELSE "closed"

WriterMaps ==
  WriterInv => /\ PlainContent = [e \in 1..W!Written |-> e] /\ W!Written \in Nat
               /\ PlainNext = 0 /\ PlainMode = "write"

ReaderMaps ==
  \A c : ReaderInv(c) =>
    /\ PlainContent = c /\ c \in Seq(Int) /\ Len(c) = N
    /\ PlainNext = IF main \in {"first", "ready", "got", "end"} THEN R!HandedOut ELSE 0
    /\ PlainMode = IF main \in {"first", "ready", "got"} THEN "open"
                   ELSE IF main = "end" THEN "ended" ELSE "closed"

LEMMA WriterOnly ==
  ASSUME WriterState
  PROVE  /\ thread = "none" /\ InWriter
         /\ main \notin {"closed", "first", "ready", "got", "end", "leaving"}
BY DEF WriterState, R!Unopened, InWriter

LEMMA ReaderOnly ==
  ASSUME ReaderState
  PROVE  /\ main \in {"closed", "first", "ready", "got", "end", "leaving"} /\ ~InWriter
         /\ main = "closed" => thread = "none"
BY ReaderTypes DEF ReaderState, InWriter

LEMMA Maps == WriterMaps /\ ReaderMaps
<1>1. ASSUME WriterInv
      PROVE  /\ PlainContent = [e \in 1..W!Written |-> e] /\ W!Written \in Nat
             /\ PlainNext = 0 /\ PlainMode = "write"
  <2>1. InWriter /\ main \notin {"first", "ready", "got", "end"}
    BY <1>1, WriterOnly DEF WriterInv
  <2>. QED
    BY <1>1, <2>1, WriterContent DEF PlainContent, PlainNext, PlainMode
<1>2. ASSUME NEW c, ReaderInv(c)
      PROVE  /\ PlainContent = c /\ c \in Seq(Int) /\ Len(c) = N
             /\ PlainNext = IF main \in {"first", "ready", "got", "end"} THEN R!HandedOut ELSE 0
             /\ PlainMode = IF main \in {"first", "ready", "got"} THEN "open"
                            ELSE IF main = "end" THEN "ended" ELSE "closed"
  <2>1. ~InWriter
    BY <1>2, ReaderOnly DEF ReaderInv
  <2>2. PlainContent = c
    BY <1>2, <2>1, ReaderContent DEF PlainContent
  <2>3. c \in [1..N -> Int] /\ N \in Nat
    BY <1>2, ReaderNumbers DEF ReaderInv, ReaderBytes, Entries
  <2>4. c \in Seq(Int) /\ Len(c) = N
    BY <2>3
  <2>. QED
    BY <2>1, <2>2, <2>4 DEF PlainNext, PlainMode
<1>. QED
  BY <1>1, <1>2 DEF WriterMaps, ReaderMaps

Readable == \E c : ReaderInv(c)

LEMMA IInvIs == IInv <=> WriterInv \/ (~writer.running /\ Readable)
<1>1. ASSUME NEW c, ReaderBytes(c) PROVE c \in [1..N -> Int]
  BY <1>1 DEF ReaderBytes, Entries
<1>. QED
  BY <1>1 DEF IInv, WriterInv, ReaderInv, Readable

-----------------------------------------------------------------------------
(* Every step keeps the invariant, and is a step of the plain file or      *)
(* changes nothing of it.                                                  *)

PlainStep == [Plain!Next]_<<PlainContent, PlainNext, PlainMode>>

(* The steps of the plain file.                                            *)
LEMMA PlainSteps ==
  PlainStep <=>
    \/ UNCHANGED <<PlainContent, PlainNext, PlainMode>>
    \/ /\ PlainMode = "write" /\ PlainContent' = Append(PlainContent, Len(PlainContent) + 1)
       /\ PlainNext' = PlainNext /\ PlainMode' = PlainMode
    \/ /\ PlainMode # "closed" /\ PlainMode' = "closed" /\ PlainNext' = 0
       /\ PlainContent' = PlainContent
    \/ /\ PlainMode = "closed" /\ PlainMode' = "open"
       /\ PlainContent' = PlainContent /\ PlainNext' = PlainNext
    \/ /\ PlainMode = "open" /\ PlainNext < Len(PlainContent) /\ PlainNext' = PlainNext + 1
       /\ PlainContent' = PlainContent /\ PlainMode' = PlainMode
    \/ /\ PlainMode = "open" /\ PlainNext > 0
       /\ PlainContent' = [PlainContent EXCEPT ![PlainNext] = -PlainNext]
       /\ PlainNext' = PlainNext /\ PlainMode' = PlainMode
    \/ /\ PlainMode = "open" /\ PlainNext = Len(PlainContent) /\ PlainMode' = "ended"
       /\ PlainContent' = PlainContent /\ PlainNext' = PlainNext
BY DEF PlainStep, Plain!Next, Plain!AppendEntry, Plain!Close, Plain!Open, Plain!NextEntry,
       Plain!Update, Plain!End, PlainContent, PlainNext, PlainMode

LEMMA WritingMaps ==
  ASSUME WriterInv, Writing
  PROVE  IInv' /\ PlainStep
<1>1. WriterMaps /\ WriterMaps' /\ ReaderMaps'
  BY Maps, PTL
<1>2. (IInv <=> WriterInv \/ (~writer.running /\ Readable))'
  BY IInvIs, PTL
<1>3. UNCHANGED <<rvars, passes>>
  BY DEF Writing
<1>4. /\ N \in Nat /\ num \in Nat /\ total \in Nat
      /\ W!Written = IF main = "finish" THEN N ELSE N + num
  BY WriterNumbers DEF WriterInv
<1>5. EntriesIn(total + num * Entry) = N + num
  BY WriterProducts DEF WriterInv
<1>6. /\ PlainContent = [e \in 1..W!Written |-> e] /\ PlainNext = 0 /\ PlainMode = "write"
      /\ W!Written \in Nat
  BY <1>1 DEF WriterMaps
<1>7. ASSUME WriterInv', W!Written' = W!Written
      PROVE  IInv' /\ PlainStep
  BY <1>1, <1>2, <1>6, <1>7, PlainSteps DEF WriterMaps
<1>8. ASSUME ReaderInv(First)', main' = "closed", ~writer'.running, W!Written = EntriesIn(total')
      PROVE  IInv' /\ PlainStep
  <2>1. PICK d : d = [e \in 1..EntriesIn(total') |-> e]
    OBVIOUS
  <2>2. First' = d
    BY <2>1 DEF First, N, EntriesIn
  <2>3. ReaderInv(d)'
    BY <1>8, <2>2
  <2>4. IInv'
    BY <1>2, <1>8, <2>3 DEF Readable
  <2>5. PlainContent' = d /\ PlainNext' = 0 /\ PlainMode' = "closed"
    BY <1>1, <1>8, <2>3 DEF ReaderMaps
  <2>6. PlainContent' = PlainContent /\ PlainMode # "closed"
    BY <1>6, <1>8, <2>1, <2>5
  <2>. QED
    BY <2>4, <2>5, <2>6, PlainSteps
<1>9. CASE W!Write
  <2>1. WriterInv'
    BY <1>3, <1>9, WriteStep
  <2>2. main = "fill" /\ main' \in {"fill", "full"} /\ num' = num + 1 /\ total' = total
    BY <1>9 DEF W!Write, W!Goto
  <2>3. W!Written' = W!Written + 1
    <3>1. W!Written = EntriesIn(total) + num /\ W!Written' = EntriesIn(total) + num'
      BY <2>2 DEF W!Written, EntriesIn
    <3>2. EntriesIn(total) \in Nat
      BY <1>4 DEF N
    <3>. QED
      BY <1>4, <2>2, <3>1, <3>2
  <2>4. PlainContent' = [e \in 1..W!Written' |-> e] /\ PlainNext' = 0 /\ PlainMode' = "write"
    BY <1>1, <2>1 DEF WriterMaps
  <2>. DEFINE n == W!Written
  <2>5. n \in Nat /\ PlainContent = [e \in 1..n |-> e] /\ PlainContent' = [e \in 1..n + 1 |-> e]
    BY <1>6, <2>3, <2>4
  <2>. HIDE DEF n
  <2>6. Len(PlainContent) = n /\ PlainContent' = Append(PlainContent, n + 1)
    <3>1. /\ PlainContent \in Seq(Int) /\ Len(PlainContent) = n
          /\ PlainContent' \in Seq(Int) /\ Len(PlainContent') = n + 1
      BY <2>5
    <3>2. \A e \in 1..n + 1 : PlainContent'[e] = Append(PlainContent, n + 1)[e]
      BY <2>5, <3>1, AppendProperties
    <3>3. Append(PlainContent, n + 1) \in Seq(Int) /\ Len(Append(PlainContent, n + 1)) = n + 1
      BY <2>5, <3>1, AppendProperties
    <3>. QED
      BY <3>1, <3>2, <3>3, SeqEqual
  <2>. QED
    BY <1>2, <1>6, <2>1, <2>4, <2>6, PlainSteps
<1>10. CASE W!Swap
  <2>1. WriterInv'
    BY <1>3, <1>10, SwapStep
  <2>2. main = "full" /\ main' = "fill" /\ num' = 0 /\ total' = total + num * Entry
    BY <1>10 DEF W!Swap, W!Goto
  <2>3. W!Written' = EntriesIn(total') + num'
    BY <2>2 DEF W!Written, EntriesIn
  <2>4. W!Written' = W!Written
    BY <1>4, <1>5, <2>2, <2>3
  <2>. QED
    BY <1>7, <2>1, <2>4
<1>11. CASE W!AsyncWrite
  <2>1. WriterInv'
    BY <1>3, <1>11, AsyncWriteStep
  <2>2. W!Written' = W!Written
    BY <1>11 DEF W!AsyncWrite, W!Written
  <2>. QED
    BY <1>7, <2>1, <2>2
<1>12. CASE W!Finish
  <2>1. /\ main' = "finish" => WriterInv' /\ num > 0
        /\ main' # "finish" => ReaderInv(First)' /\ main' = "closed" /\ num = 0
    BY <1>3, <1>12, FinishStep
  <2>2. main = "fill" /\ ~writer.running
    BY <1>12 DEF W!Finish
  <2>3. CASE num = 0
    <3>1. main' = "closed" /\ total' = total /\ writer' = writer
      BY <1>12, <2>3 DEF W!Finish
    <3>2. W!Written = EntriesIn(total')
      BY <1>4, <2>2, <2>3, <3>1 DEF N
    <3>. QED
      BY <1>8, <2>1, <2>2, <3>1, <3>2
  <2>4. CASE num # 0
    <3>1. main' = "finish" /\ total' = total + num * Entry
      BY <1>12, <2>4 DEF W!Finish
    <3>2. W!Written' = EntriesIn(total') + 0 /\ EntriesIn(total') \in Nat
      BY <1>4, <1>5, <3>1 DEF W!Written, EntriesIn
    <3>3. W!Written' = W!Written
      BY <1>4, <1>5, <2>2, <3>1, <3>2
    <3>. QED
      BY <1>7, <2>1, <3>1, <3>3
  <2>. QED
    BY <2>3, <2>4
<1>13. CASE W!Truncate
  <2>1. ReaderInv(First)' /\ main' = "closed" /\ main = "finish" /\ total' = total
    BY <1>3, <1>13, TruncateStep
  <2>2. ~writer'.running
    BY <1>13 DEF W!Truncate
  <2>3. W!Written = EntriesIn(total')
    BY <1>4, <2>1 DEF N
  <2>. QED
    BY <1>8, <2>1, <2>2, <2>3
<1>. QED
  BY <1>9, <1>10, <1>11, <1>12, <1>13 DEF Writing, W!Next

LEMMA ReadingMaps ==
  ASSUME NEW c, ReaderInv(c), ~writer.running, Reading \/ Open
  PROVE  IInv' /\ PlainStep
<1>1. ReaderMaps /\ ReaderMaps'
  BY Maps, PTL
<1>2. (IInv <=> WriterInv \/ (~writer.running /\ Readable))'
  BY IInvIs, PTL
<1>3. ~writer'.running
  BY DEF Reading, Open, wvars
<1>4. Reading => UNCHANGED <<wvars, passes>>
  BY DEF Reading
<1>5. /\ PlainContent = c /\ c \in Seq(Int) /\ Len(c) = N
      /\ PlainNext = IF main \in {"first", "ready", "got", "end"} THEN R!HandedOut ELSE 0
      /\ PlainMode = IF main \in {"first", "ready", "got"} THEN "open"
                     ELSE IF main = "end" THEN "ended" ELSE "closed"
  BY <1>1 DEF ReaderMaps
<1>6. ASSUME NEW d, ReaderInv(d)'
      PROVE  /\ IInv' /\ PlainContent' = d
             /\ PlainNext' = IF main' \in {"first", "ready", "got", "end"} THEN R!HandedOut' ELSE 0
             /\ PlainMode' = IF main' \in {"first", "ready", "got"} THEN "open"
                             ELSE IF main' = "end" THEN "ended" ELSE "closed"
  BY <1>1, <1>2, <1>3, <1>6 DEF ReaderMaps, Readable
<1>7. CASE Open
  <2>1. ReaderInv(c)'
    BY <1>7, OpenStep
  <2>2. main = "closed" /\ main' = "first" /\ R!HandedOut' = 0
    <3>1. main = "closed" /\ main' = "first" /\ use' = 0 /\ position' = 0
          /\ place' = [b \in {0, 1} |-> 0]
      BY <1>7 DEF Open, R!Start, R!Goto
    <3>2. 0 \div Entry = 0
      BY Zero DEF EntriesIn
    <3>. QED
      BY <3>1, <3>2 DEF R!HandedOut
  <2>. QED
    BY <1>5, <1>6, <2>1, <2>2, PlainSteps
<1>8. CASE Reading /\ R!Started
  <2>1. ReaderInv(c)'
    BY <1>4, <1>8, StartedStep
  <2>2. /\ main = "first" /\ main' = "ready" /\ thread = "none" /\ use' = 1 - use
        /\ position' = position /\ place' = place
    BY <1>8 DEF R!Started, R!Goto
  <2>3. place[use] = 0 /\ place[Background] = 0 /\ position = 0
    BY <2>2, ReaderNumbers DEF ReaderInv, ReaderState, Reader, Tiled
  <2>4. R!HandedOut' = R!HandedOut
    BY <2>2, <2>3 DEF R!HandedOut, Background
  <2>. QED
    BY <1>5, <1>6, <2>1, <2>2, <2>4, PlainSteps
<1>9. CASE Reading /\ R!NextInBuffer
  <2>1. /\ ReaderInv(c)'
        /\ R!HandedOut' = R!HandedOut + 1 /\ R!HandedOut < N /\ R!HandedOut \in Nat
        /\ main = "ready" /\ main' = "got"
    BY <1>4, <1>9, NextInBufferStep
  <2>. QED
    BY <1>5, <1>6, <2>1, PlainSteps
<1>10. CASE Reading /\ R!SwapBuffers
  <2>1. /\ ReaderInv(c)'
        /\ main' = "got" => R!HandedOut' = R!HandedOut + 1 /\ R!HandedOut < N
        /\ main' = "end" => R!HandedOut' = R!HandedOut /\ R!HandedOut = N
        /\ R!HandedOut \in Nat /\ main' \in {"got", "end"}
    BY <1>4, <1>10, SwapBuffersStep
  <2>2. main = "ready"
    BY <1>10 DEF R!SwapBuffers
  <2>. QED
    BY <1>5, <1>6, <2>1, <2>2, PlainSteps
<1>11. CASE Reading /\ R!Use
  <2>1. PICK d : d = IF update THEN [c EXCEPT ![R!HandedOut] = -c[R!HandedOut]] ELSE c
    OBVIOUS
  <2>2. /\ ReaderInv(d)' /\ R!HandedOut' = R!HandedOut /\ R!HandedOut \in 1..N
        /\ main = "got" /\ main' = "ready" /\ (update => c[R!HandedOut] = R!HandedOut)
    BY <1>4, <1>11, <2>1, UseStep
  <2>3. R!HandedOut \in Nat /\ R!HandedOut > 0
    BY <2>2
  <2>4. /\ PlainContent' = d /\ PlainNext' = PlainNext /\ PlainMode' = PlainMode
        /\ PlainMode = "open" /\ PlainNext = R!HandedOut /\ PlainContent = c
    BY <1>5, <1>6, <2>2
  <2>5. d = [c EXCEPT ![R!HandedOut] = -R!HandedOut] \/ d = c
    BY <2>1, <2>2
  <2>. QED
    BY <1>6, <2>2, <2>3, <2>4, <2>5, PlainSteps
<1>12. CASE Reading /\ R!Finish
  <2>1. ReaderInv(c)'
    BY <1>4, <1>12, FinishFileStep
  <2>2. main \in {"ready", "end"} /\ main' = "leaving"
    BY <1>12 DEF R!Finish
  <2>. QED
    BY <1>5, <1>6, <2>1, <2>2, PlainSteps
<1>13. CASE Reading /\ R!Finished
  <2>1. ReaderInv(c)'
    BY <1>4, <1>13, FinishedStep
  <2>2. main = "leaving" /\ main' = "closed"
    BY <1>13 DEF R!Finished, R!Goto
  <2>. QED
    BY <1>5, <1>6, <2>1, <2>2, PlainSteps
<1>14. CASE Reading /\ R!Thread
  <2>1. ReaderInv(c)' /\ place'[use] = place[use] /\ UNCHANGED R!caller
    BY <1>4, <1>14, ThreadStartStep, WriteBackStep, CutBackStep, SeekBackStep, ReadAheadStep
       DEF R!Thread
  <2>2. main' = main /\ R!HandedOut' = R!HandedOut
    BY <2>1 DEF R!caller, R!HandedOut
  <2>. QED
    BY <1>5, <1>6, <2>1, <2>2, PlainSteps
<1>. QED
  BY <1>7, <1>8, <1>9, <1>10, <1>11, <1>12, <1>13, <1>14 DEF Reading, R!Caller

(* Nothing happens.                                                        *)
LEMMA StutterMaps ==
  ASSUME IInv, UNCHANGED vars
  PROVE  IInv' /\ PlainStep
<1>1. WriterMaps /\ WriterMaps' /\ ReaderMaps /\ ReaderMaps'
  BY Maps, PTL
<1>2. (IInv <=> WriterInv \/ (~writer.running /\ Readable))'
  BY IInvIs, PTL
<1>3. /\ file' = file /\ main' = main /\ wbuffer' = wbuffer /\ wuse' = wuse /\ num' = num
      /\ total' = total /\ writer' = writer /\ passes' = passes
  BY DEF vars, wvars
<1>4. /\ update' = update /\ size' = size /\ buffer' = buffer /\ bytes' = bytes /\ place' = place
      /\ use' = use /\ position' = position /\ max' = max /\ read' = read /\ offset' = offset
      /\ thread' = thread /\ done' = done
  BY DEF vars, rvars
<1>5. N' = N /\ Background' = Background /\ R!HandedOut' = R!HandedOut /\ \A b : Filled(b)' = Filled(b)
  BY <1>3, <1>4 DEF N, EntriesIn, Background, Filled, R!HandedOut
<1>6. W!TypeOK <=> W!TypeOK'
  BY <1>3 DEF W!TypeOK
<1>7. R!TypeOK <=> R!TypeOK'
  BY <1>3, <1>4 DEF R!TypeOK
<1>8. R!Unopened <=> R!Unopened'
  BY <1>4 DEF R!Unopened
<1>9. W!Written' = W!Written /\ Reached' = Reached /\ \A k : Numbered(k)' = Numbered(k)
  BY <1>3 DEF W!Written, Reached, Numbered, EntryOf
<1>10. CASE WriterInv
  <2>1. WriterState'
    BY <1>3, <1>6, <1>8, <1>9, <1>10 DEF WriterInv, WriterState, InWriter, InEntries
  <2>2. WriterBytes'
    BY <1>3, <1>9, <1>10 DEF WriterInv, WriterBytes, EntryOf
  <2>3. WriterInv'
    BY <2>1, <2>2 DEF WriterInv
  <2>. QED
    BY <1>1, <1>2, <1>9, <1>10, <2>3, PlainSteps DEF WriterMaps
<1>11. CASE ~writer.running /\ Readable
  <2>1. PICK c : ReaderInv(c)
    BY <1>11 DEF Readable
  <2>2. Tiled <=> Tiled'
    BY <1>4, <1>5 DEF Tiled
  <2>3. Reader <=> Reader'
    <3>1. \A b \in {0, 1} : (InBlocks(Filled(b)) \/ place[b] + Filled(b) = size) <=>
                            (InBlocks(Filled(b)) \/ place[b] + Filled(b) = size)'
      BY <1>4, <1>5 DEF InBlocks
    <3>2. \A b \in {0, 1} : InEntries(place[b])' <=> InEntries(place[b])
      BY <1>4 DEF InEntries
    <3>3. R!Rounded(bytes[Background])' = R!Rounded(bytes[Background])
      BY <1>4, <1>5 DEF R!Rounded
    <3>. QED
      BY <1>3, <1>4, <1>5, <2>2, <3>1, <3>2, <3>3 DEF Reader, InEntries, InBlocks, EntriesIn
  <2>4. ReaderState'
    BY <1>3, <1>4, <1>5, <1>7, <2>1, <2>3 DEF ReaderInv, ReaderState, InEntries, InBlocks
  <2>5. \A k : Stale(k)' = Stale(k)
    BY <1>3, <1>4, <1>5 DEF Stale
  <2>6. FileHolds(c)'
    BY <1>3, <2>1, <2>5 DEF ReaderInv, ReaderBytes, FileHolds, EntryOf
  <2>7. main' # "closed" => BuffersHold(c)'
    BY <1>3, <1>4, <1>5, <2>1 DEF ReaderInv, ReaderBytes, BuffersHold, EntryOf, R!Rounded
  <2>8. Entries(c)' /\ Untouched(c)'
    BY <1>3, <1>5, <2>1 DEF ReaderInv, ReaderBytes, Entries, Untouched
  <2>9. ReaderInv(c)'
    BY <2>4, <2>6, <2>7, <2>8 DEF ReaderInv, ReaderBytes
  <2>10. IInv'
    BY <1>2, <1>3, <1>11, <2>9 DEF Readable
  <2>11. UNCHANGED <<PlainContent, PlainNext, PlainMode>>
    BY <1>1, <1>3, <1>5, <2>1, <2>9 DEF ReaderMaps
  <2>. QED
    BY <2>10, <2>11, PlainSteps
<1>. QED
  BY <1>10, <1>11, IInvIs

LEMMA NextMaps ==
  ASSUME IInv, [Next]_vars
  PROVE  IInv' /\ PlainStep
<1>1. CASE WriterInv
  <2>1. thread = "none" /\ main \notin {"closed", "first", "ready", "got", "end", "leaving"}
    BY <1>1, WriterOnly DEF WriterInv
  <2>2. ~R!Thread
    BY <2>1 DEF R!Thread, R!ThreadStart, R!WriteBack, R!ThreadTruncate, R!SeekBack, R!ReadAhead,
                R!GotoThread
  <2>3. ~R!Caller /\ ~Open
    BY <2>1 DEF R!Caller, R!Started, R!NextInBuffer, R!SwapBuffers, R!Use, R!Finish, R!Finished,
                Open, R!Start, R!Goto
  <2>4. Writing \/ UNCHANGED vars
    BY <2>2, <2>3 DEF Next, Reading, Done
  <2>. QED
    BY <1>1, <2>4, WritingMaps, StutterMaps
<1>2. CASE ~writer.running /\ Readable
  <2>1. PICK c : ReaderInv(c)
    BY <1>2 DEF Readable
  <2>2. main \in {"closed", "first", "ready", "got", "end", "leaving"}
    BY <2>1, ReaderOnly DEF ReaderInv
  <2>3. ~Writing
    BY <1>2, <2>2 DEF Writing, W!Next, W!Write, W!Swap, W!AsyncWrite, W!Finish, W!Truncate, W!Goto
  <2>4. Reading \/ Open \/ UNCHANGED vars
    BY <2>3 DEF Next, Done
  <2>. QED
    BY <1>2, <2>1, <2>4, ReadingMaps, StutterMaps
<1>. QED
  BY <1>1, <1>2, IInvIs

LEMMA InitMaps ==
  ASSUME Init
  PROVE  IInv /\ PlainContent = <<>> /\ PlainNext = 0 /\ PlainMode = "write"
<1>1. WriterInv
  BY InitWriter
<1>2. W!Written = 0
  <2>1. total = 0 /\ num = 0 /\ main = "fill"
    BY DEF Init, W!Init
  <2>2. 0 \div Entry = 0
    BY Zero DEF EntriesIn
  <2>. QED
    BY <2>1, <2>2 DEF W!Written
<1>3. PlainContent = [e \in 1..0 |-> e] /\ PlainNext = 0 /\ PlainMode = "write"
  BY <1>1, <1>2, Maps DEF WriterMaps
<1>4. [e \in 1..0 |-> e] = <<>>
  OBVIOUS
<1>. QED
  BY <1>1, <1>3, <1>4, IInvIs

-----------------------------------------------------------------------------
(* The theorems.                                                           *)

(* Between them the file and the buffers hold the entries, whole and each  *)
(* at its place, and the thread never reads what a buffer has a newer      *)
(* version of, whatever write() and read() move at a time.                 *)
THEOREM Invariance == Spec => []IInv
BY InitMaps, NextMaps, PTL DEF Spec

(* bufferedFile and bufferedPositionFile keep their structures within      *)
(* bounds: neither runs over a buffer, and the places are places in the    *)
(* file.                                                                   *)
THEOREM TypeCorrect == Spec => []TypeOK
<1>1. IInv => TypeOK
  <2>1. ASSUME WriterInv PROVE TypeOK
    BY <2>1, WriterOnly DEF WriterInv, TypeOK, WriterState
  <2>2. ASSUME NEW c, ReaderInv(c) PROVE TypeOK
    BY <2>2, ReaderOnly DEF ReaderInv, TypeOK, ReaderState
  <2>. QED
    BY <2>1, <2>2, IInvIs DEF Readable
<1>. QED
  BY <1>1, Invariance, PTL

(* A kill between two calls of write(), or between write() and             *)
(* ftruncate(), leaves in the file only entries of it, old or updated,     *)
(* each at its place, and zeros after them.                                *)
THEOREM PlacedAlways == Spec => []BytesInPlace
<1>1. IInv => BytesInPlace
  BY IInvIs, WriterPlaced, ReaderPlaced DEF Readable
<1>. QED
  BY <1>1, Invariance, PTL

(* The two kinds of double buffering implement a plain file: its entries   *)
(* come back whole and in order, all of them before the end is reported,   *)
(* and with the updates of the first pass.                                 *)
THEOREM Refinement == Spec => ImplementsPlainFile
<1>1. Init => Plain!Init
  BY InitMaps DEF Plain!Init, PlainContent, PlainNext, PlainMode
<1>2. IInv /\ [Next]_vars =>
        [Plain!Next]_<<PlainContent, PlainNext, PlainMode>>
  BY NextMaps DEF PlainStep
<1>. QED
  BY <1>1, <1>2, Invariance, PTL DEF Spec, ImplementsPlainFile, Plain!Spec,
     PlainContent, PlainNext, PlainMode
=============================================================================
