# Specifications of distributed-perft

TLA+ modules for distributed-perft, a program that counts the leaf positions of
the chess game tree ("perft") on several machines. Paths and line numbers refer
to the repository's `src/` directory. All modules are checked with TLC on small
instances; the modules whose name ends in `Proofs` hold theorems that TLAPS
proves for every value of the constants.

## 1. The system

`mcperft` works in four stages, each a separate run of the program, that
communicate only through files under `board-db/`:

1. `create-db` expands the game tree ply by ply into a position database: for
   each ply a sorted file of distinct positions, and a file with, for every
   position, the indices of the positions its moves lead to in the next ply;
2. `count-setup` cuts the positions of the last ply into parts, one workload
   file per part;
3. `count` counts the moves below every position of one part, typically on a
   machine of its own for hours or days, and leaves a results file;
4. `aggregate` collects the results files and sums them up through the move
   files to one number.

Below it are two small libraries: a futex mutex (`mutex-lib.h`) and message
queues (`queue-lib.c`), used by the merge threads of stage 1. Beside it are two
single-process perft programs (`scperft`, `perft`) with which results are
compared, and the move generators.

### Inventory

| Part | State it keeps | Operations | Interacts through | What is hard | What makes it correct | Module |
|---|---|---|---|---|---|---|
| futex mutex, `mutex-lib.h` | one 32-bit word: owned bit and count | Lock, Unlock, NoYieldUnlock | the word, the futex | CAS races, skipped wake-ups, signals | exclusion, exact count, no lost wake-up | `Mutex` |
| queue send/receive, `queue-lib.c` 568-1035 | ring, head, tail, packed size and blocked flags, two mutexes | Send, Receive with no, limited or unlimited wait | the size word, the futex | flag and size changed apart, wrap-around, time limits | bounded FIFO, nobody sleeps on a true condition | `MsgQueue` |
| queue registry, `queue-lib.c` 74-566, 1038-1078 | table of queues, id counter | Init, Create, Destroy, InfoGet | control mutex | reuse of slots, destroyed handles | an id names one queue | not modelled |
| count, `mcperft_internal.c` 2597-3161 | `temp_result`, `result_n`, chunk buffers, shared index | start or resume, read a chunk, search, append, publish | files of earlier and later runs; search threads | kill, full disk, power loss at any point, resume, reuse of buffers | results of every position once, in order; resumes | `DeepCount` |
| count-setup, 3277-3397 | workload files | erase, check, cut | files | remainders, late check | the parts partition the ply | `CountSetup` |
| aggregate, 3409-4093 | counters of every ply | collect, sum last ply, sum tree | results and move files | incomplete sets, 4-byte counters, buffer refills | accepted means right | `Aggregate` |
| buffered files, 158-756 | two buffers and a background thread each | start, next, finish | the thread, the file | swap while in flight, block rounding, a copied structure | the file is the sequence written, with its updates | `PlyFile` |
| block sort, 959-1273 | two blocks of memory, block files | sort, swap, write | sort threads, a writing thread | a block filled while the other is written | every entry in one sorted file | `SortBlocks` |
| parallel merge, 1315-1936 | block readers, merge threads, queues | read, merge, terminate | message queues | end of stream, bounded queues, trimming of files | merged stream is sorted and complete | `MergeStreams`, `TrimReader` |
| ply generation, 1943-2583 | ply files | expand, sort, merge, index | all of the above | duplicates over blocks, dying half-way | every move leads to its position | `DbGenerate` |
| `movegen.c` | none (lookup tables) | find the checks and pins, the moves of each piece, count the last ply, perft | calls | shortcuts that skip the test of a move, tables, flags handed down | the legal moves, and as many | `BitBoard`, `MoveGen`, `LastPly` |
| `bytebrd.c`, `brdutil.c` | none | make a move, moves in words, perft, FEN | calls | flags kept apart from the board, three forms of one position | the same position in every form | `ByteBoard` |
| `onecore.c`, `scperft.c` | the tree of the first plies, the settings | load, find duplicates, search, sum up | calls | positions with one board and different flags, full tables | equals plain perft | `OneCore` |
| command lines, `codecov.c`, `perft.c`, `Makefile` | none | parsing, printing, test drivers | | | | not modelled |

What `DbGenerate`, `DeepCount` and `Aggregate` take as given of the move generators is
that they are functions: the same position always has the same moves. That these are
the moves of chess is the subject of `OneCore` and the modules below it.

## 2. Modules

| Module | What it is |
|---|---|
| `Lock` | what a lock promises |
| `Mutex` | the futex mutex, refines `Lock` |
| `MutexProofs` | its theorems |
| `BoundedFifo` | what a message queue promises |
| `MsgQueue` | one queue of the queue library, refines `BoundedFifo` |
| `MsgQueueProofs` | its theorems |
| `MCMsgQueue` | the symmetry of threads, for TLC |
| `DeepCount` | the count stage |
| `DeepCountProofs` | its theorems |
| `MCDeepCount` | small position files for TLC |
| `CountSetup` | the count-setup stage |
| `CountSetupProofs` | its theorems |
| `Aggregate` | the aggregate stage |
| `AggregateProofs` | its theorems |
| `MCAggregate` | a small database for TLC |
| `PlainFile` | what the files of a ply promise |
| `BufferedFile`, `PositionFile` | the double-buffered writer, and the double-buffered reader and updater |
| `PlyFile` | composes the two: the life of one position file, refines `PlainFile` |
| `PlyFileProofs` | its theorems |
| `PlyExpansion` | what create-db promises: the game tree, ply by ply, without duplicates |
| `SortBlocks` | the sorting of blocks of memory into block files |
| `TrimReader` | reading a block file and cutting off its head |
| `MergeStreams` | the merge threads and their receiving side, over the two |
| `DbGenerate` | create-db, over all three, refines `PlyExpansion` |
| `DbGenerateProofs` | its theorems |
| `MCDbGenerate` | a small game for TLC |
| `BitBoard` | the bit board, the lookup tables, check detection, flipping masks |
| `OperatorProofs` | lemmas about operators: of the bit board (with its theorem), and of the sequences and ranges of entries in create-db |
| `MoveGen` | checks and pins, and the moves of every kind of piece |
| `LastPly` | the counters of the last ply, and perft |
| `ByteBoard` | boards of bytes: move making, moves in words, plain perft, packing, FEN |
| `ChessRules` | the rules of chess, without bit boards; a reference, no part of the code |
| `OneCore` | a session of scperft and `onecorePerft` |
| `MCOneCore` | positions and sessions for TLC |

The stages meet in files, and so do their modules. `DbGenerate` promises a database
that is the game tree (`PlyExpansion`). `CountSetup` promises that
the workload and results files on disk belong to one set-up and share out the
last ply; `DeepCount` that a published results file holds the results of its part
in order (after a power failure, a prefix); `Aggregate` assumes exactly this of the
parts (`PartsAssumption`) and of the files (`Files`), and promises perft; of the
database it assumes `DatabaseAssumption`, which a database that `PlyExpansion` allows
satisfies (each move leads to a position of the next ply).

An operator whose name says what went wrong (`CasForgetsOwner`, `ResumeFromStart`,
...) and that stands right before the definition it deforms is a plausible bug.
No specification uses it; it shows that the property it is paired with can fail.

### Mutex

The word `mutex->val` is the record `val` (`owned`: its top bit, `count`: the
other 31). One action per atomic operation or system call: the first guess of
the word (`StartLock`), the CAS (`CasSucceeds`, `CasFails`), `FUTEX_WAIT`
(`FutexWait` compares and sleeps in one step, as the kernel does), the reload
after it (`Reload`), `fetch_sub` of the two unlocks (`Unlock`, `NoYieldUnlock`),
the second look after `sched_yield` (`LookAgain`) and `FUTEX_WAKE` (`FutexWake`).
`Interrupted` is a signal that ends a `FUTEX_WAIT`; the code retries on any return.
`mutex_val` and `inc_wait` are the locals of `bsdlicMutexLock`. The count is a
natural number: the code's 31 bits hold more threads than Linux runs.

### MsgQueue

Sizes are in 4-byte words: the code rounds every message up to four bytes and
puts a four-byte length in front. `word` is `current_queue_size`: the bytes in
use and, in its top bits, one "blocked" flag per side. `ring`, `head` and `tail`
are the message space and its offsets; `lock` holds the head and tail locks, as
the abstract lock of `Lock` that `Mutex` is shown to implement. A call goes
through the locations check (load the size), mark (CAS of the flag), release,
fwait/asleep (the futex), relock, reload, copy (the message), commit (the size),
clear (the peer's flag) and signal (wake). Every access to the shared word is a
step of its own; copying a message is one step because the part of the ring it
touches belongs to the copying side until the commit. That the head lock and the
tail lock exclude each side's threads, and that the peer cannot reach the copied
part, is not assumed: `ImplementsFifo` fails if it is not so. A queue declared
single-sender or single-receiver takes no lock on that side.

Left out: statistics counters, return codes and truncation into a short receive
buffer, and the nanosecond arithmetic of time limits (an expired wait is a
choice at every return of a timed `FUTEX_WAIT`).

### DeepCount

One process at a time on one machine, and the directory `result-files` that
outlives it. `temp` is `temp_result` (absent, empty, or with a header naming a
part, followed by results) and `results[p]` is `result_<p>`. `main` walks through
`brdDbCount`: open (is the result there?), temp (resume, create or refuse),
header, then per chunk read, join and write, and at last check (compare the
file's size) and rename. `at`, `mine` and `index` are the search threads and their
shared `workload_index`; `buffer` is `search_result_buffer`, which is not cleared
between chunks. `pos`, `extracted` and `more` are the offset of the position file,
`workloads_extracted` and `more_entries_needed`. The move count of position i is
represented by i, so that a misplaced, missing or stale result shows.

The environment kills the process between any two steps or inside a write
(`Interrupt`), fills the disk (`WriteFails`), cuts the power (`PowerFails`: the
program flushes nothing, so `temp_result` may vanish, lose its header or lose any
suffix, and a published results file may lose any suffix), and restarts the count
of any part at any time (`Start`). `EraseTemp` is the user who erases `temp_result`
after an error about it. The message for another workload's header asks for that;
those for a missing header and for a wrong size only name the file, and without
`EraseTemp` no count gets past them.

Abstractions: a write that is cut short ends between two 8-byte results, and a
header is written whole or not at all; `read()` of the position file transfers any
number of whole entries up to the chunk (`Read`, `Readable`), or stops inside one,
which the code takes for a corrupted file (`ReadTorn`). The once-a-minute progress
report is left out: its counters are only printed.

### CountSetup

`workloads` and `results` are the headers of the files in the two directories,
`main`, `i` and `start` the course of `brdDbCountSetup`. The two `rm -rf`, the check
of the split, and for each part the creation and the header of its file are
actions; `Interrupt` kills the process before any of them, inside an `rm -rf` too,
and stands for the errors that end the program. `Call` runs it again with any
arguments, those that `mcperftCountSetup` refuses included. `Count` is what the
count stage does to the directories: a results file with the header of its
workload file. That a shallow search cannot be split is checked only after both
directories were erased (`CheckSplit` comes after `EraseResults`, as in the code).

### Aggregate

`asked`, `made`, `cut`, `leaf`, `files` and `limit` are given and never change: the depth
of the search and of the database it was set up with, the parts, what counting
finds below each position of the last ply, how much of it each results file holds
(none, a cut header, any number of entries, a torn entry), and how many files the
process may open. The loop over the directory (`OpenFile`, `ReadResults`) takes
the files in any order; `open` counts the descriptors it never gives back. `found`
is the number of results of the parts read to their end, the only thing
`CheckTotal` compares. The three passes are `CountMoves` (the search ends inside the
database), `SumPosition` with `main` = "deep" (from the table of results) and "tree"
(from the ply below). They share the buffer of the move file: `buf` is its content,
`index` the next move in it, `offset` the place in the file up to which it was read,
and `Refilled` is the refill that moves the rest to the front. The counters may be
of 4 or 8 bytes; a result over `CounterLimit` ends the aggregation, and the sums,
which the code forms in 8 bytes, are natural numbers here.

Left out: the mapping of the counters to files and their move to a work
directory, the progress report, and the move file ending before its moves do,
where the code gives an error and `SumPosition` would be disabled: as deadlock is
checked, the run shows that it does not happen with a proper database.

### PlyFile

`BufferedFile` and `PositionFile` share the variable `file`, the bytes on disk, and
`main`, the place of the calling thread; `PlyFile` gives the file from the writer to
an updating pass (`brd_db_generate` going on to the next ply) and then to a reading
one. An entry takes `Entry` bytes, each showing the number of the entry, negative
once it was updated; 0 is padding and `Junk` is memory that nobody wrote, so a torn,
stale or misplaced entry is seen. The caller's steps are the calls, split where
they wait (`pthread_join` is the guard that the thread has ended). The threads
take a step per system call; a `read()` or `write()` may move some of the blocks
only, and must start at the border of a block (`O_DIRECT`). `Use` is what the caller
does to the entry it was handed. Finishing before the end is allowed in both passes;
the code does it only in reading ones.

The second read-ahead thread is started with the address of a local variable that
is then returned by value (`mcperft_internal.c:398`). `Started` takes the two to be one
object, as with the Makefile's compiler (icx, which builds the result in place).
A gcc 12 build with files of more than one buffer was seen to fail in `create-db`;
`StartedWithCopy` shows the hazard, and `ImplementsPlainFile` fails with it.

Left out: what an entry consists of, and errors of the file system, which end the
program. Files written at the same time share nothing.

### DbGenerate, SortBlocks, MergeStreams, TrimReader

A position is a number, in the order of `positionCompare`, and `Moves` gives the
positions its moves reach. `positions` and `moves` are the files of the database,
`files` the block files of the ply in hand. `main` is the database thread: it
expands a ply ("expand"), merges the positions reached and writes each once, with
a move entry for every duplicate ("unique", "same"), and merges these, sorted by
move, into the move file ("move", "next"). "sort" and "written" are the calls of
`parallelSort`: positions are sorted by `unsorted` threads before the call goes on,
moves by the thread that writes them; the two blocks change places (`Swap`) once the
writer of the previous one was joined. `block[b]` is not cleared, so an entry that
is sorted or written too early or too late shows. A merge thread picks the smallest
next entry of its readers (`Pick`), goes on with the same reader while it can
(`Same`) and sends full messages (`Send`, which waits at a full queue); its receiver
waits where the code calls `bsdlicQueueReceive` (`Receive`). An end message is empty.

A reader (`TrimReader`) is a record and its operations are operators. The file
system collapses files or it does not (`works` in `StartMerge`), for a whole merge.
Sizes are in entries. What "sequential" means is `Follows`: positions with the same
key, moves with the next. `last` is the entry that was picked, not the last one sent,
as in the code.

`Kill` ends the process anywhere. What was not on the disk by then is lost: the
entries of an updated position file, the tail of a file being written (which is
what `PlyFile` leaves). create-db refuses to start where `board-db` exists, so there
is no action that goes on.

Left out: the display, the statistics, errors of the file system (they end the
program), and the loop of `generateSortedBlockFile` over entries equal to the last,
which takes what its search for the smallest would take next. A file system that
fails to collapse one file and then succeeds with it would lose entries; `works`
excludes this.

### BitBoard, MoveGen, LastPly

A 64-bit mask is a set of squares, so the masks of the code are translated one for
one: `&`, `|`, `^` are set operations, shifts are `Shift`, popcount is `Cardinality`,
and `pext` on the blockers is the set of the occupied ones (`lookupKeyCompute`). The
tables, which `squareUnderAttackGenerate` fills before anything else, are constant
functions; the hand-written masks of the king's neighbourhood are kept as written
(`KingNeighbourhood`; for h1 the code has the square f7 where the mirrored mask has
g6, `movegen.c:5872`, which changes no result).

A position is a record of what the functions hand down: the arrays `piece` and
`color`, the side to move, the en passant pawn, the castles ruled out and, as
`compl`, the sides known to hold two knights, bishops and rooks and one queen.
`pinCompute` gives the lane of the checks, the lanes of the pins, whether moves must
be tried out (`test`) and the squares of the king. The functions of `MoveGen` list
the moves under it; a move holds the masks to flip and what the next ply is called
with. The two modes of the code (record the moves, or make each and count below) go
through the same set. `LastPly` has the counters that replace the list on the last
ply: all pieces at once when there is no check and at most one pin (`PieceCount`, or
`StandardPieceCount` with the loops written out), otherwise piece by piece.

Left out: the order of moves, inlining, prefetching, statistics.

### ByteBoard

Positions as programs exchange them: a board of bytes with its flags (`brd_t`,
`brdCtrlInfo_t`), the packed board of the database (`brdPack`), and FEN, whose rows
are sequences of pieces and gaps. `searchSetup` goes to the bit board,
`bytebrdNextMoveGet` reads moves in words off the masks, `bytebrdUtilMoveMake` makes one
on the byte board, with flags of its own. `movesRapidFind` is the perft that reports
every first move.

### ChessRules and OneCore

`ChessRules` states the rules on a board that says what stands on each square: a
move is legal if it moves as its piece does and leaves the own king unattacked.
`Games(g, n)` is the number of games of n moves.

`OneCore` plays a game and counts along the way. `StoreMove` is mcperft: a move is made
on the stored position, which is packed again. `PositionFen` exports it and scperft
reads it. `GoPerft` calls `onecorePerft`, whose tree is then built one board at a time
(`LoadBoard`), searched below its last ply (`SearchLastPly`), summed up (`SumPly`) and
given back (`Return`), or dropped for plain perft (`PlainPerft`). `CacheEnable` is the
option of the session. `game` is the position by the rules, moved along.

An entry of the tree is found by its hash chain, which ends at the entry with the
same key; the model looks for that entry. Entries count from 1. The code overlays
an entry's key with the count it ends with (`positions_at_depth`, in the bits of a
board that hold no piece); the model keeps them apart. A session's calls are silent;
the one of the command line reports the first moves. `silent` is free here. Left
out: statistics, timing, "position startpos" (which scperft ignores), and the texts.

## 3. What the runs check

| Run | Instance | Question |
|---|---|---|
| `mutex` | 3 threads | all safety properties, progress, refinement of `Lock` |
| `queue_single` | 1 sender, 1 receiver, unlimited waits, 5 words, messages of 1 and 2 words, 4 sends | as mcperft uses its queues: FIFO; no sleeper is missed; a blocked sender gets room; the queue drains |
| `queue_many` | 2 senders, 2 receivers, polling and timed, 8 words, messages of 2 words (empty ones are refused), 3 sends | FIFO, each message to one receiver, whatever fails or times out |
| `queue_two_senders` | 2 senders, unlimited waits | (violated) a blocked sender is woken when there is room |
| `count` | 7 positions in parts of 4 and 3, 3 search threads, chunks of 3, 2 faults, 1 power failure | every safety property; every part is counted at last |
| `count_first_part` | first half of 6 positions, 1 interruption | (violated) resumes without help |
| `setup` | 5 positions, 0 to 7 parts asked for, 6 allowed, 3 depths | the files on disk belong to one set-up, share out the ply and overlap nowhere, after any kills |
| `aggregate` | 4 plies of 1, 2, 4 and 3 positions, searches of depth 1 to 4, 3 ways to cut, buffers of 2 results and 3 moves | accepted is right and complete, complete is accepted, it ends |
| `aggregate_attribution` | the same | (violated) the count beside a move is that move's |
| `ply_file` | up to 7 entries of 3 bytes, blocks of 2, buffers of 2 and 4 entries, two passes | the buffering is invisible; kills leave entries in place; it ends |
| `create_db` | a game of 3 plies with transpositions and mates, 2 sort threads, blocks of 6, moves in blocks of 2, buffers of 2, 2 streams, messages of 2, queues of 1 | the database is the game tree without duplicates; no thread waits for ever; no killed run looks complete and is wrong |
| `single_core` | 13 positions, up to 3 moves played, depths 1 to 7 | the moves are those of chess, on either board; the last ply counts as many; perft is right with the tree, without it, and when it is full |

Bounds, and why they are enough. Three threads make the mutex count distinguish
an owner, one waiter and more than one, which is all its code distinguishes. A
ring of five words with messages of two and three words (header included) gives
every position of header and payload relative to the end of the ring, among them
the exact fit and the split payload; four sends go around it more than once. With two
threads on each side (`queue_many`) the eight words hold two messages with their
headers, so that two receivers can race for messages of different age, and the
payload of the third is split; two threads per locked side are what the locks and
flags distinguish. The code does not tell the threads of a side apart, nor does
anything in this safety property, so TLC looks at one of each set of states that
differ in their names only (`Symmetry`). Parts of four and
three positions in chunks of three make a part of a whole chunk and a partial one, a resume in
the middle of a chunk and one on its border; two faults let a resumed count be
interrupted again, the power failure comes on top. Five positions go into three
parts with a remainder and into six with an empty part; as set-ups follow each
other without limit, `setup` needs no bound of behaviour. The database of
`aggregate` has positions without moves, positions reached twice and first moves
out of order; its move buffer is smaller than every move file but one and is
refilled in the middle of a position's moves, and the results of a part need one read or two.
Every state of every results file is an initial state. Entries of
`ply_file` straddle blocks, and its files have none to several buffers, a last
block that is full or not, and transfers of one block or of more. The game of
`create_db` makes its second ply fill four blocks of positions and five of moves,
merged in two streams; positions are reached twice from one position, from several,
and across blocks and streams; a buffer of two entries in files of up to six is
refilled and trimmed, and messages are full, partial and empty. The positions of
`single_core` are those that `codecov.c` and `perft.c` run (castling, promotions,
several pins, en passant with and without a pawn that can capture, and the one that
bares the king), and small ones for mate and stalemate, for a rook captured at home,
for two orders of moves that lead to one board with and without an en passant pawn,
and for a tree deep enough for four plies. Each position is compared with the rules
of chess in full after every move played. `MaxSends`, `MaxFaults` and
`MaxLosses` are the only bounds of behaviour; the rest are sizes.

Fairness. `Mutex!FairSpec`: a thread that is not asleep in the kernel runs, and
critical sections end. `MsgQueue!FairSpec`: a thread inside a call and not asleep
runs, a limited wait ends, and a mutex that is free again and again is obtained
(the kernel does not promise this for one thread; `Mutex!Progress` shows that
some thread gets it, and the strong fairness is only needed with several threads
on a side). `ServedSpec` adds that the receiver keeps receiving, as the merging
thread does until its stream ends. `DeepCount!FairSpec`: a running process and its
threads run, the user (or the restart script of README.md:135) starts every part
again and again, and erases `temp_result` after an error about it, whether or not the
message asks for that. No
fairness is assumed of faults; there are finitely many. `Aggregate!FairSpec`: the
thread runs; `brdDbAggregate` waits for it (`mcperft_internal.c:4103` on).
`PlyFile!FairSpec`: the caller and the threads run, and the caller finishes what
it writes (`mcperft_internal.c:2203`) and what it reads (2015, 3435, 3538, 3649).
`DbGenerate!FairSpec`: the database thread, the sort threads, the writer and the merge
threads run. `OneCore` is a sequential program that the user drives, and has none.

### Where the code and its documents differ

- `queue_two_senders`: with several senders asleep on a full queue, one receive
  clears the single flag they share and wakes one; the others stay asleep even
  when the queue is empty, although `queue-lib.h:309` says "Block until the space
  is available." Receivers on one queue share this. mcperft's own queues have one
  thread per side and are not affected (`queue_single`).
- `count_first_part`: a resumed count compares the positions read since its start
  with the size of the whole part (`mcperft_internal.c:2727`), reads on into the
  next part, and ends with "doesn't seem to match"; every further count does the
  same. README.md:135 says that it "automatically restarts from the last
  checkpointed position". The last part of a split, and an unsplit count, are
  saved by the end of the position file. No wrong result is published (`count`).
- No run of its own: Linux transfers 2147479552 bytes at most in one `read()`, which
  is not a multiple of the 41 bytes of an entry, so a chunk of 1'000'000 entries per
  core cannot be read from 53 cores on and is reported as a corrupted position file
  (`mcperft_internal.c:2716`). This is the action `ReadTorn`; no wrong result follows.
- No run of its own: no results file is closed after reading, so a search of more than
  about 1020 parts cannot be aggregated under the usual limit of 1024 open files,
  while `mcperft_api.c:93` allows 10'000 parts. (A build run with 1100 parts ends with
  "Too many open files".) The model has this refusal, and `NoFalseRefusal` leaves it
  out: it is about searches with descriptors for every part and two files more.
- `aggregate_attribution`: the counts of the first moves are reported in the order
  of the sorted positions of ply 1 beside moves in the order of generation. Their
  sum is right (it is part of `PerftIsRight`), and so is the total. At depth 1 they are all 0,
  because that pass does not write the counters of ply 1.

## 4. What is proved

For every finite set of threads (`MutexProofs`):

- `TypeCorrect`, `Exclusion`, `ExactWord`: types, mutual exclusion and exactness of
  the word are inductive only together (`Exact`): an unlock keeps the count a
  natural number because the owner is counted, and a CAS admits one thread because
  the owned bit is truthful. The count is the cardinality of the set of registered
  threads, so each step adds or removes one thread of that set
  (`CasStep`, `UnlockStep`) or leaves it (`UncountedStep`).
- `WakeupsAreNotLost`: from `Exact`; the unlock paths that skip the wake-up do so
  when the count shows no other thread.
- `Refinement`: every step is a step of `Lock` or leaves the set of owners.

For every number of threads on either side, every size of the ring, all messages and
every mixture of waiting modes (`MsgQueueProofs`):

- `Invariance`: the inductive invariant `IInv` has four parts. `Types`. `LocksOK`: on
  a side opened for several threads, whoever is between taking the lock and giving it
  up owns it, so at most one thread of a side is inside (on a side opened for one
  there is one). `CallsOK`: what a call found out stays true until it acts on it. A
  sender that saw room still has it, because only senders take room and the others
  are locked out; so with a receiver and its message. This is why the size may be
  loaded long before it is committed. `RingOK`: there is a list of messages that lie
  one after the other around the ring, from the head to the tail, and whose words add
  up to the words used (`Holds`); a message copied in but not committed lies behind
  them, one copied out but not committed in front. The copies of the two sides touch
  different words because the words used and the room are disjoint.
- `DecodeStored`: what was laid around the ring is read back as it was, headers and
  payloads that wrap around included, by induction over the messages; `UsedLinks` adds
  up their words likewise.
- `TypeCorrect`, `Refinement`: the abstract queue is that list (`ContentsAre`); a
  commit is a step of `BoundedFifo`, every other step leaves the list as it is.
- `NoLostWakeUp`: for one thread per side, as mcperft has, `SleeperIsWoken`. The
  invariant `SleepersWatched` says that a sleeper's flag is up until its peer is about
  to wake it, and that while it is up the condition is false or the peer is about to
  take the flag down. With more threads on a side it does not hold, see
  `queue_two_senders`.

For every number of parts, positions, cores, faults and power failures and every
chunk size (`DeepCountProofs`), under `CountAssumption`
(each part lies inside the position file, sizes are positive):

- `Invariance`: the inductive invariant `IInv` is `TypeOK`, `FilesAreRight` (the
  checkpoint and the results are prefixes of what they should be, a results file
  untouched by power failures is complete), `ProcessAgrees` (the process's offset
  is where its file ends: `pos` is the first position of the part plus the entries
  of `temp`, plus those of the chunk in hand) and `ChunkIsRight` (every claimed
  entry of the chunk is in the buffer or with exactly one thread, so that at the
  join the buffer holds the chunk). `CheckpointIsPrefix` alone is not inductive:
  what is appended is right only because of the other two.
- `TypeCorrect`, `Checkpoints`, `Results`, `Searches`: the invariants of run `count`.
- `PublishedWhole`: the action property `PublishedOnce`.

For every number of positions and parts and every sequence of set-ups, kills and
counts (`CountSetupProofs`): `TypeCorrect`, `OneSetupAlways`, `NoOverlapAlways` and
`SetupIsCompleteAlways`. The inductive invariant says that between the erasures
the files there have the present arguments or none, and that the headers written
so far are those of the parts 0 to `i` - 1, laid end to end up to `start`. That the
ends meet the size of the ply rests on the remainder being smaller than the
number of parts.

For every database, split, state of the results files, buffer size and limit
(`AggregateProofs`, under the three assumptions of `Aggregate`):

- `CountsAddUpAlways`: the invariant is that all counters of the plies below `ply`
  and of the positions before `i` are right (`SumsAreRight`), which rests on the
  buffer being a window on the move file that continues with the moves of
  position `i` (`BufferIsFile`, kept by `RefillKeeps`).
- `NothingMissingAlways`: the code compares only totals. `found` is the cardinality
  of the positions of the parts read to their end (`Scanning`: parts are disjoint);
  a subset of the last ply of its size is all of it (`WholePly`), so each part with
  positions was read, and read to its end.
- `TypeCorrect`: all counters are natural numbers, as the sum formed with `FoldLeft`
  over a list of naturals of any length is one (`Values`).
- `PerftIsRightAlways`: an accepted aggregation reports `Perft` of the start position.
  `Perft` is a recursive function of the ply. It satisfies its equation because the
  recursion ends at the last ply (`PerftUnfolds`, by induction from there), and
  the sums of `CountsAddUp` then agree with it on every ply (`CountsArePerft`, by
  induction from the last ply up).
- `NoFalseRefusalEver`: where the results are all there and two files more than there
  are parts may be open, nothing is refused. The invariant `Unhindered` says that the
  files open and those still to be opened are together no more than the parts, that
  part 1, from which the depth is taken, is still to come or was read, and that the
  totals are compared only when every file was read.

For buffers, blocks and entries of any size, any number of entries and transfers of
any number of blocks (`PlyFileProofs`, under `BufferAssumption`: buffers are of whole
blocks):

- `Invariance`: the invariant of the writer says that the file, what the thread has
  left to write, and the buffer in use continue one another from the first entry on.
  That of the reader says that there are entries c, each as written or updated, which
  the file holds at every byte that is not `Stale`, and the buffers at every byte they
  were `Filled` with. A byte is stale if the buffer in use covers it while a pass
  updates, or the other buffer, as long as that is still to be written back. The
  buffers are laid end to end up to what was `read` (`Tiled`), so the thread never
  reads a stale byte; all but the last are of whole blocks, so only the last is padded
  when it is written back, and the zeros lie behind the last entry. c itself
  changes only when the caller updates an entry, and nothing behind the last entry
  handed out is updated (`Untouched`).
- `TypeCorrect`, `PlacedAlways`, `Refinement`: types, `BytesInPlace` after a kill
  anywhere, and that the file with its buffers is a `PlainFile`, from that invariant.
  The plain file's content is c; the steps of the threads leave it as it is.

The arithmetic of blocks and entries (quotients, remainders, rounding up) is in lemmas
at the head of `PlyFileProofs`; the proofs after them call it by name, as the
provers do not find their way through a remainder and a buffer in one step.

For every game, depth, number of sort threads, and every size of blocks, streams,
messages and queues (`DbGenerateProofs`, under the assumptions of `SortBlocks`,
`MergeStreams` and `DbGenerate`, which say that the sizes are positive, that the moves
lead to positions, and that a block has room for the moves of one position):

- `Invariance`: the inductive invariant `IInv` is `SortInv`, `MergeInv` and `DbInv`.
  That a ply is complete and has no duplicates cannot be kept by itself: it follows
  at the end of the merge from where each entry was before. So the invariant looks at
  the places an entry can be in as *boxes*: what is filled of the block in use, the
  ranges of the writer not yet written, and the block files (`SortBox`); what is left
  of each file, the message of its merge thread, the queue, and what its receiver
  holds (`MergeBox`). `Kept` says that no entry is in the boxes twice (`Distinct`) and
  which ones there are: while a ply is expanded, the moves expanded so far, each with
  the position it leads to; while positions are merged, those not yet taken, and for
  the others the entry of the move with the index its position got; while moves
  are merged, those from the end of the move file on. `Numbered` is what makes the
  number of a move unique: the moves of a ply are numbered one position after another.
  `Found` and `Progress` say that the next ply is ascending, that each of its positions
  is reached, and that no entry still to come is below the last.
- Nothing behind the last position is below it because each step keeps the order that
  the next one relies on. `SortedRuns`: the ranges that were sorted are ascending, and
  what the writer has taken is below the rest of its ranges, so the file it writes is
  ascending. `Streams`: what a stream still has in its queue, message and readers comes
  in order, a thread that goes on with the same reader takes an entry that none of the
  other readers can precede (`Follows`), and a stream ends only when nothing is left.
  `WriterControl` keeps the threads off each other's block: the writer works on the
  one that is not filled, and nothing is in it but what it was given.
- `TypeCorrect`: no block, message or queue overflows. `Keys` and `Values` are all
  natural numbers here: that a ply has fewer than 2^32 positions is nothing the code
  checks, so nothing follows about it.
- `HalfPlyShowsAlways`: `Past` says that the finished plies are right and, after a kill,
  that a ply that looks complete is. A kill loses entries of the ply in hand and of the
  next only; if it leaves the move file of that ply at its full length (`TotalMoves`, a sum by
  recursion), all its entries were on the disk, and they are right by `Progress`.
- `Refinement`: `FinishPly` is the step of `PlyExpansion`; no other step, `Kill`
  included, changes the plies that are finished. `FinishPly` is one because at the
  end of the second merge no box holds an entry, hence every move was written, in
  the place of its number, with the index of the position that it leads to.

Every step of a thread moves an entry from one box to another, or sorts a box. What
that does to the contents of all boxes together, and to their order, is in lemmas of
`OperatorProofs` about sequences and functions of sequences; the proof has one lemma
per action, which names the boxes and cites them.

For every position and every move of at most three masks (`OperatorProofs`):

- `MoveUndone`: the code takes a move back with the operation that made it, with the
  masks in the same order, so that operation must undo itself although castling and
  promotions flip two masks in the map of one colour. It does because a flip undoes
  itself (`FlipTwice`) and flips commute (`FlipOrder`). This is what allows `MoveGen`
  and `LastPly` to hand each branch of the search a position of its own, where the
  code goes through the tree on one board.

Induction. The library's induction theorems take the statement as an operator, which
the provers cannot instantiate. The proofs of the queue, of the aggregation and of
create-db use an
induction over sets instead (lemma `Induction`: a set of naturals that contains 0, and
with n also n + 1, has them all), derived from the well-foundedness of the order on
the naturals; the statement goes into the set. That a recursive function is what its
equation says is shown by such an induction too (`PerftUnfolds`).

The assumptions on constants are those of the modules, evaluated by TLC in
every run. Only model-checked: all liveness properties (the provers have no
`ENABLED`, on which fairness rests), the rest of chess, and the properties
of the violated runs, which do not hold. Perft and the number of games of chess are
`RECURSIVE` operators (`allMovePerft`, `Games`), which puts them and the modules over
them out of the prover's reach.

## 5. Plan

Done: the mutex and the queue, the four stages and their files, the move generator
and the single-core perft; proofs of the mutex, of the queue, of the four stages, of
the buffered files and of taking a move back.

Still worth doing: the clock arithmetic of time limits and two counts at once, as
models of their own; perft as a recursive function rather than a `RECURSIVE` operator,
which would bring `PerftIsRight` of `OneCore` within the prover's reach.

The project keeps one run per question and about a dozen of them, so that all can
be repeated in minutes.

## 6. Not modelled

- The queue registry: mcperft creates its queues before the threads that use them
  and destroys them after these were joined, so nothing runs beside it.
- The nanosecond arithmetic of time limits (`queue-lib.c:704`): mcperft waits for ever.
- Two counts at once in a directory (`mcperft_internal.c:2953`); one is assumed.
- `brdDbPlyDepthGet`, `brdPlyNumPositionsGet` and the walk of `brdDbFenGenerate` over a
  position file: plain loops. The first takes the highest ply that is there for the
  depth of the database, whether or not create-db finished it. `HalfPlyShows` says
  that a ply with a complete move file is right; it does not cover a last positions
  file that was cut short and has no move file.
- Results files of different splits in one directory, which may overlap:
  `PartsAssumption` leaves them out.
- Argument parsing, printing, statistics, timing; malformed FEN; the "position"
  command's list of moves.
- `codecov.c` and `perft.c`, which run the generator on fixed positions, and the build.
- In the modelled parts, what section 2 says is left out.

`rename()` is taken to be atomic and the directory entry to survive, while the
file's data may not.
