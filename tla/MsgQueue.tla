------------------------------- MODULE MsgQueue -------------------------------
(***************************************************************************)
(* One message queue of queue-lib.c: bsdlicQueueSend and bsdlicQueueReceive *)
(* on the ring buffer, the packed word current_queue_size and the futex on  *)
(* it, at the grain of the atomic operations.                              *)
(*                                                                         *)
(* The unit of storage is the 4-byte word: the queue size and the space a  *)
(* message takes are multiples of four, so a message is a header word that *)
(* holds its length followed by its payload words.  The two low bits of    *)
(* current_queue_size are the SENDER_BLOCKED and RECEIVER_BLOCKED flags.   *)
(* The head and tail mutexes are abstract locks (module Lock, which module *)
(* Mutex implements); a queue created single_sender or single_receiver     *)
(* does not take the corresponding one.                                    *)
(***************************************************************************)
EXTENDS Integers, Sequences

CONSTANTS Senders, Receivers,
          Size,           \* queue_size in words
          Lengths,        \* payload lengths senders ask for, in words
          Waits,          \* the wait_ms arguments in use
          SingleSender,   \* the creation flags
          SingleReceiver,
          MaxSends        \* bound on the calls of bsdlicQueueSend

Threads == Senders \cup Receivers

ASSUME QueueAssumption ==
  /\ Senders \cap Receivers = {}
  /\ Size \in Nat /\ Size >= 2
  /\ Lengths \subseteq Nat
  /\ Waits \subseteq {"nowait", "timed", "forever"}
  /\ SingleSender \in BOOLEAN /\ SingleReceiver \in BOOLEAN
  /\ SingleSender => \A s, t \in Senders : s = t
  /\ SingleReceiver => \A r, t \in Receivers : r = t
  /\ MaxSends \in Nat

RETRY_COUNT == 1   \* QUEUE_SEND_RETRY_COUNT and QUEUE_RECEIVE_RETRY_COUNT

VARIABLES
  \* msgQueue_t, shared by all threads
  word,      \* current_queue_size: used words and the two flags
  ring,      \* queue_msg_buf
  head,      \* next word to write, owned by the sending side
  tail,      \* next word to read, owned by the receiving side
  lock,      \* holders of head_mutex and tail_mutex
  \* the calls in progress
  pc,
  call,      \* the locals of each thread's call
  got,       \* the message handed to the caller by the last successful receive
  sends      \* calls of bsdlicQueueSend so far

shared == <<word, ring, head, tail>>
vars == <<shared, lock, pc, call, got, sends>>

(* wait_ms; current_queue_size as last loaded; send_retry_count or         *)
(* receive_retry_count; timeout_expired; the message to send or copied out *)
NoCall == [mode |-> "none", cur |-> [used |-> 0, s |-> 0, r |-> 0],
           retries |-> 0, expired |-> FALSE, msg |-> <<>>]

Goto(t, from, to) == /\ pc[t] = from
                     /\ pc' = [pc EXCEPT ![t] = to]

Init ==
  /\ word = NoCall.cur
  /\ ring = [i \in 0..Size-1 |-> <<0, 0>>]
  /\ head = 0 /\ tail = 0
  /\ lock = [side \in {"head", "tail"} |-> {}]
  /\ pc = [t \in Threads |-> "idle"]
  /\ call = [t \in Threads |-> NoCall]
  /\ got = [r \in Receivers |-> <<>>]
  /\ sends = 0

-----------------------------------------------------------------------------
(* The two sides of a queue.                                               *)

Single(t) == IF t \in Senders THEN SingleSender ELSE SingleReceiver
Side(t) == IF t \in Senders THEN "head" ELSE "tail"
MyFlag(t) == IF t \in Senders THEN "s" ELSE "r"
PeerFlag(t) == IF t \in Senders THEN "r" ELSE "s"

(* Can the call proceed, given a value of the word?                        *)
Ready(t, w) == IF t \in Senders THEN w.used + Len(call[t].msg) + 1 <= Size
                                ELSE w.used # 0

(* The lock of a side that has several users.                              *)
TakeLock(t) == /\ lock[Side(t)] = {}
               /\ lock' = [lock EXCEPT ![Side(t)] = {t}]
DropLock(t) == lock' = [lock EXCEPT ![Side(t)] = @ \ {t}]

(* A call that has its result: its locals die, its lock is still held.     *)
Left(t) == [pc EXCEPT ![t] = IF Single(t) THEN "idle" ELSE "unlock"]
Leave(t, from) == /\ pc[t] = from
                  /\ pc' = Left(t)
                  /\ call' = [call EXCEPT ![t] = NoCall]

Begin(t, w, m) ==
  /\ Goto(t, "idle", IF Single(t) THEN "check" ELSE "lock")
  /\ call' = [call EXCEPT ![t] = [NoCall EXCEPT !.mode = w, !.msg = m]]

(* A call of bsdlicQueueSend; one with an empty message or a message that  *)
(* could never fit is refused before it touches the queue.  The payload    *)
(* words carry the number of the call, so that messages can be told apart. *)
SendCall(s, n, w) ==
  /\ sends < MaxSends
  /\ n # 0 /\ n + 1 <= Size
  /\ Begin(s, w, [k \in 1..n |-> <<sends + 1, k>>])
  /\ sends' = sends + 1
  /\ UNCHANGED <<shared, lock, got>>

ReceiveCall(r, w) == /\ Begin(r, w, <<>>)
                     /\ UNCHANGED <<shared, lock, got, sends>>

Lock(t) == /\ Goto(t, "lock", "check")
           /\ TakeLock(t)
           /\ UNCHANGED <<shared, call, got, sends>>

-----------------------------------------------------------------------------
(* Waiting.                                                                *)

(* Load the word; give up at once, or retry once before blocking.          *)
Check(t) ==
  /\ \/ /\ Ready(t, word)
        /\ Goto(t, "check", "copy")
        /\ call' = [call EXCEPT ![t].cur = word]
     \/ /\ ~Ready(t, word) /\ call[t].mode = "nowait"
        /\ Leave(t, "check")
     \/ /\ ~Ready(t, word) /\ call[t].mode # "nowait"
        /\ Goto(t, "check", IF call[t].retries < RETRY_COUNT THEN "check" ELSE "mark")
        /\ call' = [call EXCEPT ![t].cur = word, ![t].retries = @ + 1]
  /\ UNCHANGED <<shared, lock, got, sends>>

(* Compare-and-swap the own blocked flag into the word.                    *)
Flagged(t) == [call[t].cur EXCEPT ![MyFlag(t)] = 1]

Mark(t) ==
  /\ \/ /\ word = call[t].cur
        /\ word' = Flagged(t)
        /\ Goto(t, "mark", IF Single(t) THEN "fwait" ELSE "release")
     \/ /\ word # call[t].cur
        /\ Goto(t, "mark", "reload")
        /\ UNCHANGED word
  /\ UNCHANGED <<ring, head, tail, lock, call, got, sends>>

Release(t) == /\ Goto(t, "release", "fwait")
              /\ DropLock(t)
              /\ UNCHANGED <<shared, call, got, sends>>

AfterWait(t) == IF Single(t) THEN "reload" ELSE "relock"

(* Back from FUTEX_WAIT for another reason than ETIMEDOUT: a timed call    *)
(* looks at the clock, which may or may not show the time as used up.      *)
CheckClock(t) ==
  \/ UNCHANGED call
  \/ call[t].mode = "timed" /\ call' = [call EXCEPT ![t].expired = TRUE]

SleepUnchecked(t) == /\ Goto(t, "fwait", "asleep")
                     /\ UNCHANGED <<shared, lock, call, got, sends>>

(* FUTEX_WAIT sleeps only if the word still is what the CAS left.          *)
FutexWait(t) ==
  /\ \/ word = Flagged(t) /\ Goto(t, "fwait", "asleep") /\ UNCHANGED call
     \/ word # Flagged(t) /\ Goto(t, "fwait", AfterWait(t)) /\ CheckClock(t)
  /\ UNCHANGED <<shared, lock, got, sends>>

(* A signal interrupts the wait.                                           *)
Interrupted(t) == /\ Goto(t, "asleep", AfterWait(t))
                  /\ CheckClock(t)
                  /\ UNCHANGED <<shared, lock, got, sends>>

TimesOut(t) == /\ call[t].mode = "timed"
               /\ Goto(t, "asleep", AfterWait(t))
               /\ call' = [call EXCEPT ![t].expired = TRUE]
               /\ UNCHANGED <<shared, lock, got, sends>>

RelockForgotten(t) == /\ Goto(t, "relock", "reload")
                      /\ UNCHANGED <<shared, lock, call, got, sends>>

Relock(t) == /\ Goto(t, "relock", "reload")
             /\ TakeLock(t)
             /\ UNCHANGED <<shared, call, got, sends>>

(* Reload the word; an expired call fails even if it could now proceed.    *)
Reload(t) ==
  /\ \/ call[t].expired /\ Leave(t, "reload")
     \/ /\ ~call[t].expired
        /\ Goto(t, "reload", IF Ready(t, word) THEN "copy" ELSE "mark")
        /\ call' = [call EXCEPT ![t].cur = word]
  /\ UNCHANGED <<shared, lock, got, sends>>

-----------------------------------------------------------------------------
(* The ring.                                                               *)

(* Where the payload starts after a header at p.                           *)
AfterHeader(p) == IF p + 1 >= Size THEN 0 ELSE p + 1

CellUnsplit(p, n, k) == IF p + k - 1 < Size THEN p + k - 1 ELSE Size - 1

(* The k-th word of an n-word payload that starts at p, in one piece or    *)
(* split in two at the end of the buffer.                                  *)
Cell(p, n, k) ==
  IF p + n <= Size \/ k <= Size - p THEN p + k - 1 ELSE k - (Size - p) - 1

AfterPayloadUnwrapped(p, n) == IF p + n <= Size THEN p + n ELSE n - (Size - p)

(* Where the next message goes after an n-word payload that starts at p.   *)
AfterPayload(p, n) ==
  IF p + n <= Size THEN IF p + n >= Size THEN 0 ELSE p + n
                   ELSE n - (Size - p)

CopyIn(s) ==
  LET m == call[s].msg
      p == AfterHeader(head)
      At(i) == {k \in DOMAIN m : Cell(p, Len(m), k) = i}
  IN  /\ Goto(s, "copy", "commit")
      /\ ring' = [i \in 0..Size-1 |-> IF At(i) # {} THEN m[CHOOSE k \in At(i) : TRUE]
                                     ELSE IF i = head THEN <<0, Len(m)>> ELSE ring[i]]
      /\ head' = AfterPayload(p, Len(m))
      /\ UNCHANGED <<word, tail, lock, call, got, sends>>

CopyOut(r) ==
  LET p == AfterHeader(tail)
      n == ring[tail][2]
  IN  /\ Goto(r, "copy", "commit")
      /\ call' = [call EXCEPT ![r].msg = [k \in 1..n |-> ring[Cell(p, n, k)]]]
      /\ tail' = AfterPayload(p, n)
      /\ UNCHANGED <<word, ring, head, lock, got, sends>>

(* Account for the message, and see whether the other side is blocked.     *)
Finish(t, peerBlocked) ==
  IF peerBlocked THEN Goto(t, "commit", "clear") /\ UNCHANGED call
                 ELSE Leave(t, "commit")

Publish(s) ==
  /\ word' = [word EXCEPT !.used = @ + Len(call[s].msg) + 1]
  /\ Finish(s, word.r = 1)
  /\ UNCHANGED <<ring, head, tail, lock, got, sends>>

ConsumeForgettingHeader(r) ==
  /\ word' = [word EXCEPT !.used = @ - Len(call[r].msg)]
  /\ got' = [got EXCEPT ![r] = call[r].msg]
  /\ Finish(r, word.s = 1)
  /\ UNCHANGED <<ring, head, tail, lock, sends>>

ConsumeAtFullOnly(r) ==
  /\ word' = [word EXCEPT !.used = @ - (Len(call[r].msg) + 1)]
  /\ got' = [got EXCEPT ![r] = call[r].msg]
  /\ Finish(r, word.s = 1 /\ word.used = Size)
  /\ UNCHANGED <<ring, head, tail, lock, sends>>

Consume(r) ==
  /\ word' = [word EXCEPT !.used = @ - (Len(call[r].msg) + 1)]
  /\ got' = [got EXCEPT ![r] = call[r].msg]
  /\ Finish(r, word.s = 1)
  /\ UNCHANGED <<ring, head, tail, lock, sends>>

ClearAndLeave(t) ==
  /\ word' = [word EXCEPT ![PeerFlag(t)] = @ - 1]
  /\ Leave(t, "clear")
  /\ UNCHANGED <<ring, head, tail, lock, got, sends>>

(* fetch_sub of the other side's flag, then FUTEX_WAKE of one sleeper.     *)
Clear(t) ==
  /\ Goto(t, "clear", "signal")
  /\ word' = [word EXCEPT ![PeerFlag(t)] = @ - 1]
  /\ UNCHANGED <<ring, head, tail, lock, call, got, sends>>

Asleep == {u \in Threads : pc[u] = "asleep"}

(* The futex is the word itself: FUTEX_WAKE does not tell the sides apart. *)
Signal(t) ==
  /\ pc[t] = "signal"
  /\ \/ \E u \in Asleep : \E late \in {FALSE, call[u].mode = "timed"} :
           /\ pc' = [Left(t) EXCEPT ![u] = AfterWait(u)]
           /\ call' = [call EXCEPT ![t] = NoCall, ![u].expired = late]
     \/ /\ Asleep = {}
        /\ pc' = Left(t)
        /\ call' = [call EXCEPT ![t] = NoCall]
  /\ UNCHANGED <<shared, lock, got, sends>>

Unlock(t) == /\ Goto(t, "unlock", "idle")
             /\ DropLock(t)
             /\ UNCHANGED <<shared, call, got, sends>>

-----------------------------------------------------------------------------
Common(t) == \/ Check(t) \/ Mark(t) \/ Release(t) \/ FutexWait(t) \/ TimesOut(t)
             \/ Reload(t) \/ Clear(t) \/ Signal(t) \/ Unlock(t)

Send(s) == Common(s) \/ Lock(s) \/ Relock(s) \/ CopyIn(s) \/ Publish(s)

Receive(r) == Common(r) \/ Lock(r) \/ Relock(r) \/ CopyOut(r) \/ Consume(r)

Next == \/ \E s \in Senders : Send(s)
        \/ \E r \in Receivers : Receive(r)
        \/ \E s \in Senders, n \in Lengths, w \in Waits : SendCall(s, n, w)
        \/ \E r \in Receivers, w \in Waits : ReceiveCall(r, w)
        \/ \E t \in Threads : Interrupted(t)

Spec == Init /\ [][Next]_vars

(* A thread that is inside a call and not asleep is scheduled, a timed     *)
(* sleep ends, and a mutex that keeps becoming free is eventually had.     *)
FairSpec == /\ Spec
            /\ \A s \in Senders : WF_vars(Send(s))
            /\ \A r \in Receivers : WF_vars(Receive(r))
            /\ \A t \in Threads : SF_vars(Lock(t)) /\ SF_vars(Relock(t))

(* Also, whoever receives keeps receiving, as the merging thread does      *)
(* until the end of its stream.                                            *)
ServedSpec == FairSpec /\ \A r \in Receivers, w \in Waits : WF_vars(ReceiveCall(r, w))

-----------------------------------------------------------------------------
Locations == {"idle", "lock", "check", "mark", "release", "fwait", "asleep",
              "relock", "reload", "copy", "commit", "clear", "signal", "unlock"}

Word == [used : 0..Size, s : {0, 1}, r : {0, 1}]

TypeOK ==
  /\ word \in Word
  /\ head \in 0..Size-1 /\ tail \in 0..Size-1
  /\ \A i \in 0..Size-1 : ring[i] \in (0..MaxSends) \X (0..Size)
  /\ lock \in [{"head", "tail"} -> SUBSET Threads]
  /\ pc \in [Threads -> Locations]
  /\ \A t \in Threads : /\ call[t].mode \in Waits \cup {"none"}
                        /\ call[t].cur \in Word
                        /\ call[t].retries \in 0..RETRY_COUNT + 1
                        /\ call[t].expired \in BOOLEAN
                        /\ Len(call[t].msg) < Size

(* The ring between tail and head, as the messages it holds.  A receiver   *)
(* that has copied a message out but not yet subtracted its length has     *)
(* moved tail past a message that is still in the queue.                   *)
Decode[n \in 0..Size] ==
  [p \in 0..Size-1 |->
     LET len == ring[p][2]
         q == AfterHeader(p)
     IN  IF ring[p][1] # 0 \/ len = 0 \/ n < len + 1 THEN <<>>
         ELSE <<[k \in 1..len |-> ring[Cell(q, len, k)]]>>
                \o Decode[n - (len + 1)][AfterPayload(q, len)]]

CopiedOut == {r \in Receivers : pc[r] = "commit"}

Contents ==
  IF CopiedOut = {} THEN Decode[word.used][tail]
  ELSE LET m == call[CHOOSE r \in CopiedOut : TRUE].msg
       IN  <<m>> \o Decode[word.used - (Len(m) + 1)][tail]

(* Every behaviour of the queue is one of a bounded FIFO: no message is    *)
(* lost, duplicated, reordered, torn at the wrap-around or overwritten.    *)
Fifo == INSTANCE BoundedFifo WITH
          queue <- Contents,
          Messages <- {[k \in 1..n |-> <<i, k>>] : n \in Lengths, i \in 1..MaxSends}

ImplementsFifo == Fifo!Spec

(* No sender stays blocked for ever on a condition that has come true:     *)
(* sleeping with room for its message, it is woken.                        *)
Stuck(t) == pc[t] = "asleep" /\ Ready(t, word)

SendersUnblock == \A s \in Senders : []<>~Stuck(s)

(* With a receiver that keeps receiving, whatever was queued is drained:   *)
(* neither side sleeps for ever.                                           *)
Drains == word.used > 0 ~> word.used = 0

(* On a queue with one thread per side a thread is never asleep with its   *)
(* condition true unless its peer is on its way to wake it.                *)
SleeperIsWoken ==
  \A t \in Threads : Stuck(t) =>
    \E u \in Threads : Side(u) # Side(t) /\ pc[u] \in {"clear", "signal"}
=============================================================================
