----------------------------- MODULE BoundedFifo -----------------------------
(***************************************************************************)
(* What a message queue promises to the threads on its two ends: messages  *)
(* of several lengths come out whole, once each, in the order they went    *)
(* in, and never occupy more than Size words.  A message takes one word    *)
(* more than its payload, the header that holds its length.                *)
(***************************************************************************)
EXTENDS Naturals, SequencesExt

CONSTANTS Receivers,
          Size,       \* words of message storage
          Messages    \* the messages that can be sent, sequences of words

VARIABLES queue,      \* the messages inside, oldest first
          got         \* what each receiver was last given

Used(q) == FoldLeft(LAMBDA n, m : n + Len(m) + 1, 0, q)

Init == /\ queue = <<>>
        /\ got = [r \in Receivers |-> <<>>]

Send(m) == /\ Used(queue) + Len(m) + 1 <= Size
           /\ queue' = Append(queue, m)
           /\ UNCHANGED got

Receive(r) == /\ queue # <<>>
              /\ got' = [got EXCEPT ![r] = Head(queue)]
              /\ queue' = Tail(queue)

Next == \/ \E m \in Messages : Send(m)
        \/ \E r \in Receivers : Receive(r)

Spec == Init /\ [][Next]_<<queue, got>>
=============================================================================
