-------------------------------- MODULE Lock --------------------------------
(***************************************************************************)
(* What a mutual exclusion lock promises to its callers: at any time at    *)
(* most one thread is inside, a thread enters only when nobody is, and the *)
(* thread that leaves is the one that entered.  mutex-lib.h implements it  *)
(* (module Mutex) and the queue library uses it (module MsgQueue).         *)
(***************************************************************************)
CONSTANT Threads

VARIABLE holders          \* the threads inside the critical section

Init == holders = {}

Acquire(t) == /\ holders = {}
              /\ holders' = {t}

Release(t) == /\ t \in holders
              /\ holders' = holders \ {t}

Next == \E t \in Threads : Acquire(t) \/ Release(t)

Spec == Init /\ [][Next]_holders
=============================================================================
