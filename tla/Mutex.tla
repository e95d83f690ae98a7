-------------------------------- MODULE Mutex --------------------------------
(***************************************************************************)
(* The futex mutex of mutex-lib.h, at the grain of its atomic operations:  *)
(* bsdlicMutexLock, bsdlicMutexUnlock and bsdlicMutexNoYieldUnlock, each   *)
(* compare-and-swap, load, fetch_sub and futex system call being one step  *)
(* and threads interleaving between any two of them.                       *)
(*                                                                         *)
(* The 32-bit word mutex->val is the record val: its top bit (OWNED_FLAG)  *)
(* is val.owned, the other 31 bits are val.count, the number of threads    *)
(* that own the mutex or have registered to wait for it.                   *)
(***************************************************************************)
EXTENDS Naturals, Integers, FiniteSets

CONSTANT Threads

ASSUME ThreadsAssumption == IsFiniteSet(Threads) /\ Threads # {}

VARIABLES
  val,       \* the mutex word shared by all threads
  pc,        \* where each thread is
  mutex_val, \* local of bsdlicMutexLock: the value the next CAS expects
  inc_wait   \* local of bsdlicMutexLock: 1 until the thread is registered

vars == <<val, pc, mutex_val, inc_wait>>

Word == [owned : BOOLEAN, count : Nat]

Free == [owned |-> FALSE, count |-> 0]

(***************************************************************************)
(* "out"    not using the mutex          "load"  returned from FUTEX_WAIT  *)
(* "cas"    about to compare-and-swap    "cs"    owns the mutex            *)
(* "wait"   about to call FUTEX_WAIT     "yield" unlocked, has yielded     *)
(* "asleep" blocked in the kernel        "wake"  about to call FUTEX_WAKE  *)
(***************************************************************************)
Locations == {"out", "cas", "wait", "asleep", "load", "cs", "yield", "wake"}

Goto(t, from, to) == /\ pc[t] = from
                     /\ pc' = [pc EXCEPT ![t] = to]

Init == /\ val = Free
        /\ pc = [t \in Threads |-> "out"]
        /\ mutex_val = [t \in Threads |-> Free]
        /\ inc_wait = [t \in Threads |-> 1]

-----------------------------------------------------------------------------
(* bsdlicMutexLock.                                                        *)

(* The call starts by guessing that the word is 0 and that it still has to *)
(* count itself.                                                           *)
StartLock(t) == /\ Goto(t, "out", "cas")
                /\ mutex_val' = [mutex_val EXCEPT ![t] = Free]
                /\ inc_wait' = [inc_wait EXCEPT ![t] = 1]
                /\ UNCHANGED val

RegisteredUncounted(old, inc) == [owned |-> TRUE, count |-> old.count]

(* The new value of the word: the thread counted, the owned bit set.       *)
Registered(old, inc) == [owned |-> TRUE, count |-> old.count + inc]

(* A failed compare-and-swap leaves the current value in mutex_val.        *)
CasFails(t) == /\ pc[t] = "cas"
               /\ val # mutex_val[t]
               /\ mutex_val' = [mutex_val EXCEPT ![t] = val]
               /\ UNCHANGED <<val, pc, inc_wait>>

CasForgetsOwner(t) == /\ Goto(t, "cas", "cs")
                      /\ val = mutex_val[t]
                      /\ val' = Registered(mutex_val[t], inc_wait[t])
                      /\ UNCHANGED <<mutex_val, inc_wait>>

CasKeepsRegistering(t) ==
  /\ val = mutex_val[t]
  /\ val' = Registered(mutex_val[t], 1)
  /\ IF mutex_val[t].owned THEN Goto(t, "cas", "wait") ELSE Goto(t, "cas", "cs")
  /\ UNCHANGED <<mutex_val, inc_wait>>

(* A successful one acquires the mutex if the old word was not owned.      *)
CasSucceeds(t) ==
  /\ val = mutex_val[t]
  /\ val' = Registered(mutex_val[t], inc_wait[t])
  /\ IF mutex_val[t].owned THEN Goto(t, "cas", "wait") ELSE Goto(t, "cas", "cs")
  /\ UNCHANGED <<mutex_val, inc_wait>>

SleepsUnchecked(t) == /\ Goto(t, "wait", "asleep")
                      /\ UNCHANGED <<val, mutex_val, inc_wait>>

(* FUTEX_WAIT blocks only if the word still has the value the caller just  *)
(* wrote; the comparison and going to sleep are one step of the kernel.    *)
FutexWait(t) ==
  /\ IF val = Registered(mutex_val[t], inc_wait[t])
       THEN Goto(t, "wait", "asleep")
       ELSE Goto(t, "wait", "load")
  /\ UNCHANGED <<val, mutex_val, inc_wait>>

(* A signal makes FUTEX_WAIT return before anybody wakes the thread.       *)
Interrupted(t) == /\ Goto(t, "asleep", "load")
                  /\ UNCHANGED <<val, mutex_val, inc_wait>>

(* Back from FUTEX_WAIT the thread reloads the word and no longer counts.  *)
Reload(t) == /\ Goto(t, "load", "cas")
             /\ mutex_val' = [mutex_val EXCEPT ![t] = val]
             /\ inc_wait' = [inc_wait EXCEPT ![t] = 0]
             /\ UNCHANGED val

-----------------------------------------------------------------------------
(* bsdlicMutexUnlock and bsdlicMutexNoYieldUnlock.                         *)

(* fetch_sub (OWNED_FLAG | 1).                                             *)
Unregister == val' = [owned |-> FALSE, count |-> val.count - 1]

UnlockDroppingWake(t) ==
  /\ Unregister
  /\ Goto(t, "cs", "out")
  /\ UNCHANGED <<mutex_val, inc_wait>>

(* With more than one thread still registered the caller yields and looks  *)
(* again; with exactly one it goes straight to FUTEX_WAKE.                 *)
Unlock(t) ==
  /\ Unregister
  /\ \/ val.count > 2 /\ Goto(t, "cs", "yield")
     \/ val.count = 2 /\ Goto(t, "cs", "wake")
     \/ val.count < 2 /\ Goto(t, "cs", "out")
  /\ UNCHANGED <<mutex_val, inc_wait>>

(* After the yield a mutex that somebody took meanwhile is that owner's    *)
(* to hand over.                                                           *)
LookAgain(t) ==
  /\ IF val.owned THEN Goto(t, "yield", "out") ELSE Goto(t, "yield", "wake")
  /\ UNCHANGED <<val, mutex_val, inc_wait>>

NoYieldUnlock(t) ==
  /\ Unregister
  /\ IF val.count > 1 THEN Goto(t, "cs", "wake") ELSE Goto(t, "cs", "out")
  /\ UNCHANGED <<mutex_val, inc_wait>>

(* FUTEX_WAKE with a count of 1: one sleeper returns, if there is one.     *)
FutexWake(t) ==
  /\ pc[t] = "wake"
  /\ \/ \E s \in Threads : /\ pc[s] = "asleep"
                           /\ pc' = [pc EXCEPT ![t] = "out", ![s] = "load"]
     \/ /\ \A s \in Threads : pc[s] # "asleep"
        /\ pc' = [pc EXCEPT ![t] = "out"]
  /\ UNCHANGED <<val, mutex_val, inc_wait>>

-----------------------------------------------------------------------------
(* The steps a running thread takes by itself once it has called Lock.     *)
Step(t) == \/ CasFails(t) \/ CasSucceeds(t) \/ FutexWait(t) \/ Reload(t)
           \/ Unlock(t) \/ NoYieldUnlock(t) \/ LookAgain(t) \/ FutexWake(t)

Next == \E t \in Threads : StartLock(t) \/ Interrupted(t) \/ Step(t)

Spec == Init /\ [][Next]_vars

(* Fairness: a thread that is not blocked in the kernel is scheduled, and  *)
(* critical sections end.  Nothing forces a thread to call Lock, and no    *)
(* signal has to arrive.                                                   *)
FairSpec == Spec /\ \A t \in Threads : WF_vars(Step(t))

-----------------------------------------------------------------------------
TypeOK == /\ val \in Word
          /\ pc \in [Threads -> Locations]
          /\ mutex_val \in [Threads -> Word]
          /\ inc_wait \in [Threads -> {0, 1}]

(* Mutual exclusion: bsdlicMutexLock never returns in two threads at once. *)
MutualExclusion ==
  \A s, t \in Threads : pc[s] = "cs" /\ pc[t] = "cs" => s = t

(* The threads the count stands for: the owner, and every waiter from its  *)
(* registering CAS until the CAS that acquires.                            *)
Counted(t) == \/ pc[t] \in {"wait", "asleep", "load", "cs"}
              \/ pc[t] = "cas" /\ inc_wait[t] = 0

(* The word always tells the truth: the owned bit is set exactly while a   *)
(* thread is inside, and the count is the number of registered threads, so *)
(* the unlock paths that skip FUTEX_WAKE do so only when nobody waits.     *)
WordIsExact ==
  /\ val.owned <=> \E t \in Threads : pc[t] = "cs"
  /\ val.count = Cardinality({t \in Threads : Counted(t)})

(* No lost wake-up: while a thread sleeps and the mutex is free, some other *)
(* thread is already committed to a step that wakes it or takes the mutex  *)
(* (an unlocker before its FUTEX_WAKE, or a registered waiter awake).      *)
WillHandOver(t) == \/ pc[t] \in {"yield", "wake", "load", "wait"}
                   \/ pc[t] = "cas" /\ inc_wait[t] = 0

NoLostWakeup ==
  (\E s \in Threads : pc[s] = "asleep") /\ ~val.owned
     => \E t \in Threads : WillHandOver(t)

(* Whenever a thread wants the mutex, some thread eventually gets it: the  *)
(* waiters are never all left asleep around a free mutex.                  *)
Trying(t) == pc[t] \in {"cas", "wait", "asleep", "load"}

Progress ==
  (\E t \in Threads : Trying(t)) ~> (\E t \in Threads : pc[t] = "cs")

(* The mutex implements the abstract lock.                                 *)
Abstract == INSTANCE Lock WITH holders <- {t \in Threads : pc[t] = "cs"}

ImplementsLock == Abstract!Spec
=============================================================================
