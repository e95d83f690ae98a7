----------------------------- MODULE MutexProofs -----------------------------
(***************************************************************************)
(* Proofs about the futex mutex, for every finite set of threads.          *)
(*                                                                         *)
(* The word is exact (owned bit = somebody inside, count = number of       *)
(* registered threads), types hold and at most one thread is inside: the   *)
(* three are inductive together, because the decrement of an unlock stays  *)
(* in Nat only if the owner is counted, and a CAS admits a thread only if  *)
(* the owned bit is truthful.  That no wake-up is lost follows from them.  *)
(***************************************************************************)
EXTENDS Mutex, FiniteSetTheorems, TLAPS

CountedSet == {t \in Threads : Counted(t)}

Exact == TypeOK /\ MutualExclusion /\ WordIsExact

-----------------------------------------------------------------------------
(* A set of counted threads is finite, so its cardinality is a number.     *)
LEMMA CountedFinite ==
  /\ IsFiniteSet(CountedSet) /\ Cardinality(CountedSet) \in Nat
  /\ IsFiniteSet(CountedSet') /\ Cardinality(CountedSet') \in Nat
<1>1. CountedSet \in SUBSET Threads /\ CountedSet' \in SUBSET Threads
  BY DEF CountedSet
<1>. QED
  BY <1>1, FS_Subset, FS_CardinalityType, ThreadsAssumption

(* The owner is counted: the count is positive while a thread is inside,   *)
(* and at least 2 if another thread is registered too.                     *)
LEMMA OwnerIsCounted ==
  ASSUME Exact, NEW t \in Threads, pc[t] = "cs"
  PROVE  /\ val.count >= 1
         /\ \A s \in Threads \ {t} : Counted(s) => val.count >= 2
<1>. DEFINE rest == CountedSet \ {t}
<1>1. t \in CountedSet
  BY DEF CountedSet, Counted
<1>2. /\ IsFiniteSet(rest) /\ Cardinality(rest) \in Nat
      /\ Cardinality(rest) = Cardinality(CountedSet) - 1
  BY <1>1, CountedFinite, FS_RemoveElement, FS_CardinalityType
<1>3. val.count = Cardinality(CountedSet)
  BY DEF Exact, WordIsExact, CountedSet
<1>4. val.count >= 1
  BY <1>2, <1>3, CountedFinite
<1>5. ASSUME NEW s \in Threads \ {t}, Counted(s)
      PROVE  val.count >= 2
  <2>1. rest # {}
    BY <1>5 DEF CountedSet
  <2>2. Cardinality(rest) # 0
    BY <2>1, <1>2, FS_EmptySet
  <2>. QED
    BY <2>2, <1>2, <1>3, CountedFinite
<1>. QED
  BY <1>4, <1>5

-----------------------------------------------------------------------------
(* A step that leaves the word alone, moves no thread into or out of the   *)
(* critical section and changes no thread's being counted keeps Exact.     *)
LEMMA UncountedStep ==
  ASSUME Exact, TypeOK', UNCHANGED val,
         \A t \in Threads : Counted(t)' <=> Counted(t),
         \A t \in Threads : pc'[t] = "cs" <=> pc[t] = "cs"
  PROVE  Exact'
<1>1. CountedSet' = CountedSet
  BY DEF CountedSet
<1>2. WordIsExact'
  BY <1>1 DEF Exact, WordIsExact, CountedSet
<1>3. MutualExclusion'
  BY DEF Exact, MutualExclusion
<1>. QED
  BY <1>2, <1>3 DEF Exact

(* A successful CAS keeps Exact.                                           *)
LEMMA CasStep ==
  ASSUME Exact, NEW t \in Threads, CasSucceeds(t)
  PROVE  Exact'
<1>. USE DEF Exact, TypeOK, Word, Locations
<1>1. /\ pc[t] = "cas" /\ val = mutex_val[t] /\ UNCHANGED <<mutex_val, inc_wait>>
      /\ val' = [owned |-> TRUE, count |-> val.count + inc_wait[t]]
      /\ pc' = [pc EXCEPT ![t] = IF val.owned THEN "wait" ELSE "cs"]
  BY DEF CasSucceeds, Goto, Registered
<1>2. TypeOK'
  BY <1>1
<1>3. CountedSet' = CountedSet \cup {t} /\ (t \in CountedSet <=> inc_wait[t] = 0)
  BY <1>1 DEF CountedSet, Counted
<1>4. val'.count = Cardinality(CountedSet')
  <2>1. Cardinality(CountedSet') =
           IF inc_wait[t] = 0 THEN Cardinality(CountedSet)
                              ELSE Cardinality(CountedSet) + 1
    BY <1>3, CountedFinite, FS_AddElement
  <2>2. val.count = Cardinality(CountedSet)
    BY DEF WordIsExact, CountedSet
  <2>. QED
    BY <1>1, <2>1, <2>2, CountedFinite
<1>5. CASE val.owned
  BY <1>1, <1>2, <1>4, <1>5 DEF WordIsExact, MutualExclusion, CountedSet
<1>6. CASE ~val.owned
  <2>1. \A s \in Threads : pc[s] # "cs"
    BY <1>6 DEF WordIsExact
  <2>2. \A s \in Threads : pc'[s] = "cs" <=> s = t
    BY <2>1, <1>1, <1>6
  <2>. QED
    BY <2>2, <1>1, <1>2, <1>4 DEF WordIsExact, MutualExclusion, CountedSet
<1>. QED
  BY <1>5, <1>6

(* Leaving the critical section by either unlock keeps Exact.              *)
LEMMA UnlockStep ==
  ASSUME Exact, NEW t \in Threads, NEW to \in {"out", "yield", "wake"},
         Unregister, Goto(t, "cs", to), UNCHANGED <<mutex_val, inc_wait>>
  PROVE  Exact'
<1>. USE DEF Exact, TypeOK, Word, Locations
<1>1. /\ pc[t] = "cs" /\ pc' = [pc EXCEPT ![t] = to]
      /\ val' = [owned |-> FALSE, count |-> val.count - 1]
  BY DEF Unregister, Goto
<1>2. TypeOK'
  BY <1>1, OwnerIsCounted
<1>3. CountedSet' = CountedSet \ {t} /\ t \in CountedSet
  BY <1>1 DEF CountedSet, Counted
<1>4. val'.count = Cardinality(CountedSet')
  <2>1. Cardinality(CountedSet') = Cardinality(CountedSet) - 1
    BY <1>3, CountedFinite, FS_RemoveElement
  <2>2. val.count = Cardinality(CountedSet)
    BY DEF WordIsExact, CountedSet
  <2>. QED
    BY <1>1, <2>1, <2>2, CountedFinite
<1>5. \A s \in Threads : pc'[s] # "cs"
  BY <1>1 DEF MutualExclusion
<1>. QED
  BY <1>1, <1>2, <1>4, <1>5 DEF WordIsExact, MutualExclusion, CountedSet

(* Every step of the mutex keeps Exact.                                    *)
LEMMA ExactInductive == Exact /\ [Next]_vars => Exact'
<1>. SUFFICES ASSUME Exact, [Next]_vars PROVE Exact'
  OBVIOUS
<1>. USE DEF TypeOK, Word, Locations, Free, Counted
<1>0. TypeOK
  BY DEF Exact
<1>1. ASSUME NEW t \in Threads, StartLock(t) PROVE Exact'
  <2>1. TypeOK'
    BY <1>0, <1>1 DEF StartLock, Goto
  <2>. QED
    BY <2>1, <1>0, <1>1, UncountedStep DEF StartLock, Goto
<1>2. ASSUME NEW t \in Threads, CasFails(t) PROVE Exact'
  <2>1. TypeOK'
    BY <1>0, <1>2 DEF CasFails
  <2>. QED
    BY <2>1, <1>0, <1>2, UncountedStep DEF CasFails
<1>3. ASSUME NEW t \in Threads, CasSucceeds(t) PROVE Exact'
  BY <1>3, CasStep
<1>4. ASSUME NEW t \in Threads, FutexWait(t) PROVE Exact'
  <2>1. TypeOK'
    BY <1>0, <1>4 DEF FutexWait, Goto
  <2>. QED
    BY <2>1, <1>0, <1>4, UncountedStep DEF FutexWait, Goto
<1>5. ASSUME NEW t \in Threads, Interrupted(t) PROVE Exact'
  <2>1. TypeOK'
    BY <1>0, <1>5 DEF Interrupted, Goto
  <2>. QED
    BY <2>1, <1>0, <1>5, UncountedStep DEF Interrupted, Goto
<1>6. ASSUME NEW t \in Threads, Reload(t) PROVE Exact'
  <2>1. TypeOK'
    BY <1>0, <1>6 DEF Reload, Goto
  <2>. QED
    BY <2>1, <1>0, <1>6, UncountedStep DEF Reload, Goto
<1>7. ASSUME NEW t \in Threads, Unlock(t) PROVE Exact'
  BY <1>7, UnlockStep DEF Unlock
<1>8. ASSUME NEW t \in Threads, NoYieldUnlock(t) PROVE Exact'
  BY <1>8, UnlockStep DEF NoYieldUnlock
<1>9. ASSUME NEW t \in Threads, LookAgain(t) PROVE Exact'
  <2>1. TypeOK'
    BY <1>0, <1>9 DEF LookAgain, Goto
  <2>. QED
    BY <2>1, <1>0, <1>9, UncountedStep DEF LookAgain, Goto
<1>10. ASSUME NEW t \in Threads, FutexWake(t) PROVE Exact'
  <2>1. TypeOK'
    BY <1>0, <1>10 DEF FutexWake
  <2>. QED
    BY <2>1, <1>0, <1>10, UncountedStep DEF FutexWake
<1>11. CASE UNCHANGED vars
  BY <1>11 DEF vars, Exact, MutualExclusion, WordIsExact
<1>. QED
  BY <1>1, <1>2, <1>3, <1>4, <1>5, <1>6, <1>7, <1>8, <1>9, <1>10, <1>11
  DEF Next, Step

(* The initial state is exact: nobody inside, nobody counted.              *)
LEMMA ExactInit == Init => Exact
<1>. SUFFICES ASSUME Init PROVE Exact
  OBVIOUS
<1>1. CountedSet = {}
  BY DEF Init, CountedSet, Counted
<1>2. WordIsExact
  BY <1>1, FS_EmptySet DEF Init, WordIsExact, CountedSet, Free
<1>. QED
  BY <1>2 DEF Init, Exact, TypeOK, MutualExclusion, Free, Word, Locations

LEMMA AlwaysExact == Spec => []Exact
  BY ExactInit, ExactInductive, PTL DEF Spec

-----------------------------------------------------------------------------
(* The word keeps its type; in particular fetch_sub never borrows from the *)
(* owned bit, whatever the number of threads.                              *)
THEOREM TypeCorrect == Spec => []TypeOK
<1>1. Exact => TypeOK
  BY DEF Exact
<1>. QED
  BY <1>1, AlwaysExact, PTL

(* bsdlicMutexLock admits one thread at a time.                            *)
THEOREM Exclusion == Spec => []MutualExclusion
<1>1. Exact => MutualExclusion
  BY DEF Exact
<1>. QED
  BY <1>1, AlwaysExact, PTL

(* The owned bit and the waiter count of the word are always truthful.     *)
THEOREM ExactWord == Spec => []WordIsExact
<1>1. Exact => WordIsExact
  BY DEF Exact
<1>. QED
  BY <1>1, AlwaysExact, PTL

-----------------------------------------------------------------------------
(* No lost wake-up is inductive once the word is known to be exact.  The   *)
(* two steps that need exactness are the unlocks: a thread that leaves     *)
(* without FUTEX_WAKE saw a count of 1, and then nobody was asleep.        *)
LEMMA HandOverStep ==
  ASSUME Exact, NoLostWakeup, [Next]_vars
  PROVE  NoLostWakeup'
<1>. SUFFICES ASSUME NEW s \in Threads, pc'[s] = "asleep", ~val'.owned
              PROVE  \E t \in Threads : WillHandOver(t)'
  BY DEF NoLostWakeup
<1>. USE DEF Exact, TypeOK, Word, Locations, Free, WillHandOver
<1>1. ASSUME NEW t \in Threads, StartLock(t)
      PROVE  \E w \in Threads : WillHandOver(w)'
  <2>1. pc[s] = "asleep" /\ ~val.owned
    BY <1>1 DEF StartLock, Goto
  <2>2. PICK w \in Threads : WillHandOver(w)
    BY <2>1 DEF NoLostWakeup
  <2>. QED
    BY <2>2, <1>1 DEF StartLock, Goto
<1>2. ASSUME NEW t \in Threads, CasFails(t)
      PROVE  \E w \in Threads : WillHandOver(w)'
  <2>1. PICK w \in Threads : WillHandOver(w)
    BY <1>2 DEF CasFails, NoLostWakeup
  <2>. QED
    BY <2>1, <1>2 DEF CasFails
<1>3. ASSUME NEW t \in Threads, CasSucceeds(t)
      PROVE  FALSE
  BY <1>3 DEF CasSucceeds, Registered
<1>4. ASSUME NEW t \in Threads, FutexWait(t)
      PROVE  \E w \in Threads : WillHandOver(w)'
  <2>1. val # Registered(mutex_val[t], inc_wait[t])
    BY <1>4 DEF FutexWait, Registered
  <2>. QED
    BY <2>1, <1>4 DEF FutexWait, Goto
<1>5. ASSUME NEW t \in Threads, Interrupted(t)
      PROVE  \E w \in Threads : WillHandOver(w)'
  BY <1>5 DEF Interrupted, Goto
<1>6. ASSUME NEW t \in Threads, Reload(t)
      PROVE  \E w \in Threads : WillHandOver(w)'
  BY <1>6 DEF Reload, Goto
<1>7. ASSUME NEW t \in Threads, Unlock(t)
      PROVE  \E w \in Threads : WillHandOver(w)'
  <2>1. pc[t] = "cs" /\ pc[s] = "asleep" /\ s # t
    BY <1>7 DEF Unlock, Goto
  <2>2. val.count >= 2
    BY <2>1, OwnerIsCounted DEF Counted
  <2>3. pc'[t] \in {"yield", "wake"}
    BY <1>7, <2>2 DEF Unlock, Goto
  <2>. QED
    BY <2>3
<1>8. ASSUME NEW t \in Threads, NoYieldUnlock(t)
      PROVE  \E w \in Threads : WillHandOver(w)'
  <2>1. pc[t] = "cs" /\ pc[s] = "asleep" /\ s # t
    BY <1>8 DEF NoYieldUnlock, Goto
  <2>2. val.count >= 2
    BY <2>1, OwnerIsCounted DEF Counted
  <2>3. pc'[t] = "wake"
    BY <1>8, <2>2 DEF NoYieldUnlock, Goto
  <2>. QED
    BY <2>3
<1>9. ASSUME NEW t \in Threads, LookAgain(t)
      PROVE  \E w \in Threads : WillHandOver(w)'
  BY <1>9 DEF LookAgain, Goto
<1>10. ASSUME NEW t \in Threads, FutexWake(t)
       PROVE  \E w \in Threads : WillHandOver(w)'
  <2>1. PICK w \in Threads : pc[w] = "asleep" /\ pc' = [pc EXCEPT ![t] = "out", ![w] = "load"]
    BY <1>10 DEF FutexWake
  <2>2. w # t
    BY <2>1, <1>10 DEF FutexWake
  <2>. QED
    BY <2>1, <2>2
<1>11. CASE UNCHANGED vars
  BY <1>11 DEF vars, NoLostWakeup
<1>. QED
  BY <1>1, <1>2, <1>3, <1>4, <1>5, <1>6, <1>7, <1>8, <1>9, <1>10, <1>11
  DEF Next, Step

(* No wake-up is lost, for any number of threads using either unlock.      *)
THEOREM WakeupsAreNotLost == Spec => []NoLostWakeup
<1>1. Init => NoLostWakeup
  BY DEF Init, NoLostWakeup
<1>. QED
  BY <1>1, AlwaysExact, HandOverStep, PTL DEF Spec

-----------------------------------------------------------------------------
(* The mutex implements the abstract lock: a CAS that finds the owned bit  *)
(* clear is an Acquire, the fetch_sub of an unlock is a Release, and every *)
(* other step leaves the holders as they are.                              *)
LEMMA StepRefines ==
  ASSUME Exact, [Next]_vars
  PROVE  [Abstract!Next]_({t \in Threads : pc[t] = "cs"})
<1>. DEFINE holders == {t \in Threads : pc[t] = "cs"}
<1>. USE DEF Exact, TypeOK, Locations
<1>1. ASSUME NEW t \in Threads, CasSucceeds(t)
      PROVE  Abstract!Next \/ holders' = holders
  <2>1. CASE val.owned
    <3>1. holders' = holders
      BY <1>1, <2>1 DEF CasSucceeds, Goto
    <3>. QED
      BY <3>1
  <2>2. CASE ~val.owned
    <3>1. holders = {}
      BY <2>2 DEF WordIsExact
    <3>2. holders' = {t}
      BY <1>1, <2>2, <3>1 DEF CasSucceeds, Goto
    <3>. QED
      BY <3>1, <3>2 DEF Abstract!Next, Abstract!Acquire
  <2>. QED
    BY <2>1, <2>2
<1>2. ASSUME NEW t \in Threads, Unlock(t) \/ NoYieldUnlock(t)
      PROVE  Abstract!Next
  <2>1. t \in holders /\ holders' = holders \ {t}
    BY <1>2 DEF Unlock, NoYieldUnlock, Goto
  <2>. QED
    BY <2>1 DEF Abstract!Next, Abstract!Release
<1>3. ASSUME NEW t \in Threads,
             \/ StartLock(t) \/ CasFails(t) \/ FutexWait(t) \/ Interrupted(t)
             \/ Reload(t) \/ LookAgain(t) \/ FutexWake(t)
      PROVE  holders' = holders
  BY <1>3 DEF StartLock, CasFails, FutexWait, Interrupted, Reload, LookAgain,
              FutexWake, Goto
<1>4. CASE UNCHANGED vars
  BY <1>4 DEF vars
<1>. QED
  BY <1>1, <1>2, <1>3, <1>4 DEF Next, Step

(* Every behaviour of the futex mutex is one of the abstract lock.         *)
THEOREM Refinement == Spec => ImplementsLock
<1>1. Init => Abstract!Init
  BY DEF Init, Abstract!Init
<1>. QED
  BY <1>1, AlwaysExact, StepRefines, PTL DEF Spec, ImplementsLock, Abstract!Spec
=============================================================================
