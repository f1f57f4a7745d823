--------------------------- MODULE SpinLockProofs ---------------------------
(***************************************************************************)
(* Mutual exclusion of the spin lock, for any set of threads and any       *)
(* nesting depth.                                                          *)
(***************************************************************************)
EXTENDS SpinLock, TLAPS

(* The thread has executed the compare-exchange and not yet the last store *)
(* of unlock.                                                              *)
Has(t) == held[t] > 0 \/ pc[t] \in {"unwait", "check", "own"}

(* What holds of a thread at each label: lock_holder_ is trusted only by   *)
(* the thread that has the lock, and a register is current until stored.   *)
AtLabel(t) ==
  /\ pc[t] # "failed"
  /\ pc[t] \in {"unwait", "check", "own"} =>
       held[t] = 0 /\ lock_count_ = 1 /\ lock_holder_ = NoThread
  /\ held[t] > 0 =>
       /\ lock_count_ = held[t]
       /\ pc[t] \notin {"wait", "cas"}
       /\ lock_holder_ = IF pc[t] = "free" THEN NoThread ELSE t
  /\ pc[t] \in {"incr", "incr_store", "unlock_me", "unlock", "decr", "decr_store",
                "disown", "free"} => held[t] > 0
  /\ pc[t] \in {"decr", "decr_store"} => held[t] > 1
  /\ pc[t] \in {"disown", "free"} => held[t] = 1
  /\ pc[t] \in {"incr_store", "decr_store"} => tmp[t] = lock_count_

(* The inductive invariant.  MutualExclusion alone is not: it needs that a *)
(* thread between compare-exchange and store of lock_holder_ also has the  *)
(* lock, that the count is 0 only when nobody does, and that a stale       *)
(* lock_holder_ never names a thread without the lock.                     *)
IInv ==
  /\ TypeOK
  /\ \A t \in Threads : AtLabel(t)
  /\ \A t, u \in Threads : Has(t) /\ Has(u) => t = u
  /\ \A t \in Threads : Has(t) => lock_count_ > 0
  /\ lock_count_ > 0 => \E t \in Threads : Has(t)
  /\ \A t \in Threads : lock_holder_ = t => held[t] > 0

LEMMA InitIInv == ASSUME Init PROVE IInv
  BY SpinLockAssumption DEF Init, IInv, TypeOK, Labels, AtLabel, Has

(* Every step of the code preserves it, one case for each step of lock and *)
(* unlock.                                                                *)
LEMMA StepIInv ==
  ASSUME IInv, [Next]_vars
  PROVE  IInv'
<1> USE SpinLockAssumption DEF Goto, IInv, TypeOK, Labels, AtLabel, Has
<1>1. CASE UNCHANGED vars
  BY <1>1 DEF vars
<1>2. ASSUME NEW t \in Threads, LockCall(t) \/ Step(t)
      PROVE  IInv'
  <2>1. CASE LockCall(t)
    BY <2>1 DEF LockCall, IsLocked
  <2>2. CASE LockMe(t)
    BY <2>2 DEF LockMe, IsMine
  <2>3. CASE IncrLoad(t)
    BY <2>3 DEF IncrLoad, LoadCount
  <2>4. CASE IncrStore(t)
    BY <2>4 DEF IncrStore, StoreCount
  <2>5. CASE LockWait(t)
    BY <2>5 DEF LockWait
  <2>6. CASE LockCas(t)
    BY <2>6 DEF LockCas
  <2>7. CASE LockUnwait(t)
    BY <2>7 DEF LockUnwait
  <2>8. CASE LockCheck(t)
    BY <2>8 DEF LockCheck
  <2>9. CASE LockOwn(t)
    BY <2>9 DEF LockOwn, SetHolder
  <2>10. CASE UnlockCall(t)
    BY <2>10 DEF UnlockCall, IsLocked
  <2>11. CASE UnlockMe(t)
    BY <2>11 DEF UnlockMe, IsMine
  <2>12. CASE UnlockBranch(t)
    BY <2>12 DEF UnlockBranch
  <2>13. CASE DecrLoad(t)
    BY <2>13 DEF DecrLoad, LoadCount
  <2>14. CASE DecrStore(t)
    BY <2>14 DEF DecrStore, StoreCount
  <2>15. CASE UnlockDisown(t)
    BY <2>15 DEF UnlockDisown
  <2>16. CASE UnlockFree(t)
    BY <2>16 DEF UnlockFree, StoreCount
  <2>17. CASE LockSpin(t)
    BY <2>17 DEF LockSpin, vars
  <2> QED
    BY <1>2, <2>1, <2>2, <2>3, <2>4, <2>5, <2>6, <2>7, <2>8, <2>9, <2>10, <2>11, <2>12, <2>13, <2>14, <2>15, <2>16, <2>17 DEF Step, LockStep, UnlockStep
<1> QED
  BY <1>1, <1>2 DEF Next

LEMMA AlwaysIInv == Spec => []IInv
<1>1. Init => IInv
  BY InitIInv
<1>2. IInv /\ [Next]_vars => IInv'
  BY StepIInv
<1> QED
  BY <1>1, <1>2, PTL DEF Spec

(* Type correctness of the lock's fields and of the callers' bookkeeping.  *)
THEOREM SpinLockTypeCorrect == Spec => []TypeOK
<1>1. IInv => TypeOK
  BY DEF IInv
<1> QED
  BY <1>1, AlwaysIInv, PTL

(* lock and unlock never let two threads have the lock.                    *)
THEOREM SpinLockExcludes == Spec => []MutualExclusion
<1>1. IInv => MutualExclusion
  BY DEF IInv, MutualExclusion, Has
<1> QED
  BY <1>1, AlwaysIInv, PTL

(* The ASSERTs of lock (count = 1) and unlock (is_locked_by_me) hold.      *)
THEOREM SpinLockAssertsHold == Spec => []NoAssertFails
<1>1. IInv => NoAssertFails
  BY DEF IInv, NoAssertFails, AtLabel
<1> QED
  BY <1>1, AlwaysIInv, PTL

(* The unsynchronised is_locked_by_me answers rightly.                     *)
THEOREM SpinLockOwnershipTestIsRight == Spec => []OwnershipTestIsRight
<1>1. IInv => OwnershipTestIsRight
  BY SpinLockAssumption DEF IInv, OwnershipTestIsRight, AtLabel
<1> QED
  BY <1>1, AlwaysIInv, PTL

(* The plain ++ and -- of lock_count_ lose no update.                      *)
THEOREM SpinLockCountIsDepth == Spec => []CountIsDepth
<1>1. IInv => CountIsDepth
  BY DEF IInv, CountIsDepth, AtLabel
<1> QED
  BY <1>1, AlwaysIInv, PTL

-----------------------------------------------------------------------------
(* The abstract owner is the thread that has the lock.                     *)
LEMMA OwnerHas ==
  IInv => /\ \A t \in Threads : Has(t) => Owner = t
          /\ lock_count_ = 0 => Owner = NoThread
<1> SUFFICES ASSUME IInv
             PROVE  /\ \A t \in Threads : Has(t) => Owner = t
                    /\ lock_count_ = 0 => Owner = NoThread
  OBVIOUS
<1>1. ASSUME NEW t \in Threads, Has(t) PROVE Owner = t
  <2>1. CASE lock_holder_ # NoThread
    BY <1>1, <2>1, SpinLockAssumption DEF IInv, TypeOK, Has, Owner
  <2>2. CASE lock_holder_ = NoThread
    <3>1. pc[t] \in Entering
      BY <1>1, <2>2, SpinLockAssumption DEF IInv, TypeOK, AtLabel, Has, Entering
    <3>2. \A u \in Threads : pc[u] \in Entering => Has(u)
      BY DEF IInv, TypeOK, AtLabel, Has, Entering
    <3>3. \A u \in Threads : pc[u] \in Entering => u = t
      BY <1>1, <3>2 DEF IInv
    <3>4. t = CHOOSE u \in Threads : pc[u] \in Entering
      BY <3>1, <3>3
    <3> QED
      BY <1>1, <2>2, <3>4 DEF IInv, TypeOK, Owner
  <2> QED
    BY <2>1, <2>2
<1> QED
  BY <1>1 DEF Owner

(* Taking the lock is the compare-exchange or the store of the increment;  *)
(* releasing it is the last store of unlock or that of the decrement; all  *)
(* other steps leave the abstract lock alone.                              *)
LEMMA StepRefines ==
  ASSUME IInv, [Next]_vars
  PROVE  [Abstract!Next]_(Abstract!vars)
<1>0. IInv'
  BY StepIInv
<1>1. (/\ \A t \in Threads : Has(t) => Owner = t
       /\ lock_count_ = 0 => Owner = NoThread)'
  BY <1>0, OwnerHas, PTL
<1>2. /\ \A t \in Threads : Has(t) => Owner = t
      /\ lock_count_ = 0 => Owner = NoThread
  BY OwnerHas
<1>3. CASE UNCHANGED vars
  BY <1>3 DEF vars, Abstract!vars, Owner
<1>4. ASSUME NEW t \in Threads, LockCall(t) \/ Step(t)
      PROVE  [Abstract!Next]_(Abstract!vars)
  <2>1. CASE LockCas(t)
    <3>1. ~Has(t) /\ Has(t)'
      BY <2>1 DEF LockCas, Goto, IInv, TypeOK, AtLabel, Has
    <3>2. Owner = NoThread /\ Owner' = t /\ lock_count_' = lock_count_ + 1
      BY <1>1, <1>2, <2>1, <3>1 DEF LockCas
    <3> QED
      BY <3>2 DEF Abstract!Next, Abstract!Acquire
  <2>2. CASE IncrStore(t)
    <3>1. Has(t) /\ Has(t)' /\ lock_count_' = lock_count_ + 1
      BY <2>2 DEF IncrStore, StoreCount, Goto, IInv, TypeOK, AtLabel, Has
    <3> QED
      BY <1>1, <1>2, <3>1 DEF Abstract!Next, Abstract!Acquire
  <2>3. CASE DecrStore(t)
    <3>1. /\ Has(t) /\ Has(t)' /\ lock_count_ \in Nat
          /\ lock_count_ > 1 /\ lock_count_' = lock_count_ - 1
      BY <2>3 DEF DecrStore, StoreCount, Goto, IInv, TypeOK, AtLabel, Has
    <3> QED
      BY <1>1, <1>2, <3>1 DEF Abstract!Next, Abstract!Release
  <2>4. CASE UnlockFree(t)
    <3>1. Has(t) /\ lock_count_ = 1 /\ lock_count_' = 0
      BY <2>4 DEF UnlockFree, StoreCount, Goto, IInv, TypeOK, AtLabel, Has
    <3> QED
      BY <1>1, <1>2, <3>1 DEF Abstract!Next, Abstract!Release
  <2>5. CASE \/ LockCall(t) \/ LockMe(t) \/ IncrLoad(t) \/ LockWait(t) \/ LockUnwait(t)
             \/ LockCheck(t) \/ LockOwn(t) \/ UnlockCall(t) \/ UnlockMe(t)
             \/ UnlockBranch(t) \/ DecrLoad(t) \/ UnlockDisown(t)
    <3>1. lock_count_' = lock_count_
      BY <2>5 DEF LockCall, LockMe, IncrLoad, LockWait, LockUnwait, LockCheck, LockOwn,
           UnlockCall, UnlockMe, UnlockBranch, DecrLoad, UnlockDisown, IsLocked, IsMine,
           LoadCount, SetHolder
    <3>2. \A u \in Threads : Has(u)' <=> Has(u)
      BY <2>5 DEF LockCall, LockMe, IncrLoad, LockWait, LockUnwait, LockCheck, LockOwn,
           UnlockCall, UnlockMe, UnlockBranch, DecrLoad, UnlockDisown, IsLocked, IsMine,
           LoadCount, SetHolder, Goto, Has, IInv, TypeOK, AtLabel
    <3>3. Owner' = Owner
      BY <1>1, <1>2, <3>1, <3>2 DEF IInv, TypeOK
    <3> QED
      BY <3>1, <3>3 DEF Abstract!vars
  <2>6. CASE LockSpin(t)
    BY <1>3, <2>6 DEF LockSpin
  <2> QED
    BY <1>4, <2>1, <2>2, <2>3, <2>4, <2>5, <2>6 DEF Step, LockStep, UnlockStep
<1> QED
  BY <1>3, <1>4 DEF Next

(* Every behaviour of the lock's code is one of the abstract recursive lock. *)
THEOREM SpinLockRefines == Spec => ImplementsRecursiveLock
<1>1. Init => Abstract!Init
  BY DEF Init, Abstract!Init, Owner
<1>2. IInv /\ [Next]_vars => [Abstract!Next]_(Abstract!vars)
  BY StepRefines
<1> QED
  BY <1>1, <1>2, AlwaysIInv, PTL DEF Spec, ImplementsRecursiveLock, Abstract!Spec
=============================================================================
