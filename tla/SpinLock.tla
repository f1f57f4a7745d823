------------------------------ MODULE SpinLock ------------------------------
(***************************************************************************)
(* thread/SpinLock.cc, with is_locked_by_me of thread/Lock.h and the       *)
(* compare-exchange of thread/Atomic-x86.h.  Every access to a shared      *)
(* field is a step of its own, so that any two threads interleave between  *)
(* the two reads of is_locked_by_me, between the read and the write of     *)
(* lock_count_++, and between the stores that release the lock.            *)
(*                                                                         *)
(* held[t] counts what thread t has been told: calls that returned 0 minus *)
(* unlocks that returned.  It is not a field of the code; it is what the   *)
(* callers (ScopeLock, mostly) rely on.                                    *)
(***************************************************************************)
EXTENDS Integers, FiniteSets

CONSTANTS
  Threads,      \* the threads that share the lock
  NoThread,     \* lock_holder_ = 0
  MaxDepth      \* bound: how deep a caller nests lock calls

ASSUME SpinLockAssumption ==
  /\ NoThread \notin Threads
  /\ MaxDepth \in Nat \ {0}

VARIABLES
  lock_count_,    \* nesting count, 0 when free
  lock_holder_,   \* pthread_t of the owner
  lock_waiters_,  \* threads in lock()'s spin loop
  pc,             \* where each thread is; "failed" is a failed ASSERT
  tmp,            \* the register of a plain ++ or --
  held

vars == <<lock_count_, lock_holder_, lock_waiters_, pc, tmp, held>>

Labels == {"idle", "lock_me", "incr", "incr_store", "wait", "cas", "unwait",
           "check", "own", "unlock_me", "unlock", "decr", "decr_store", "disown",
           "free", "failed"}

Init ==
  /\ lock_count_ = 0
  /\ lock_holder_ = NoThread
  /\ lock_waiters_ = 0
  /\ pc = [t \in Threads |-> "idle"]
  /\ tmp = [t \in Threads |-> 0]
  /\ held = [t \in Threads |-> 0]

Goto(t, from, to) == pc[t] = from /\ pc' = [pc EXCEPT ![t] = to]

(***************************************************************************)
(* is_locked_by_me: lock_count_ is read first, lock_holder_ in a later     *)
(* step, without the lock.                                                 *)
(***************************************************************************)
IsLocked(t, from, locked, not) ==
  /\ Goto(t, from, IF lock_count_ # 0 THEN locked ELSE not)
  /\ UNCHANGED <<lock_count_, lock_holder_, lock_waiters_, tmp, held>>

IsMine(t, from, mine, not) ==
  /\ Goto(t, from, IF lock_holder_ = t THEN mine ELSE not)
  /\ UNCHANGED <<lock_count_, lock_holder_, lock_waiters_, tmp, held>>

(* lock_count_.value++ and --: a load and a store, neither of them locked. *)
LoadCount(t, from, to) ==
  /\ Goto(t, from, to)
  /\ tmp' = [tmp EXCEPT ![t] = lock_count_]
  /\ UNCHANGED <<lock_count_, lock_holder_, lock_waiters_, held>>

StoreCount(t, from, value, told) ==
  /\ Goto(t, from, "idle")
  /\ lock_count_' = value
  /\ held' = [held EXCEPT ![t] = told]
  /\ tmp' = [tmp EXCEPT ![t] = 0]
  /\ UNCHANGED <<lock_holder_, lock_waiters_>>

-----------------------------------------------------------------------------
(* Mutants, each a slip that one of the definitions below could have.      *)
IncrStoreLost(t) == StoreCount(t, "incr_store", tmp[t], held[t] + 1)
LockCasBlind(t) ==
  /\ Goto(t, "cas", "unwait")
  /\ lock_count_' = 1
  /\ UNCHANGED <<lock_holder_, lock_waiters_, tmp, held>>
UnlockBranchAlwaysFrees(t) ==
  /\ Goto(t, "unlock", "disown")
  /\ UNCHANGED <<lock_count_, lock_holder_, lock_waiters_, tmp, held>>
UnlockBranchKeepsHolder(t) ==
  /\ Goto(t, "unlock", IF lock_count_ > 1 THEN "decr" ELSE "free")
  /\ UNCHANGED <<lock_count_, lock_holder_, lock_waiters_, tmp, held>>
UnlockFreeLeaks(t) == StoreCount(t, "free", lock_count_, held[t] - 1)

-----------------------------------------------------------------------------
(* SpinLock::lock.                                                         *)
LockCall(t)  == held[t] < MaxDepth /\ IsLocked(t, "idle", "lock_me", "wait")
LockMe(t)    == IsMine(t, "lock_me", "incr", "wait")
IncrLoad(t)  == LoadCount(t, "incr", "incr_store")
IncrStore(t) == StoreCount(t, "incr_store", tmp[t] + 1, held[t] + 1)

LockWait(t) ==
  /\ Goto(t, "wait", "cas")
  /\ lock_waiters_' = lock_waiters_ + 1
  /\ UNCHANGED <<lock_count_, lock_holder_, tmp, held>>

LockCas(t) ==
  /\ Goto(t, "cas", "unwait")
  /\ lock_count_ = 0
  /\ lock_count_' = 1
  /\ UNCHANGED <<lock_holder_, lock_waiters_, tmp, held>>

(* A failed compare-exchange changes nothing.                              *)
LockSpin(t) == pc[t] = "cas" /\ lock_count_ # 0 /\ UNCHANGED vars

LockUnwait(t) ==
  /\ Goto(t, "unwait", "check")
  /\ lock_waiters_' = lock_waiters_ - 1
  /\ UNCHANGED <<lock_count_, lock_holder_, tmp, held>>

LockCheck(t) ==
  /\ Goto(t, "check", IF lock_count_ = 1 THEN "own" ELSE "failed")
  /\ UNCHANGED <<lock_count_, lock_holder_, lock_waiters_, tmp, held>>

SetHolder(t, from) ==
  /\ Goto(t, from, "idle")
  /\ lock_holder_' = t
  /\ held' = [held EXCEPT ![t] = @ + 1]
  /\ UNCHANGED <<lock_count_, lock_waiters_, tmp>>

LockOwn(t) == SetHolder(t, "own")

-----------------------------------------------------------------------------
(* SpinLock::unlock, called by a thread that has the lock.                 *)
UnlockCall(t) == held[t] > 0 /\ IsLocked(t, "idle", "unlock_me", "failed")
UnlockMe(t)   == IsMine(t, "unlock_me", "unlock", "failed")

UnlockBranch(t) ==
  /\ Goto(t, "unlock", IF lock_count_ > 1 THEN "decr" ELSE "disown")
  /\ UNCHANGED <<lock_count_, lock_holder_, lock_waiters_, tmp, held>>

DecrLoad(t)  == LoadCount(t, "decr", "decr_store")
DecrStore(t) == StoreCount(t, "decr_store", tmp[t] - 1, held[t] - 1)

UnlockDisown(t) ==
  /\ Goto(t, "disown", "free")
  /\ lock_holder_' = NoThread
  /\ UNCHANGED <<lock_count_, lock_waiters_, tmp, held>>

(* The last store; the read of lock_waiters_ after it only decides whether *)
(* to yield the processor.                                                 *)
UnlockFree(t) == StoreCount(t, "free", 0, held[t] - 1)

-----------------------------------------------------------------------------
LockStep(t) == LockMe(t) \/ IncrLoad(t) \/ IncrStore(t) \/ LockWait(t) \/ LockCas(t)
                 \/ LockSpin(t) \/ LockUnwait(t) \/ LockCheck(t) \/ LockOwn(t)
UnlockStep(t) == UnlockMe(t) \/ UnlockBranch(t) \/ DecrLoad(t) \/ DecrStore(t)
                   \/ UnlockDisown(t) \/ UnlockFree(t)
Step(t) == LockStep(t) \/ UnlockCall(t) \/ UnlockStep(t)

Next == \E t \in Threads : LockCall(t) \/ Step(t)

Spec == Init /\ [][Next]_vars

(* The scheduler runs every thread (spin_yield is a sched_yield), and a    *)
(* thread that has the lock unlocks it; nobody is obliged to ask for it.   *)
FairSpec == Spec /\ \A t \in Threads : WF_vars(Step(t))

-----------------------------------------------------------------------------
(* Every field has its type. *)
TypeOK ==
  /\ lock_count_ \in Nat
  /\ lock_holder_ \in Threads \cup {NoThread}
  /\ lock_waiters_ \in Int
  /\ pc \in [Threads -> Labels]
  /\ tmp \in [Threads -> Nat]
  /\ held \in [Threads -> Nat]

(* Lock.h: no two threads are both told that they have the lock.           *)
MutualExclusion ==
  \A t, u \in Threads : held[t] > 0 /\ held[u] > 0 => t = u

(* No ASSERT of lock or unlock fails, whatever the interleaving. *)
NoAssertFails == \A t \in Threads : pc[t] # "failed"

(* is_locked_by_me reads two fields in two steps and without the lock, and *)
(* still never deceives its caller: when it comes to lock_holder_, that    *)
(* names the caller exactly if the caller has the lock.                    *)
OwnershipTestIsRight ==
  \A t \in Threads : pc[t] \in {"lock_me", "unlock_me"} =>
    (lock_holder_ = t <=> held[t] > 0)

(* A thread outside the lock's code finds its nesting depth in the count:  *)
(* no plain ++ or -- of lock_count_ was lost to another thread's access.   *)
CountIsDepth ==
  \A t \in Threads : pc[t] = "idle" /\ held[t] > 0 =>
    lock_count_ = held[t] /\ lock_holder_ = t

(* A spinning thread gets the lock once the others stop asking for it: the *)
(* lock is never leaked.  (While others keep asking it may starve.)        *)
EveryWaiterGetsIn ==
  \A t \in Threads :
    <>[][\A u \in Threads \ {t} : ~LockCall(u)]_vars => (pc[t] = "cas" ~> held[t] > 0)

(***************************************************************************)
(* The lock implements RecursiveLock.  Between the compare-exchange and    *)
(* the store of lock_holder_, and between the two stores of unlock, the    *)
(* owner is the thread that stands there.                                  *)
(***************************************************************************)
Entering == {"unwait", "check", "own", "free"}

Owner ==
  IF lock_count_ = 0 THEN NoThread
  ELSE IF lock_holder_ # NoThread THEN lock_holder_
  ELSE CHOOSE t \in Threads : pc[t] \in Entering

Abstract == INSTANCE RecursiveLock WITH owner <- Owner, depth <- lock_count_
ImplementsRecursiveLock == Abstract!Spec
=============================================================================
