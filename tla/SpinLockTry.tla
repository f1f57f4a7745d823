----------------------------- MODULE SpinLockTry -----------------------------
(***************************************************************************)
(* SpinLock::try_lock, in a module of its own: no caller in the repository *)
(* uses it, and what it does to the lock is not what Lock.h says of it.    *)
(* atomic_cmpxchg32 returns the value it found, and try_lock takes any     *)
(* value but 0 for success.                                                *)
(***************************************************************************)
EXTENDS SpinLock

TryCall(t) == held[t] < MaxDepth /\ IsLocked(t, "idle", "try_me", "try_cas")
TryMe(t)   == IsMine(t, "try_me", "incr", "try_cas")

TryCas(t) ==
  /\ Goto(t, "try_cas", IF lock_count_ # 0 THEN "try_check" ELSE "idle")
  /\ lock_count_' = IF lock_count_ = 0 THEN 1 ELSE lock_count_
  /\ UNCHANGED <<lock_holder_, lock_waiters_, tmp, held>>

TryCheck(t) ==
  /\ Goto(t, "try_check", IF lock_holder_ = NoThread THEN "try_own" ELSE "failed")
  /\ UNCHANGED <<lock_count_, lock_holder_, lock_waiters_, tmp, held>>

TryOwn(t) == SetHolder(t, "try_own")

TryNext ==
  Next \/ \E t \in Threads : TryCall(t) \/ TryMe(t) \/ TryCas(t) \/ TryCheck(t) \/ TryOwn(t)

TrySpec == Init /\ [][TryNext]_vars

(* Lock.h on try_lock: 0 on success, 1 if already locked.  So a lock that  *)
(* nobody was told they have, with every thread outside the code, is free. *)
FreeWhenNobodyHolds ==
  (\A t \in Threads : pc[t] = "idle" /\ held[t] = 0) => lock_count_ = 0
=============================================================================
