--------------------------- MODULE RecursiveLock ---------------------------
(***************************************************************************)
(* What thread/Lock.h promises of every Lock: one thread owns it at a time,*)
(* the owner may take it again, and it becomes free when it has been       *)
(* released as often as it was taken.                                      *)
(***************************************************************************)
EXTENDS Naturals

CONSTANTS Threads, NoThread

VARIABLES owner, depth

vars == <<owner, depth>>

Init == owner = NoThread /\ depth = 0

Acquire(t) ==
  /\ owner \in {t, NoThread}
  /\ owner' = t
  /\ depth' = depth + 1

Release(t) ==
  /\ owner = t
  /\ depth > 0
  /\ depth' = depth - 1
  /\ owner' = IF depth = 1 THEN NoThread ELSE t

Next == \E t \in Threads : Acquire(t) \/ Release(t)

Spec == Init /\ [][Next]_vars
=============================================================================
