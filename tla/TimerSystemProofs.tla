------------------------- MODULE TimerSystemProofs -------------------------
(***************************************************************************)
(* For any timers, delays, signals and bounds: num_pending_timers() is     *)
(* right, the assertion in pop_timer holds, and a timer that fires is due, *)
(* not cancelled, and first in the order of TimerCompare.                  *)
(***************************************************************************)
EXTENDS TimerSystem, FiniteSetTheorems, WellFoundedInduction, TLAPS

(* The timers on the heap that are marked cancelled.                       *)
Cancelled == {t \in Timers : pending[t] /\ cancelled[t]}

TimerTypeOK ==
  /\ now \in Nat
  /\ pending \in [Timers -> BOOLEAN] /\ cancelled \in [Timers -> BOOLEAN]
  /\ when \in [Timers -> Nat] /\ seqno \in [Timers -> Nat]
  /\ next_seqno \in Nat /\ freed \subseteq Timers

(* No two timers on the heap have the same seqno, so that TimerCompare is  *)
(* a total order there and the heap has one top.                           *)
SeqnosDiffer ==
  /\ \A t \in Timers : pending[t] => seqno[t] < next_seqno
  /\ \A t, u \in Timers : pending[t] /\ pending[u] /\ seqno[t] = seqno[u] => t = u

(* The cancelled flag is set only on the heap, and num_cancelled_ counts   *)
(* it.                                                                     *)
CancelledCounted ==
  /\ IsFiniteSet(Heap)
  /\ \A t \in Timers : cancelled[t] => pending[t]
  /\ num_cancelled_ = Cardinality(Cancelled)

TimerInv == TimerTypeOK /\ SeqnosDiffer /\ CancelledCounted

(* The rest of the state, which the timers do not depend on.               *)
ThreadInv ==
  /\ active_ \in BOOLEAN /\ sigfired_ \in BOOLEAN
  /\ signals_ \in [Signals -> BOOLEAN]
  /\ post \in [Signals -> {"idle", "fired", "marked"}]
  /\ pc \in {"run", "signals", "scan", "clear", "loop", "wait"}
  /\ deadline \in Nat \cup {Never}
  /\ scan \in 1..(NSig + 1) /\ (pc = "clear" => scan <= NSig)
  /\ fires \in [Timers -> {0, 1}]
  /\ posted \in [Signals -> Nat] /\ handled \in [Signals -> Nat]

IInv == TimerInv /\ ThreadInv

-----------------------------------------------------------------------------
LEMMA LeastNat ==
  ASSUME NEW T, T \subseteq Nat, T # {}
  PROVE  \E n \in T : \A m \in T : n <= m
<1>1. PICK n \in T : \A m \in T : ~(<<m, n>> \in OpToRel(<, Nat))
  BY NatLessThanWellFounded, WFMin
<1>2. \A m \in T : ~(m < n)
  BY <1>1 DEF OpToRel
<1> QED
  BY <1>2

(* The top of the heap is well defined.                                    *)
LEMMA TopIsFirst ==
  ASSUME TimerInv, Heap # {}
  PROVE  Top \in Heap /\ \A u \in Heap \ {Top} : Before(Top, u)
<1> DEFINE times == {when[t] : t \in Heap}
<1>1. times \subseteq Nat /\ times # {}
  BY DEF TimerInv, TimerTypeOK, Heap
<1>2. PICK w \in times : \A v \in times : w <= v
  <2> HIDE DEF times
  <2> QED
    BY <1>1, LeastNat
<1> DEFINE seqs == {seqno[t] : t \in {u \in Heap : when[u] = w}}
<1>3. seqs \subseteq Nat /\ seqs # {}
  BY DEF TimerInv, TimerTypeOK, Heap
<1>4. PICK q \in seqs : \A r \in seqs : q <= r
  <2> HIDE DEF seqs
  <2> QED
    BY <1>3, LeastNat
<1>5. PICK t \in Heap : when[t] = w /\ seqno[t] = q
  OBVIOUS
<1>6. \A u \in Heap \ {t} : Before(t, u)
  <2> SUFFICES ASSUME NEW u \in Heap \ {t} PROVE Before(t, u)
    OBVIOUS
  <2>1. /\ when[t] \in Nat /\ when[u] \in Nat /\ seqno[t] \in Nat /\ seqno[u] \in Nat
        /\ seqno[t] # seqno[u]
    BY DEF TimerInv, TimerTypeOK, SeqnosDiffer, Heap
  <2>2. when[t] <= when[u]
    BY <1>2, <1>5
  <2>3. when[u] = when[t] => seqno[t] <= seqno[u]
    BY <1>4, <1>5
  <2> QED
    BY <2>1, <2>2, <2>3 DEF Before
<1>7. \E v \in Heap : \A u \in Heap \ {v} : Before(v, u)
  BY <1>6
<1> QED
  BY <1>7 DEF Top

LEMMA CancelledFinite ==
  ASSUME TimerInv
  PROVE  /\ Cancelled \subseteq Heap /\ IsFiniteSet(Heap) /\ IsFiniteSet(Cancelled)
         /\ Cardinality(Heap) \in Nat /\ Cardinality(Cancelled) \in Nat
<1>1. Cancelled \subseteq Heap /\ IsFiniteSet(Heap)
  BY DEF Cancelled, Heap, TimerInv, CancelledCounted
<1>2. IsFiniteSet(Cancelled)
  BY <1>1, FS_Subset
<1> QED
  BY <1>1, <1>2, FS_CardinalityType

-----------------------------------------------------------------------------
(* The fields of the timers once one that is not cancelled may have been   *)
(* popped: what a callback finds.                                          *)
IsPopped(base) ==
  /\ base \in [Timers -> BOOLEAN]
  /\ \A t \in Timers : base[t] => pending[t]
  /\ \A t \in Timers : pending[t] /\ ~base[t] => ~cancelled[t]

LEMMA ScheduleInv ==
  ASSUME TimerInv, NEW base, IsPopped(base), NEW u \in Timers, ~base[u],
         NEW at \in Nat, schedule_at(u, at, base), now' = now, freed' = freed
  PROVE  TimerInv'
<1>1. TimerTypeOK'
  BY DEF TimerInv, TimerTypeOK, schedule_at, IsPopped
<1>2. SeqnosDiffer'
  <2>1. /\ \A t \in Timers : pending'[t] <=> base[t] \/ t = u
        /\ \A t \in Timers : seqno'[t] = IF t = u THEN next_seqno ELSE seqno[t]
        /\ next_seqno' = next_seqno + 1 /\ next_seqno \in Nat
        /\ \A t \in Timers : seqno[t] \in Nat
    BY DEF TimerInv, TimerTypeOK, schedule_at, IsPopped
  <2>2. \A t \in Timers : base[t] => pending[t]
    BY DEF IsPopped
  <2>3. SeqnosDiffer
    BY DEF TimerInv
  <2> QED
    BY <2>1, <2>2, <2>3 DEF SeqnosDiffer
<1>3. CancelledCounted'
  <2>1. /\ \A t \in Timers : pending'[t] <=> base[t] \/ t = u
        /\ \A t \in Timers : cancelled'[t] <=> cancelled[t] /\ t # u
        /\ num_cancelled_' = num_cancelled_
    BY DEF TimerInv, TimerTypeOK, schedule_at, IsPopped
  <2>2. /\ \A t \in Timers : base[t] => pending[t]
        /\ \A t \in Timers : pending[t] /\ ~base[t] => ~cancelled[t]
        /\ \A t \in Timers : cancelled[t] => pending[t]
        /\ num_cancelled_ = Cardinality(Cancelled)
    BY DEF IsPopped, TimerInv, CancelledCounted
  <2>3. Cancelled' = Cancelled
    BY <2>1, <2>2 DEF Cancelled
  <2>4. IsFiniteSet(Heap')
    <3>1. Heap' \subseteq Heap \cup {u}
      BY <2>1, <2>2 DEF Heap
    <3>2. IsFiniteSet(Heap \cup {u})
      BY CancelledFinite, FS_AddElement
    <3> QED
      BY <3>1, <3>2, FS_Subset
  <2> QED
    BY <2>1, <2>2, <2>3, <2>4 DEF CancelledCounted
<1> QED
  BY <1>1, <1>2, <1>3 DEF TimerInv

LEMMA CancelInv ==
  ASSUME TimerInv, NEW base, IsPopped(base), NEW u \in Timers, base[u], ~cancelled[u],
         cancel(u), pending' = base, now' = now, freed' = freed
  PROVE  TimerInv'
<1>1. TimerTypeOK'
  BY DEF TimerInv, TimerTypeOK, cancel, IsPopped
<1>2. SeqnosDiffer'
  BY DEF TimerInv, SeqnosDiffer, cancel, IsPopped
<1>3. CancelledCounted'
  <2>1. /\ \A t \in Timers : cancelled'[t] <=> cancelled[t] \/ t = u
        /\ num_cancelled_' = num_cancelled_ + 1
    BY DEF TimerInv, TimerTypeOK, cancel
  <2>2. /\ \A t \in Timers : base[t] => pending[t]
        /\ \A t \in Timers : pending[t] /\ ~base[t] => ~cancelled[t]
        /\ \A t \in Timers : cancelled[t] => pending[t]
        /\ num_cancelled_ = Cardinality(Cancelled)
    BY DEF IsPopped, TimerInv, CancelledCounted
  <2>3. Cancelled' = Cancelled \cup {u} /\ u \notin Cancelled
    BY <2>1, <2>2 DEF Cancelled
  <2>4. Cardinality(Cancelled') = Cardinality(Cancelled) + 1
    BY <2>3, CancelledFinite, FS_AddElement
  <2>5. IsFiniteSet(Heap')
    <3>1. Heap' \subseteq Heap
      BY <2>2 DEF Heap
    <3> QED
      BY <3>1, CancelledFinite, FS_Subset
  <2>6. \A t \in Timers : cancelled'[t] => pending'[t]
    BY <2>1, <2>2
  <2> QED
    BY <2>1, <2>2, <2>4, <2>5, <2>6 DEF CancelledCounted
<1> QED
  BY <1>1, <1>2, <1>3 DEF TimerInv

LEMMA PopInv ==
  ASSUME TimerInv, NEW base, IsPopped(base), pending' = base,
         UNCHANGED <<now, cancelled, when, seqno, next_seqno, num_cancelled_, freed>>
  PROVE  TimerInv'
<1>1. TimerTypeOK'
  BY DEF TimerInv, TimerTypeOK, IsPopped
<1>2. SeqnosDiffer'
  BY DEF TimerInv, SeqnosDiffer, IsPopped
<1>3. CancelledCounted'
  <2>1. Cancelled' = Cancelled /\ Heap' \subseteq Heap
    BY DEF Cancelled, Heap, IsPopped
  <2>2. IsFiniteSet(Heap')
    BY <2>1, CancelledFinite, FS_Subset
  <2> QED
    BY <2>1, <2>2 DEF TimerInv, CancelledCounted, IsPopped
<1> QED
  BY <1>1, <1>2, <1>3 DEF TimerInv

LEMMA CallbackInv ==
  ASSUME TimerInv, NEW base, IsPopped(base), Callback(base), now' = now, freed' = freed
  PROVE  TimerInv'
<1>1. CASE /\ pending' = base
           /\ UNCHANGED <<cancelled, when, seqno, next_seqno, num_cancelled_, active_>>
  BY <1>1, PopInv
<1>2. ASSUME NEW u \in Timers, NEW d \in Delays, ~base[u], schedule_at(u, now + d, base)
      PROVE  TimerInv'
  <2>1. now + d \in Nat
    BY TimerSystemAssumption DEF TimerInv, TimerTypeOK
  <2> QED
    BY <1>2, <2>1, ScheduleInv
<1>3. ASSUME NEW u \in Timers, base[u], CanCancel(u), cancel(u), pending' = base
      PROVE  TimerInv'
  BY <1>3, CancelInv DEF CanCancel
<1> QED
  BY <1>1, <1>2, <1>3 DEF Callback

(* The fields of a timer, and what is popped, when nothing is.             *)
LEMMA NothingPopped == ASSUME TimerInv PROVE IsPopped(pending)
BY DEF TimerInv, TimerTypeOK, IsPopped

LEMMA TopPopped ==
  ASSUME TimerInv, Heap # {}, ~cancelled[Top]
  PROVE  IsPopped([pending EXCEPT ![Top] = FALSE])
<1>1. Top \in Timers
  BY TopIsFirst DEF Heap
<1>2. pending \in [Timers -> BOOLEAN]
  BY DEF TimerInv, TimerTypeOK
<1> HIDE DEF Top
<1> QED
  BY <1>1, <1>2 DEF IsPopped

LEMMA PopCancelledInv ==
  ASSUME TimerInv, PopCancelled
  PROVE  TimerInv' /\ num_cancelled_ > 0
<1> DEFINE top == Top
<1>1. top \in Timers /\ pending[top] /\ cancelled[top]
  BY TopIsFirst DEF Heap, PopCancelled
<1>2. /\ pending' = [pending EXCEPT ![top] = FALSE]
      /\ cancelled' = [cancelled EXCEPT ![top] = FALSE]
      /\ num_cancelled_' = num_cancelled_ - 1
      /\ freed' \subseteq freed \cup {top}
      /\ UNCHANGED <<now, when, seqno, next_seqno>>
  BY DEF PopCancelled
<1> HIDE DEF top
<1>3. /\ pending \in [Timers -> BOOLEAN] /\ cancelled \in [Timers -> BOOLEAN]
      /\ \A t \in Timers : cancelled[t] => pending[t]
      /\ num_cancelled_ = Cardinality(Cancelled)
  BY DEF TimerInv, TimerTypeOK, CancelledCounted
<1>4. TimerTypeOK'
  BY <1>1, <1>2, <1>3 DEF TimerInv, TimerTypeOK
<1>5. SeqnosDiffer'
  BY <1>1, <1>2, <1>3 DEF TimerInv, SeqnosDiffer
<1>6. Cancelled' = Cancelled \ {top} /\ top \in Cancelled /\ Heap' \subseteq Heap
  BY <1>1, <1>2, <1>3 DEF Cancelled, Heap
<1>7. Cardinality(Cancelled') = Cardinality(Cancelled) - 1
  BY <1>6, CancelledFinite, FS_RemoveElement
<1>8. Cardinality(Cancelled) > 0
  <2>1. Cancelled # {} /\ IsFiniteSet(Cancelled) /\ Cardinality(Cancelled) \in Nat
    BY <1>6, CancelledFinite
  <2>2. Cardinality(Cancelled) # 0
    BY <2>1, FS_EmptySet
  <2> QED
    BY <2>1, <2>2
<1>9. IsFiniteSet(Heap')
  BY <1>6, CancelledFinite, FS_Subset
<1>10. \A t \in Timers : cancelled'[t] => pending'[t]
  BY <1>2, <1>3
<1>11. CancelledCounted'
  BY <1>2, <1>3, <1>7, <1>9, <1>10 DEF CancelledCounted
<1> QED
  BY <1>3, <1>4, <1>5, <1>8, <1>11 DEF TimerInv

LEMMA SameTimerInv ==
  ASSUME TimerInv, UNCHANGED <<timer, heap_>>, now' \in Nat
  PROVE  TimerInv'
<1>1. Cancelled' = Cancelled /\ Heap' = Heap
  BY DEF Cancelled, Heap, timer
<1> QED
  BY <1>1 DEF TimerInv, TimerTypeOK, SeqnosDiffer, CancelledCounted, timer, heap_

-----------------------------------------------------------------------------
LEMMA InitIInv == ASSUME Init PROVE IInv
<1>1. Heap = {} /\ Cancelled = {}
  BY DEF Init, Heap, Cancelled
<1>2. CancelledCounted
  BY <1>1, FS_EmptySet DEF Init, CancelledCounted
<1>3. NSig + 1 \in Nat /\ 1 <= NSig + 1
  BY TimerSystemAssumption
<1>4. TimerTypeOK
  BY DEF Init, TimerTypeOK
<1>5. SeqnosDiffer
  BY DEF Init, SeqnosDiffer
<1>6. ThreadInv
  <2>1. 1 \in 1..(NSig + 1)
    BY <1>3
  <2>2. /\ signals_ \in [Signals -> BOOLEAN] /\ post \in [Signals -> {"idle", "fired", "marked"}]
        /\ posted \in [Signals -> Nat] /\ handled \in [Signals -> Nat]
        /\ fires \in [Timers -> {0, 1}]
    BY DEF Init
  <2> QED
    BY <2>1, <2>2 DEF Init, ThreadInv
<1> QED
  BY <1>2, <1>4, <1>5, <1>6 DEF IInv, TimerInv

(* schedule_at and cancel, called with the lock free.                      *)
LEMMA UserInv ==
  ASSUME IInv, NEW t \in Timers, Schedule(t) \/ Cancel(t)
  PROVE  IInv'
<1>0. TimerInv /\ ThreadInv /\ IsPopped(pending)
  BY NothingPopped DEF IInv
<1>1. CASE Schedule(t)
  <2>1. PICK d \in Delays : CanSchedule(t, now + d) /\ schedule_at(t, now + d, pending)
    BY <1>1 DEF Schedule
  <2>2. now + d \in Nat /\ ~pending[t] /\ UNCHANGED <<now, freed>>
    BY <1>0, <1>1, <2>1, TimerSystemAssumption
       DEF TimerInv, TimerTypeOK, CanSchedule, Heap, Schedule
  <2>3. TimerInv'
    BY <1>0, <2>1, <2>2, ScheduleInv
  <2>4. ThreadInv'
    BY <1>0, <1>1, <2>1 DEF ThreadInv, Schedule, schedule_at, sigs
  <2> QED
    BY <2>3, <2>4 DEF IInv
<1>2. CASE Cancel(t)
  <2>1. /\ pending[t] /\ ~cancelled[t] /\ cancel(t) /\ UNCHANGED <<now, pending, freed>>
    BY <1>2 DEF Cancel, CanCancel, Heap
  <2>2. TimerInv'
    BY <1>0, <2>1, CancelInv
  <2>3. ThreadInv'
    BY <1>0, <1>2 DEF ThreadInv, Cancel, cancel, sigs
  <2> QED
    BY <2>2, <2>3 DEF IInv
<1> QED
  BY <1>1, <1>2

(* The steps that leave the timers alone: a signal is posted or handled,   *)
(* the timer thread goes to sleep or wakes, time passes.                   *)
LEMMA OtherInv ==
  ASSUME IInv,
         \/ \E s \in Signals : Post(s)
         \/ RunLock \/ HandleSignals \/ ScanSkip \/ ScanHandle \/ ScanClear
         \/ RunReturn \/ WaitReturn \/ Tick
  PROVE  IInv' /\ UNCHANGED <<timer, heap_, fires>>
<1>0. TimerInv /\ ThreadInv /\ now \in Nat
  BY DEF IInv, TimerInv, TimerTypeOK
<1>1. UNCHANGED <<timer, heap_, fires>> /\ now' \in Nat
  BY <1>0 DEF Post, PostFired, PostMark, PostNotify, RunLock, HandleSignals, ScanSkip,
              ScanHandle, ScanClear, RunReturn, WaitReturn, Tick
<1>2. TimerInv'
  BY <1>0, <1>1, SameTimerInv
<1>3. ThreadInv'
  <2>1. ASSUME NEW s \in Signals, Post(s) PROVE ThreadInv'
    <3>1. CASE PostFired(s)
      <4>1. posted' \in [Signals -> Nat]
        BY <1>0, <3>1 DEF PostFired, ThreadInv
      <4> QED
        BY <1>0, <3>1, <4>1 DEF PostFired, ThreadInv
    <3>2. CASE PostMark(s)
      BY <1>0, <3>2 DEF PostMark, ThreadInv
    <3>3. CASE PostNotify(s)
      BY <1>0, <3>3 DEF PostNotify, ThreadInv
    <3> QED
      BY <2>1, <3>1, <3>2, <3>3 DEF Post
  <2>2. CASE RunLock \/ WaitReturn \/ Tick
    BY <1>0, <2>2 DEF RunLock, WaitReturn, Tick, Goto, sigs, ThreadInv
  <2>3. CASE HandleSignals
    <3>1. 1 \in 1..(NSig + 1)
      BY TimerSystemAssumption
    <3> QED
      BY <1>0, <2>3, <3>1 DEF HandleSignals, Goto, ThreadInv
  <2>4. CASE ScanSkip
    <3>1. scan' \in 1..(NSig + 1)
      BY <1>0, <2>4, TimerSystemAssumption DEF ScanSkip, ThreadInv
    <3> QED
      BY <1>0, <2>4, <3>1 DEF ScanSkip, Goto, ThreadInv
  <2>5. CASE ScanHandle
    <3>1. handled' \in [Signals -> Nat]
      <4>1. handled \in [Signals -> Nat] /\ handled' = [handled EXCEPT ![scan] = handled[scan] + 1]
        BY <1>0, <2>5 DEF ScanHandle, ThreadInv
      <4>2. scan \in Signals
        BY <1>0, <2>5, TimerSystemAssumption DEF ScanHandle, ThreadInv, Signals
      <4> QED
        BY <4>1, <4>2
    <3> QED
      BY <1>0, <2>5, <3>1 DEF ScanHandle, Goto, ThreadInv
  <2>6. CASE ScanClear
    <3>1. scan' \in 1..(NSig + 1)
      BY <1>0, <2>6, TimerSystemAssumption DEF ScanClear, Goto, ThreadInv
    <3> QED
      BY <1>0, <2>6, <3>1 DEF ScanClear, Goto, ThreadInv
  <2>7. CASE RunReturn
    <3>1. deadline' \in Nat \cup {Never}
      <4>1. CASE Heap = {}
        BY <2>7, <4>1 DEF RunReturn
      <4>2. CASE Heap # {}
        <5> DEFINE w == when[Top]
        <5>1. w \in Nat
          BY <1>0, <4>2, TopIsFirst DEF TimerInv, TimerTypeOK, Heap
        <5>2. ~(w <= now + 1) /\ deadline' = now + 2 * ((w - now) \div 2)
          BY <2>7, <4>2 DEF RunReturn, Due
        <5> HIDE DEF w
        <5> QED
          BY <1>0, <5>1, <5>2
      <4> QED
        BY <4>1, <4>2
    <3> QED
      BY <1>0, <2>7, <3>1 DEF RunReturn, Goto, sigs, ThreadInv
  <2> QED
    BY <2>1, <2>2, <2>3, <2>4, <2>5, <2>6, <2>7
<1> QED
  BY <1>1, <1>2, <1>3 DEF IInv

LEMMA PopExpiredInv == ASSUME IInv, PopExpired PROVE IInv'
<1>0. TimerInv /\ ThreadInv /\ Heap # {} /\ ~cancelled[Top]
  BY DEF IInv, PopExpired
<1>1. IsPopped([pending EXCEPT ![Top] = FALSE])
  BY <1>0, TopPopped
<1>2. TimerInv'
  BY <1>0, <1>1, CallbackInv DEF PopExpired
<1>3. active_' \in BOOLEAN
  BY <1>0 DEF PopExpired, Callback, schedule_at, cancel, ThreadInv
<1>4. fires' \in [Timers -> {0, 1}]
  <2>1. \A n \in {0, 1} : 1 - n \in {0, 1}
    OBVIOUS
  <2>2. Top \in Timers
    BY <1>0, TopIsFirst DEF Heap
  <2>3. fires' = [fires EXCEPT ![Top] = 1 - fires[Top]] /\ fires \in [Timers -> {0, 1}]
    BY <1>0 DEF PopExpired, ThreadInv
  <2> QED
    BY <2>1, <2>2, <2>3
<1>5. ThreadInv'
  BY <1>0, <1>3, <1>4 DEF PopExpired, Goto, sigs, ThreadInv
<1> QED
  BY <1>2, <1>5 DEF IInv

LEMMA PopCancelledKeeps == ASSUME IInv, PopCancelled PROVE IInv'
<1>1. TimerInv' /\ num_cancelled_ > 0
  BY PopCancelledInv DEF IInv
<1>2. ThreadInv'
  BY <1>1 DEF PopCancelled, Goto, sigs, IInv, ThreadInv
<1> QED
  BY <1>1, <1>2 DEF IInv

LEMMA NextIInv == ASSUME IInv, [Next]_vars PROVE IInv'
<1>1. CASE UNCHANGED vars
  <2>1. TimerInv'
    BY <1>1, SameTimerInv DEF IInv, TimerInv, TimerTypeOK, vars
  <2> QED
    BY <1>1, <2>1 DEF IInv, ThreadInv, vars, sigs
<1> QED
  BY <1>1, UserInv, OtherInv, PopExpiredInv, PopCancelledKeeps DEF Next, TimerThread

THEOREM AlwaysIInv == Spec => []IInv
BY InitIInv, NextIInv, PTL DEF Spec

(* Every variable of the timer system has its type, for any bounds.        *)
THEOREM TimerTypeCorrect == Spec => []TypeOK
<1>1. IInv => TypeOK
  <2> SUFFICES ASSUME IInv PROVE TypeOK
    OBVIOUS
  <2>1. num_cancelled_ \in Nat
    BY CancelledFinite DEF IInv, TimerInv, CancelledCounted
  <2> QED
    BY <2>1 DEF IInv, TimerInv, TimerTypeOK, ThreadInv, TypeOK
<1> QED
  BY <1>1, AlwaysIInv, PTL

(* num_pending_timers() is the number of timers that will fire, for any    *)
(* number of timers and any mixture of schedule_at, cancel, callbacks and  *)
(* pops.                                                                   *)
THEOREM TimerNumPendingIsRight == Spec => []NumPendingIsRight
<1>1. IInv => NumPendingIsRight
  <2> SUFFICES ASSUME IInv PROVE NumPendingIsRight
    OBVIOUS
  <2> DEFINE willFire == {t \in Heap : ~cancelled[t]}
  <2>1. /\ Cancelled \subseteq Heap /\ IsFiniteSet(Heap) /\ IsFiniteSet(Cancelled)
        /\ Cardinality(Cancelled) \in Nat /\ num_cancelled_ = Cardinality(Cancelled)
    BY CancelledFinite DEF IInv, TimerInv, CancelledCounted
  <2>2. Heap = willFire \cup Cancelled /\ willFire \cap Cancelled = {}
    BY DEF Heap, Cancelled
  <2>3. IsFiniteSet(willFire) /\ Cardinality(willFire) \in Nat
    BY <2>1, FS_Subset, FS_CardinalityType
  <2> HIDE DEF willFire
  <2>4. Cardinality(willFire \cup Cancelled)
          = Cardinality(willFire) + Cardinality(Cancelled) - Cardinality(willFire \cap Cancelled)
    BY <2>1, <2>3, FS_Union
  <2>5. Cardinality(willFire \cap Cancelled) = 0
    BY <2>2, FS_EmptySet
  <2>6. Cardinality(Heap) - num_cancelled_ = Cardinality(willFire)
    BY <2>1, <2>2, <2>3, <2>4, <2>5
  <2> QED
    BY <2>6 DEF NumPendingIsRight, willFire
<1> QED
  BY <1>1, AlwaysIInv, PTL

(* ASSERT(num_cancelled_ > 0) in pop_timer never fails.                    *)
THEOREM TimerAssertHolds == Spec => [](pc # "failed")
<1>1. IInv => pc # "failed"
  BY DEF IInv, ThreadInv
<1> QED
  BY <1>1, AlwaysIInv, PTL

-----------------------------------------------------------------------------
(* What a step may do to the count of a timer's calls.                     *)
LEMMA OnlyTopFires ==
  ASSUME IInv, [Next]_vars, NEW t \in Timers, fires'[t] # fires[t]
  PROVE  PopExpired /\ t = Top
<1>1. ASSUME NEW u \in Timers, Schedule(u) \/ Cancel(u) PROVE fires' = fires
  BY <1>1 DEF Schedule, Cancel
<1>2. CASE PopCancelled
  BY <1>2 DEF PopCancelled
<1>3. CASE UNCHANGED vars
  BY <1>3 DEF vars
<1>4. CASE PopExpired
  BY <1>4 DEF PopExpired, IInv, ThreadInv
<1> QED
  BY <1>1, <1>2, <1>3, <1>4, OtherInv DEF Next, TimerThread

(* A timer that fires is pending and was not cancelled.                    *)
THEOREM TimerCancelledNeverFires == Spec => CancelledNeverFires
<1>1. ASSUME IInv, [Next]_vars
      PROVE  [\A t \in Timers : fires'[t] # fires[t] => pending[t] /\ ~cancelled[t]]_vars
  <2> SUFFICES ASSUME NEW t \in Timers, fires'[t] # fires[t] PROVE pending[t] /\ ~cancelled[t]
    OBVIOUS
  <2>1. PopExpired /\ t = Top
    BY <1>1, OnlyTopFires
  <2>2. Heap # {} /\ ~cancelled[Top] /\ TimerInv
    BY <1>1, <2>1 DEF PopExpired, IInv
  <2>3. Top \in Heap
    BY <2>2, TopIsFirst
  <2> QED
    BY <2>1, <2>2, <2>3 DEF Heap
<1> QED
  BY <1>1, AlwaysIInv, PTL DEF Spec, CancelledNeverFires

(* A timer that fires is due, to the millisecond, and comes before every   *)
(* other that is pending: the heap has a top, and one only, because the    *)
(* sequence numbers of pending timers differ.                              *)
THEOREM TimerFiresDueInOrder == Spec => FiresDueInOrder
<1>1. ASSUME IInv, [Next]_vars
      PROVE  [\A t \in Timers : fires'[t] # fires[t] =>
                /\ when[t] <= now + 1
                /\ \A u \in Heap \ {t} : cancelled[u] \/ Before(t, u)]_vars
  <2> SUFFICES ASSUME NEW t \in Timers, fires'[t] # fires[t]
               PROVE  /\ when[t] <= now + 1
                      /\ \A u \in Heap \ {t} : cancelled[u] \/ Before(t, u)
    OBVIOUS
  <2>1. PopExpired /\ t = Top
    BY <1>1, OnlyTopFires
  <2>2. Heap # {} /\ Due(Top) /\ TimerInv
    BY <1>1, <2>1 DEF PopExpired, IInv
  <2>3. \A u \in Heap \ {Top} : Before(Top, u)
    BY <2>2, TopIsFirst
  <2> QED
    BY <2>1, <2>2, <2>3 DEF Due
<1> QED
  BY <1>1, AlwaysIInv, PTL DEF Spec, FiresDueInOrder
=============================================================================
