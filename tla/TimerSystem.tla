----------------------------- MODULE TimerSystem -----------------------------
(***************************************************************************)
(* thread/Timer.cc: the heap of timers, the timer thread that runs the     *)
(* expired ones, the threads that schedule and cancel, and the signals     *)
(* that are handed to the timer thread.                                    *)
(*                                                                         *)
(* schedule_at, cancel and the loop of run_expired_timers hold             *)
(* system_lock_; post_signal, which runs in a signal handler, does not, so *)
(* its three stores interleave with everything.  The heap is the set of    *)
(* pending timers, its top the least by TimerCompare.  Time is counted in  *)
(* half milliseconds, since the code rounds to whole ones.                 *)
(***************************************************************************)
EXTENDS Integers, FiniteSets

CONSTANTS
  Timers,
  DeleteOnCancel,  \* the timers with cancel flag DELETE_ON_CANCEL
  NSig,            \* signals are 1..NSig
  MaxTime,         \* bound on the clock
  MaxSched,        \* bound on the calls of schedule_at
  MaxPosts,        \* bound on the signals posted, for each signal
  MaxCancelled,    \* bound on num_cancelled_
  Delays           \* how far ahead timers are scheduled

ASSUME TimerSystemAssumption ==
  /\ DeleteOnCancel \subseteq Timers
  /\ NSig \in Nat /\ MaxTime \in Nat /\ MaxSched \in Nat /\ MaxPosts \in Nat
  /\ MaxCancelled \in Nat
  /\ Delays \subseteq Nat

VARIABLES
  now,
  pending, cancelled, when, seqno,  \* the fields of each timer
  next_seqno, num_cancelled_,       \* those of the TimerSystem
  freed,          \* timers deleted by pop_timer
  active_,        \* the OnOffNotifier's state
  sigfired_, signals_,
  post,           \* where post_signal is, for each signal
  pc,             \* where the timer thread is
  deadline,       \* when its poll times out, or Never
  scan,           \* the index of handle_signals' loop
  fires,          \* history: parity of the calls of timeout, for each timer
  posted, handled \* history: signals posted and handlers called

timer == <<pending, cancelled, when, seqno>>
heap_ == <<next_seqno, num_cancelled_, freed>>
sigs  == <<sigfired_, signals_, post, scan, posted, handled>>
vars  == <<now, timer, heap_, active_, sigs, pc, deadline, fires>>

Never == -1
Signals == 1..NSig
Heap == {t \in Timers : pending[t]}

Init ==
  /\ now = 0
  /\ pending = [t \in Timers |-> FALSE]
  /\ cancelled = [t \in Timers |-> FALSE]
  /\ when = [t \in Timers |-> 0]
  /\ seqno = [t \in Timers |-> 0]
  /\ next_seqno = 0 /\ num_cancelled_ = 0 /\ freed = {}
  /\ active_ = FALSE
  /\ sigfired_ = FALSE
  /\ signals_ = [s \in Signals |-> FALSE]
  /\ post = [s \in Signals |-> "idle"]
  /\ pc = "run" /\ deadline = Never /\ scan = 1
  /\ fires = [t \in Timers |-> 0]
  /\ posted = [s \in Signals |-> 0]
  /\ handled = [s \in Signals |-> 0]

Goto(from, to) == pc = from /\ pc' = to

(* system_lock_ is free for the other threads.                             *)
Unlocked == pc \in {"run", "wait"}

(* TimerCompare: by time, ties by the order of scheduling.                 *)
Before(t, u) == when[t] < when[u] \/ (when[t] = when[u] /\ seqno[t] < seqno[u])
TopBySeqno == CHOOSE t \in Heap : \A u \in Heap \ {t} : seqno[t] < seqno[u]
Top == CHOOSE t \in Heap : \A u \in Heap \ {t} : Before(t, u)

-----------------------------------------------------------------------------
(* schedule_at puts a timer that is not pending on the heap (it panics on  *)
(* one that is, which callers must not ask for).                           *)
CanSchedule(t, at) ==
  t \notin Heap \cup freed /\ next_seqno < MaxSched /\ at <= MaxTime

schedule_at_silently(t, at, base) ==
  /\ pending' = [base EXCEPT ![t] = TRUE]
  /\ cancelled' = [cancelled EXCEPT ![t] = FALSE]
  /\ when' = [when EXCEPT ![t] = at]
  /\ seqno' = [seqno EXCEPT ![t] = next_seqno]
  /\ next_seqno' = next_seqno + 1
  /\ UNCHANGED <<num_cancelled_, active_>>

schedule_at(t, at, base) ==
  /\ pending' = [base EXCEPT ![t] = TRUE]
  /\ cancelled' = [cancelled EXCEPT ![t] = FALSE]
  /\ when' = [when EXCEPT ![t] = at]
  /\ seqno' = [seqno EXCEPT ![t] = next_seqno]
  /\ next_seqno' = next_seqno + 1
  /\ active_' = TRUE
  /\ UNCHANGED num_cancelled_

Schedule(t) ==
  /\ Unlocked
  /\ \E d \in Delays : CanSchedule(t, now + d) /\ schedule_at(t, now + d, pending)
  /\ UNCHANGED <<now, freed, sigs, pc, deadline, fires>>

(* cancel marks a pending timer; it stays on the heap.  Callers do not     *)
(* cancel one they have cancelled, which the code would count twice.       *)
CanCancel(t) ==
  /\ t \in Heap
  /\ num_cancelled_ < MaxCancelled
  /\ ~cancelled[t]

cancel(t) ==
  /\ num_cancelled_' = num_cancelled_ + 1
  /\ cancelled' = [cancelled EXCEPT ![t] = TRUE]
  /\ UNCHANGED <<when, seqno, next_seqno, active_>>

Cancel(t) ==
  /\ Unlocked
  /\ CanCancel(t)
  /\ cancel(t)
  /\ UNCHANGED <<now, pending, freed, sigs, pc, deadline, fires>>

-----------------------------------------------------------------------------
(* post_signal, in the handler of signal s.                                *)
PostFired(s) ==
  /\ post[s] = "idle" /\ posted[s] < MaxPosts
  /\ post' = [post EXCEPT ![s] = "fired"]
  /\ posted' = [posted EXCEPT ![s] = @ + 1]
  /\ sigfired_' = TRUE
  /\ UNCHANGED <<now, timer, heap_, active_, signals_, scan, handled, pc, deadline, fires>>

PostMark(s) ==
  /\ post[s] = "fired"
  /\ post' = [post EXCEPT ![s] = "marked"]
  /\ signals_' = [signals_ EXCEPT ![s] = TRUE]
  /\ UNCHANGED <<now, timer, heap_, active_, sigfired_, scan, posted, handled, pc,
                 deadline, fires>>

PostNotifyNobody(s) ==
  /\ post[s] = "marked"
  /\ post' = [post EXCEPT ![s] = "idle"]
  /\ UNCHANGED <<now, timer, heap_, active_, sigfired_, signals_, scan, posted, handled, pc,
                 deadline, fires>>

PostNotify(s) ==
  /\ post[s] = "marked"
  /\ post' = [post EXCEPT ![s] = "idle"]
  /\ active_' = TRUE
  /\ UNCHANGED <<now, timer, heap_, sigfired_, signals_, scan, posted, handled, pc,
                 deadline, fires>>

-----------------------------------------------------------------------------
(* run_expired_timers takes the lock and handles the signals first.        *)
RunLock ==
  /\ Goto("run", "signals")
  /\ UNCHANGED <<now, timer, heap_, active_, sigs, deadline, fires>>

HandleSignals ==
  /\ Goto("signals", IF sigfired_ THEN "scan" ELSE "loop")
  /\ sigfired_' = FALSE
  /\ scan' = 1
  /\ UNCHANGED <<now, timer, heap_, active_, signals_, post, posted, handled, deadline, fires>>

ScanSkip ==
  /\ scan <= NSig => ~signals_[scan]
  /\ Goto("scan", IF scan > NSig THEN "loop" ELSE "scan")
  /\ scan' = IF scan > NSig THEN scan ELSE scan + 1
  /\ UNCHANGED <<now, timer, heap_, active_, sigfired_, signals_, post, posted, handled,
                 deadline, fires>>

ScanHandle ==
  /\ scan <= NSig /\ signals_[scan]
  /\ Goto("scan", "clear")
  /\ handled' = [handled EXCEPT ![scan] = @ + 1]
  /\ UNCHANGED <<now, timer, heap_, active_, sigfired_, signals_, post, scan, posted,
                 deadline, fires>>

ScanClear ==
  /\ Goto("clear", "scan")
  /\ signals_' = [signals_ EXCEPT ![scan] = FALSE]
  /\ scan' = scan + 1
  /\ UNCHANGED <<now, timer, heap_, active_, sigfired_, post, posted, handled, deadline, fires>>

-----------------------------------------------------------------------------
(* What a timeout callback may do with the lock held: nothing, schedule a  *)
(* timer (its own again, say) or cancel one.                               *)
Callback(popped) ==
  \/ /\ pending' = popped
     /\ UNCHANGED <<cancelled, when, seqno, next_seqno, num_cancelled_, active_>>
  \/ \E u \in Timers, d \in Delays :
       /\ ~popped[u] /\ u \notin freed
       /\ next_seqno < MaxSched /\ now + d <= MaxTime
       /\ schedule_at(u, now + d, popped)
  \/ \E u \in Timers :
       /\ popped[u] /\ CanCancel(u)
       /\ cancel(u)
       /\ pending' = popped

(* Due, or less than a millisecond from it: then it is popped as well.     *)
Due(t) == when[t] <= now + 1

PopExpiredUnchecked ==
  /\ Heap # {}
  /\ Due(Top)
  /\ Goto("loop", "loop")
  /\ fires' = [fires EXCEPT ![Top] = 1 - @]
  /\ Callback([pending EXCEPT ![Top] = FALSE])
  /\ UNCHANGED <<now, freed, sigs, deadline>>

PopExpired ==
  /\ Heap # {}
  /\ ~cancelled[Top] /\ Due(Top)
  /\ Goto("loop", "loop")
  /\ fires' = [fires EXCEPT ![Top] = 1 - @]
  /\ Callback([pending EXCEPT ![Top] = FALSE])
  /\ UNCHANGED <<now, freed, sigs, deadline>>

(* A cancelled timer is popped as soon as it is at the top.                *)
PopCancelledUncounted ==
  /\ Heap # {}
  /\ cancelled[Top]
  /\ Goto("loop", IF num_cancelled_ > 0 THEN "loop" ELSE "failed")
  /\ pending' = [pending EXCEPT ![Top] = FALSE]
  /\ cancelled' = [cancelled EXCEPT ![Top] = FALSE]
  /\ freed' = IF Top \in DeleteOnCancel THEN freed \cup {Top} ELSE freed
  /\ UNCHANGED <<now, when, seqno, next_seqno, num_cancelled_, active_, sigs, deadline, fires>>

PopCancelled ==
  /\ Heap # {}
  /\ cancelled[Top]
  /\ Goto("loop", IF num_cancelled_ > 0 THEN "loop" ELSE "failed")
  /\ pending' = [pending EXCEPT ![Top] = FALSE]
  /\ cancelled' = [cancelled EXCEPT ![Top] = FALSE]
  /\ num_cancelled_' = num_cancelled_ - 1
  /\ freed' = IF Top \in DeleteOnCancel THEN freed \cup {Top} ELSE freed
  /\ UNCHANGED <<now, when, seqno, next_seqno, active_, sigs, deadline, fires>>

(* Nothing to pop: the time to the next timer in whole milliseconds.       *)
RunReturn ==
  /\ Heap # {} => ~cancelled[Top] /\ ~Due(Top)
  /\ Goto("loop", "wait")
  /\ deadline' = IF Heap = {} THEN Never ELSE now + 2 * ((when[Top] - now) \div 2)
  /\ UNCHANGED <<now, timer, heap_, active_, sigs, fires>>

(* OnOffNotifier::wait: at once if it is active, and nobody clears it.     *)
WaitReturn ==
  /\ active_ \/ (deadline # Never /\ now >= deadline)
  /\ Goto("wait", "run")
  /\ UNCHANGED <<now, timer, heap_, active_, sigs, deadline, fires>>

Tick ==
  /\ now < MaxTime
  /\ now' = now + 1
  /\ UNCHANGED <<timer, heap_, active_, sigs, pc, deadline, fires>>

-----------------------------------------------------------------------------
Post(s) == PostFired(s) \/ PostMark(s) \/ PostNotify(s)
TimerThread == RunLock \/ HandleSignals \/ ScanSkip \/ ScanHandle \/ ScanClear
                 \/ PopExpired \/ PopCancelled \/ RunReturn \/ WaitReturn

Next ==
  \/ \E t \in Timers : Schedule(t) \/ Cancel(t)
  \/ \E s \in Signals : Post(s)
  \/ TimerThread
  \/ Tick

Spec == Init /\ [][Next]_vars

(* Time passes, the timer thread runs, and a signal handler that has begun *)
(* goes on to its end.                                                     *)
FairSpec ==
  /\ Spec
  /\ WF_vars(TimerThread) /\ WF_vars(Tick)
  /\ \A s \in Signals : WF_vars(PostMark(s) \/ PostNotify(s))

-----------------------------------------------------------------------------
(* Every variable has its type. *)
TypeOK ==
  /\ now \in Nat
  /\ pending \in [Timers -> BOOLEAN] /\ cancelled \in [Timers -> BOOLEAN]
  /\ when \in [Timers -> Nat] /\ seqno \in [Timers -> Nat]
  /\ next_seqno \in Nat /\ num_cancelled_ \in Nat /\ freed \subseteq Timers
  /\ active_ \in BOOLEAN /\ sigfired_ \in BOOLEAN
  /\ signals_ \in [Signals -> BOOLEAN]
  /\ post \in [Signals -> {"idle", "fired", "marked"}]
  /\ pc \in {"run", "signals", "scan", "clear", "loop", "wait", "failed"}
  /\ deadline \in Nat \cup {Never}
  /\ scan \in 1..(NSig + 1)
  /\ fires \in [Timers -> {0, 1}]
  /\ posted \in [Signals -> Nat] /\ handled \in [Signals -> Nat]

(* num_pending_timers(), which subtracts num_cancelled_ from the size of   *)
(* the heap, counts the timers that will still fire, whatever schedules,   *)
(* cancels and callbacks are mixed: ASSERT(num_cancelled_ > 0) holds.      *)
NumPendingIsRight ==
  Cardinality(Heap) - num_cancelled_ = Cardinality({t \in Heap : ~cancelled[t]})

(* A timer fires less than a millisecond early at most, and before every   *)
(* other that is scheduled for later, or for the same time but after it.   *)
FiresDueInOrder ==
  [][\A t \in Timers : fires'[t] # fires[t] =>
       /\ when[t] <= now + 1
       /\ \A u \in Heap \ {t} : cancelled[u] \/ Before(t, u)]_vars

(* A cancelled timer does not fire until it has been scheduled again.      *)
CancelledNeverFires ==
  [][\A t \in Timers : fires'[t] # fires[t] => pending[t] /\ ~cancelled[t]]_vars

(* A scheduled timer fires unless it is cancelled: the timer thread does   *)
(* not sleep past it, be it scheduled while that thread runs, polls, or is *)
(* inside another timer's callback.                                        *)
ScheduledFires ==
  \A t \in Timers : (pending[t] /\ ~cancelled[t]) ~> (~pending[t] \/ cancelled[t])

(* A signal marked while sigfired_ stands gets its handler called: the     *)
(* timer thread wakes for it, and the scan that clears sigfired_ has yet   *)
(* to pass its index.                                                      *)
MarkedIsHandled == \A s \in Signals : (signals_[s] /\ sigfired_) ~> ~signals_[s]

(* The comment on handle_signals: "at-least-once semantics".  A signal     *)
(* that is posted is followed by a call of its handler.                    *)
SignalHandledAtLeastOnce ==
  \A s \in Signals : (posted[s] = 1 /\ handled[s] = 0) ~> handled[s] > 0
=============================================================================
