------------------------------- MODULE Thread -------------------------------
(***************************************************************************)
(* thread/Thread.cc: the life of a Thread object, from start() by its      *)
(* owner through thread_run() in the new thread to the deletion of the     *)
(* object, by the thread itself or by the owner.                           *)
(*                                                                         *)
(* flags_ is a plain int that both threads update, so each |= and &= is a  *)
(* load and a store.  What run() does is left open, and so is the          *)
(* specification: see TCPServer.                                           *)
(***************************************************************************)
EXTENDS Integers, FiniteSets

CONSTANTS
  Threads,
  NoThread,
  MaxLive,   \* max_live_threads_
  Given,     \* the flags given to the constructor of each thread
  Ending,    \* what the owner of each thread does with it, see Endings
  Stops,     \* the threads whose owner calls set_should_stop
  Barrier    \* whether the start barrier was activated

(* "leave": the owner does not touch the object after start(); "join": it  *)
(* joins the thread, then deletes the object unless DELETE_ON_EXIT was     *)
(* given; "keep": it keeps the object.                                     *)
Endings == {"leave", "join", "keep"}
Flags == {"CREATE_JOINABLE", "DELETE_ON_EXIT", "STARTED", "SHOULD_STOP", "STOPPED"}

ASSUME ThreadAssumption ==
  /\ NoThread \notin Threads
  /\ MaxLive \in Nat \ {0}
  /\ Given \in [Threads -> SUBSET {"CREATE_JOINABLE", "DELETE_ON_EXIT"}]
  /\ Ending \in [Threads -> Endings]
  /\ \A t \in Threads : Ending[t] = "join" => "CREATE_JOINABLE" \in Given[t]
  /\ Stops \subseteq {t \in Threads : Ending[t] # "leave"}
  /\ Barrier \in BOOLEAN

VARIABLES
  flags_, setup_in_progress_, all_threads_, start_barrier_enabled_,
  deleted,    \* the objects that have been deleted
  tpc,        \* where each new thread is
  opc,        \* where the owner of each thread is
  treg, oreg, \* the value of flags_ each has loaded
  requested   \* history: the threads whose owner has set SHOULD_STOP

object == <<flags_, setup_in_progress_, deleted>>
thread == <<tpc, treg, all_threads_>>
owner  == <<opc, oreg, requested, start_barrier_enabled_>>
tvars  == <<object, thread, owner>>

ThreadLabels == {"none", "register", "started", "clear_stopped", "clear_should_stop",
                 "run", "stopped", "deregister", "exit", "delete", "gone"}
OwnerLabels == {"new", "queued", "create", "detach", "set_up", "ready",
                "request", "delete", "done"}
NoFlags == {"none"}  \* no value loaded

ThreadInit ==
  /\ flags_ = Given
  /\ setup_in_progress_ = [t \in Threads |-> TRUE]
  /\ all_threads_ = [i \in 1..MaxLive |-> NoThread]
  /\ start_barrier_enabled_ = Barrier
  /\ deleted = {}
  /\ tpc = [t \in Threads |-> "none"]
  /\ opc = [t \in Threads |-> "new"]
  /\ treg = [t \in Threads |-> NoFlags]
  /\ oreg = [t \in Threads |-> NoFlags]
  /\ requested = {}

Step(pc, t, from, to) == pc[t] = from /\ pc' = [pc EXCEPT ![t] = to]
Has(t, flag) == flag \in flags_[t]

(* Mutants of the definitions below.                                       *)
DeregisterNothing(t) ==
  /\ Step(tpc, t, "deregister", "exit")
  /\ UNCHANGED <<object, treg, all_threads_, owner>>
DeleteThisAtOnce(t) ==
  /\ Step(tpc, t, "delete", "gone")
  /\ deleted' = deleted \cup {t}
  /\ UNCHANGED <<flags_, setup_in_progress_, treg, all_threads_, owner>>

-----------------------------------------------------------------------------
(* The owner: start(), at once or from release_start_barrier().            *)
Start(t) ==
  /\ Step(opc, t, "new", IF start_barrier_enabled_ THEN "queued" ELSE "create")
  /\ UNCHANGED <<object, thread, oreg, requested, start_barrier_enabled_>>

release_start_barrier ==
  /\ start_barrier_enabled_
  /\ start_barrier_enabled_' = FALSE
  /\ opc' = [t \in Threads |-> IF opc[t] = "queued" THEN "create" ELSE opc[t]]
  /\ UNCHANGED <<object, thread, oreg, requested>>

Create(t) ==
  /\ Step(opc, t, "create", "detach")
  /\ tpc' = [tpc EXCEPT ![t] = "register"]
  /\ UNCHANGED <<object, treg, all_threads_, oreg, requested, start_barrier_enabled_>>

(* pthread_detach unless CREATE_JOINABLE: it reads flags_.                 *)
Detach(t) ==
  /\ Step(opc, t, "detach", "set_up")
  /\ UNCHANGED <<object, thread, oreg, requested, start_barrier_enabled_>>

StartReturn(t) == IF Ending[t] = "leave" THEN "done" ELSE "ready"

SetUp(t) ==
  /\ Step(opc, t, "set_up", StartReturn(t))
  /\ setup_in_progress_' = [setup_in_progress_ EXCEPT ![t] = FALSE]
  /\ UNCHANGED <<flags_, deleted, thread, oreg, requested, start_barrier_enabled_>>

(* set_should_stop.                                                        *)
RequestLoad(t) ==
  /\ t \in Stops
  /\ Step(opc, t, "ready", "request")
  /\ oreg' = [oreg EXCEPT ![t] = flags_[t]]
  /\ UNCHANGED <<object, thread, requested, start_barrier_enabled_>>

RequestStore(t) ==
  /\ Step(opc, t, "request", "ready")
  /\ flags_' = [flags_ EXCEPT ![t] = oreg[t] \cup {"SHOULD_STOP"}]
  /\ requested' = requested \cup {t}
  /\ oreg' = [oreg EXCEPT ![t] = NoFlags]
  /\ UNCHANGED <<setup_in_progress_, deleted, thread, start_barrier_enabled_>>

(* join() returns when the thread has ended; the Thread.h comment lets the *)
(* owner believe that a joinable thread never deletes itself.              *)
Join(t) ==
  /\ Ending[t] = "join" /\ tpc[t] = "gone"
  /\ Step(opc, t, "ready", "delete")
  /\ UNCHANGED <<object, thread, oreg, requested, start_barrier_enabled_>>

Delete(t) ==
  /\ Step(opc, t, "delete", "done")
  /\ deleted' = IF "DELETE_ON_EXIT" \in Given[t] THEN deleted ELSE deleted \cup {t}
  /\ UNCHANGED <<flags_, setup_in_progress_, thread, oreg, requested, start_barrier_enabled_>>

Owner(t) == \/ Start(t) \/ Create(t) \/ Detach(t) \/ SetUp(t)
            \/ RequestLoad(t) \/ RequestStore(t) \/ Join(t) \/ Delete(t)

-----------------------------------------------------------------------------
(* The new thread: thread_run.                                             *)
Register(t) ==
  /\ Step(tpc, t, "register", "started")
  /\ LET free == {i \in 1..MaxLive : all_threads_[i] = NoThread} IN
       \/ free = {} /\ UNCHANGED all_threads_
       \/ \E i \in free : /\ \A j \in free : i <= j
                          /\ all_threads_' = [all_threads_ EXCEPT ![i] = t]
  /\ UNCHANGED <<object, treg, owner>>

(* The updates of flags_, in order.                                        *)
Updates == {"started", "clear_stopped", "clear_should_stop", "stopped"}
Updated(label, flags) ==
  CASE label = "started"           -> flags \cup {"STARTED"}
    [] label = "clear_stopped"     -> flags \ {"STOPPED"}
    [] label = "clear_should_stop" -> flags \ {"SHOULD_STOP"}
    [] label = "stopped"           -> flags \cup {"STOPPED"}
AfterUpdate(label) ==
  CASE label = "started"           -> "clear_stopped"
    [] label = "clear_stopped"     -> "clear_should_stop"
    [] label = "clear_should_stop" -> "run"
    [] label = "stopped"           -> "deregister"

FlagsLoad(t) ==
  /\ tpc[t] \in Updates /\ treg[t] = NoFlags
  /\ treg' = [treg EXCEPT ![t] = flags_[t]]
  /\ UNCHANGED <<object, tpc, all_threads_, owner>>

FlagsStore(t) ==
  /\ tpc[t] \in Updates /\ treg[t] # NoFlags
  /\ flags_' = [flags_ EXCEPT ![t] = Updated(tpc[t], treg[t])]
  /\ tpc' = [tpc EXCEPT ![t] = AfterUpdate(tpc[t])]
  /\ treg' = [treg EXCEPT ![t] = NoFlags]
  /\ UNCHANGED <<setup_in_progress_, deleted, all_threads_, owner>>

RunReturn(t) ==
  /\ Step(tpc, t, "run", "stopped")
  /\ UNCHANGED <<object, treg, all_threads_, owner>>

Deregister(t) ==
  /\ Step(tpc, t, "deregister", "exit")
  /\ all_threads_' = [i \in 1..MaxLive |->
                        IF all_threads_[i] = t THEN NoThread ELSE all_threads_[i]]
  /\ UNCHANGED <<object, treg, owner>>

Exit(t) ==
  /\ Step(tpc, t, "exit", IF Has(t, "DELETE_ON_EXIT") THEN "delete" ELSE "gone")
  /\ UNCHANGED <<object, treg, all_threads_, owner>>

DeleteThis(t) ==
  /\ Step(tpc, t, "delete", "gone")
  /\ ~setup_in_progress_[t]
  /\ deleted' = deleted \cup {t}
  /\ UNCHANGED <<flags_, setup_in_progress_, treg, all_threads_, owner>>

Startup(t)  == Register(t) \/ FlagsLoad(t) \/ FlagsStore(t)
Shutdown(t) == Deregister(t) \/ Exit(t) \/ DeleteThis(t)
thread_run(t) == Startup(t) \/ RunReturn(t) \/ Shutdown(t)

-----------------------------------------------------------------------------
ThreadTypeOK ==
  /\ flags_ \in [Threads -> SUBSET Flags]
  /\ setup_in_progress_ \in [Threads -> BOOLEAN]
  /\ all_threads_ \in [1..MaxLive -> Threads \cup {NoThread}]
  /\ start_barrier_enabled_ \in BOOLEAN
  /\ deleted \subseteq Threads
  /\ tpc \in [Threads -> ThreadLabels]
  /\ opc \in [Threads -> OwnerLabels]
  /\ treg \in [Threads -> (SUBSET Flags) \cup {NoFlags}]
  /\ oreg \in [Threads -> (SUBSET Flags) \cup {NoFlags}]
  /\ requested \subseteq Stops

(* A Thread object is deleted only when neither its thread nor its owner   *)
(* has anything left to read or write in it: the wait for                  *)
(* setup_in_progress_ in thread_run, and join() before delete.             *)
DeletedUnused ==
  \A t \in deleted : tpc[t] = "gone" /\ opc[t] = "done"

(* all_threads_, which the fatal signal handler walks, holds each thread   *)
(* at most once, and only while its thread_run is under way: the array     *)
(* does not fill up with dead threads, and none it holds is deleted.       *)
ListedOnceWhileRunning ==
  /\ \A i \in 1..MaxLive : all_threads_[i] # NoThread =>
       /\ tpc[all_threads_[i]] \notin {"none", "register", "exit", "delete", "gone"}
       /\ all_threads_[i] \notin deleted
  /\ \A i, j \in 1..MaxLive :
       all_threads_[i] = all_threads_[j] => i = j \/ all_threads_[i] = NoThread
==============================================================================
