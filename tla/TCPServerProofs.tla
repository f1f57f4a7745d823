-------------------------- MODULE TCPServerProofs --------------------------
(***************************************************************************)
(* The life of a Thread object and the stop() of a TCPServerThread, for    *)
(* any set of threads, however their constructors' flags and their owners' *)
(* habits are chosen, and any number of connections and calls of stop().   *)
(***************************************************************************)
EXTENDS TCPServer, TLAPS

(* start() has not yet made the thread, or has not yet returned.           *)
NotMade    == {"new", "queued", "create"}
NotStarted == NotMade \cup {"detach", "set_up"}

(* The labels at which run() has returned, and flags_ has STOPPED.         *)
Over == {"deregister", "exit", "delete", "gone"}
Listed == {"started", "clear_stopped", "clear_should_stop", "run", "stopped", "deregister"}

(* A value of flags_, in the object or loaded by one of the two threads:   *)
(* DELETE_ON_EXIT is never lost or gained by the unsynchronised updates,   *)
(* and STOPPED is in it only when the thread has put it there.             *)
SoundFlags(t, flags) ==
  /\ "DELETE_ON_EXIT" \in flags <=> "DELETE_ON_EXIT" \in Given[t]
  /\ "STOPPED" \in flags => tpc[t] \in Over

Life(t) ==
  /\ tpc[t] = "none" <=> opc[t] \in NotMade
  /\ setup_in_progress_[t] = TRUE <=> opc[t] \in NotStarted
  /\ SoundFlags(t, flags_[t])
  /\ treg[t] # NoFlags => tpc[t] \in Updates /\ SoundFlags(t, treg[t])
  /\ oreg[t] # NoFlags => SoundFlags(t, oreg[t])
  /\ opc[t] = "request" => oreg[t] # NoFlags /\ t \in Stops
  /\ opc[t] \in {"ready", "request", "delete"} => Ending[t] # "leave"
  /\ opc[t] = "delete" => tpc[t] = "gone"
  /\ tpc[t] = "delete" => "DELETE_ON_EXIT" \in Given[t]
  /\ t \in deleted => /\ tpc[t] = "gone"
                      /\ opc[t] \notin NotStarted
                      /\ opc[t] = "done" \/ "DELETE_ON_EXIT" \in Given[t]

(* The slots of all_threads_ hold threads that thread_run has entered and  *)
(* not left, each once.                                                    *)
Slots ==
  /\ \A i \in 1..MaxLive : all_threads_[i] # NoThread => tpc[all_threads_[i]] \in Listed
  /\ \A i, j \in 1..MaxLive :
       all_threads_[i] = all_threads_[j] => i = j \/ all_threads_[i] = NoThread

(* The inductive invariant of the threads.                                 *)
ThreadInv == ThreadTypeOK /\ (\A t \in Threads : Life(t)) /\ Slots

LEMMA InitThreadInv == ASSUME ThreadInit PROVE ThreadInv
<1> USE ThreadAssumption DEF ThreadInit
<1>1. ThreadTypeOK
  BY DEF ThreadTypeOK, Flags, ThreadLabels, OwnerLabels
<1>2. ASSUME NEW t \in Threads PROVE Life(t)
  BY DEF Life, NotMade, NotStarted, SoundFlags
<1>3. Slots
  BY DEF Slots
<1> QED
  BY <1>1, <1>2, <1>3 DEF ThreadInv

(* A step of the owner of t, of t, or the release of the barrier.          *)
LEMMA StepThreadInv ==
  ASSUME ThreadInv, NEW t \in Threads,
         Owner(t) \/ thread_run(t) \/ release_start_barrier \/ UNCHANGED tvars
  PROVE  ThreadInv'
<1> USE ThreadAssumption DEF Step, Has, object, thread, owner, tvars
<1>1. ThreadTypeOK'
  <2> USE DEF ThreadInv, ThreadTypeOK, Flags, ThreadLabels, OwnerLabels, Endings
  <2>1. CASE Owner(t)
    <3>1. CASE Start(t)
      BY <3>1 DEF Start
    <3>2. CASE Create(t)
      BY <3>2 DEF Create
    <3>6. CASE SetUp(t)
      BY <3>6 DEF SetUp, StartReturn
    <3>7. CASE Join(t)
      BY <3>7 DEF Join
    <3>8. CASE Detach(t)
      BY <3>8 DEF Detach
    <3>3. CASE RequestLoad(t)
      BY <3>3 DEF RequestLoad
    <3>4. CASE RequestStore(t)
      <4>1. oreg[t] \in SUBSET Flags /\ t \in Stops
        BY <3>4 DEF RequestStore, Life
      <4> QED
        BY <3>4, <4>1 DEF RequestStore
    <3>5. CASE Delete(t)
      BY <3>5 DEF Delete
    <3> QED
      BY <2>1, <3>1, <3>2, <3>3, <3>4, <3>5, <3>6, <3>7, <3>8 DEF Owner
  <2>2. CASE Startup(t)
    <3>1. CASE Register(t)
      BY <2>2, <3>1 DEF Register
    <3>2. CASE FlagsLoad(t)
      BY <2>2, <3>2 DEF FlagsLoad
    <3>3. CASE FlagsStore(t)
      BY <2>2, <3>3 DEF FlagsStore, Updates, Updated, AfterUpdate
    <3> QED
      BY <2>2, <3>1, <3>2, <3>3 DEF Startup
  <2>3. CASE RunReturn(t) \/ Shutdown(t)
    <3>1. CASE RunReturn(t)
      BY <3>1 DEF RunReturn
    <3>2. CASE Deregister(t)
      BY <3>2 DEF Deregister
    <3>3. CASE DeleteThis(t)
      BY <3>3 DEF DeleteThis
    <3>4. CASE Exit(t)
      BY <3>4 DEF Exit
    <3> QED
      BY <2>3, <3>1, <3>2, <3>3, <3>4 DEF Shutdown
  <2>4. CASE release_start_barrier
    BY <2>4 DEF release_start_barrier
  <2>5. CASE UNCHANGED tvars
    BY <2>5
  <2> QED
    BY <2>1, <2>2, <2>3, <2>4, <2>5 DEF thread_run
<1>2. ASSUME NEW u \in Threads PROVE Life(u)'
  <2> USE DEF ThreadInv, ThreadTypeOK, Life, NotMade, NotStarted, Over, SoundFlags, Updates
  <2>1. CASE Owner(t)
    <3>1. CASE Start(t) \/ Create(t) \/ Detach(t)
      BY <3>1 DEF Start, Create, Detach
    <3>2. CASE SetUp(t)
      <4>1. CASE u = t
        BY <3>2, <4>1 DEF SetUp, StartReturn
      <4>2. CASE u # t
        BY <3>2, <4>2 DEF SetUp, StartReturn
      <4> QED
        BY <4>1, <4>2
    <3>5. CASE Join(t)
      BY <3>5 DEF Join
    <3>6. CASE Delete(t)
      BY <3>6 DEF Delete
    <3>3. CASE RequestLoad(t)
      <4>1. CASE u = t
        <5>1. flags_[t] \in SUBSET Flags /\ "none" \notin Flags
          BY DEF Flags
        <5>2. flags_[t] # NoFlags
          BY <5>1 DEF NoFlags
        <5> QED
          BY <3>3, <4>1, <5>2 DEF RequestLoad
      <4>2. CASE u # t
        BY <3>3, <4>2 DEF RequestLoad
      <4> QED
        BY <4>1, <4>2
    <3>4. CASE RequestStore(t)
      BY <3>4 DEF RequestStore, NoFlags, Flags
    <3> QED
      BY <2>1, <3>1, <3>2, <3>3, <3>4, <3>5, <3>6 DEF Owner
  <2>2. CASE Startup(t)
    <3>1. CASE Register(t)
      BY <2>2, <3>1 DEF Register
    <3>2. CASE FlagsLoad(t)
      BY <2>2, <3>2 DEF FlagsLoad
    <3>3. CASE FlagsStore(t)
      BY <2>2, <3>3 DEF FlagsStore, Updated, AfterUpdate
    <3> QED
      BY <2>2, <3>1, <3>2, <3>3 DEF Startup
  <2>3. CASE RunReturn(t) \/ Shutdown(t)
    BY <2>3 DEF Shutdown, RunReturn, Deregister, Exit, DeleteThis
  <2>4. CASE release_start_barrier
    BY <2>4 DEF release_start_barrier
  <2>5. CASE UNCHANGED tvars
    BY <2>5
  <2> QED
    BY <2>1, <2>2, <2>3, <2>4, <2>5 DEF thread_run
<1>3. Slots'
  <2> USE DEF ThreadInv, ThreadTypeOK, Slots, Listed
  <2>1. CASE Owner(t)
    BY <2>1 DEF Owner, Start, Create, Detach, SetUp, RequestLoad, RequestStore, Join, Delete,
                Life, NotMade
  <2>2. CASE Startup(t)
    <3>1. CASE Register(t)
      <4>1. \A i \in 1..MaxLive : all_threads_[i] # t
        BY <3>1 DEF Register
      <4>2. CASE UNCHANGED all_threads_
        BY <3>1, <4>2 DEF Register
      <4>3. CASE \E i \in 1..MaxLive : /\ all_threads_[i] = NoThread
                                      /\ all_threads_' = [all_threads_ EXCEPT ![i] = t]
        BY <3>1, <4>1, <4>3 DEF Register
      <4> QED
        BY <3>1, <4>2, <4>3 DEF Register
    <3>2. CASE FlagsLoad(t)
      BY <2>2, <3>2 DEF FlagsLoad
    <3>3. CASE FlagsStore(t)
      BY <2>2, <3>3 DEF FlagsStore, Updates, AfterUpdate
    <3> QED
      BY <2>2, <3>1, <3>2, <3>3 DEF Startup
  <2>3. CASE RunReturn(t) \/ Shutdown(t)
    BY <2>3 DEF Shutdown, RunReturn, Deregister, Exit, DeleteThis
  <2>4. CASE release_start_barrier
    BY <2>4 DEF release_start_barrier
  <2>5. CASE UNCHANGED tvars
    BY <2>5
  <2> QED
    BY <2>1, <2>2, <2>3, <2>4, <2>5 DEF thread_run
<1> QED
  BY <1>1, <1>2, <1>3 DEF ThreadInv

-----------------------------------------------------------------------------
(* The labels at which run() has begun.                                    *)
Begun == {"run", "stopped"} \cup Over

(* The bytes that stop() has written or is about to write to the pipe.     *)
Owed == IF spc \in {"set", "store", "test", "notify"} THEN 1 ELSE 0

(* The counters: the pipe never holds more than stop() was called, and     *)
(* after the request at most the connection already polled is accepted.    *)
Counts ==
  /\ backlog \in 0..made /\ made \in 0..MaxConns
  /\ stops \in 0..MaxStops /\ pipe \in 0..MaxStops /\ pipe + Owed <= stops
  /\ late \in 0..1 /\ late <= made
  /\ late > 0 => server \in requested /\ rpc \in {"loop", "done"}
  /\ rpc = "accept" => backlog > 0

(* stop() is called once run() has begun, and what it has asked for stands *)
(* in flags_ while run() looks there: the pipe has a byte, or poll has     *)
(* drained one, only after the request.                                    *)
Request ==
  /\ spc # "idle" => opc[server] = IF spc = "store" THEN "request" ELSE "ready"
  /\ spc # "idle" \/ server \in requested => tpc[server] \in Begun
  /\ spc \in {"test", "notify", "wait", "hook", "failed"} => server \in requested
  /\ pipe > 0 \/ rpc = "interrupted" => server \in requested
  /\ server \in requested /\ tpc[server] = "run" => "SHOULD_STOP" \in flags_[server]

Labels ==
  /\ rpc \in RunLabels \ {"abort"} /\ spc \in StopLabels
  /\ tpc[server] \in {"stopped"} \cup Over => rpc = "done"
  /\ spc = "hook" => tpc[server] \in Over

(* The inductive invariant of the server among its threads.                *)
IInv == ThreadInv /\ Counts /\ Request /\ Labels

LEMMA InitIInv == ASSUME Init PROVE IInv
<1>1. ThreadInv
  BY InitThreadInv DEF Init
<1>2. Counts /\ Request /\ Labels
  BY TCPServerAssumption, ThreadAssumption
     DEF Init, ThreadInit, Counts, Owed, Request, Labels, RunLabels, StopLabels, Over, Begun
<1> QED
  BY <1>1, <1>2 DEF IInv

(* A step of run(), of a client or of stop() other than the update of      *)
(* flags_ leaves the threads alone.                                        *)
LEMMA RunKeeps ==
  ASSUME IInv, ServerRun \/ PollError \/ Connect
  PROVE  Counts' /\ Request' /\ Labels'
<1> USE TCPServerAssumption DEF Run, Has, sock, tvars, object, thread, owner,
       Counts, Owed, Request, Labels, RunLabels
<1>1. CASE Loop
  BY <1>1 DEF IInv, Loop
<1>2. CASE PollReady
  BY <1>2 DEF IInv, PollReady
<1>3. CASE PollInterrupted
  BY <1>3 DEF IInv, PollInterrupted
<1>4. CASE Interrupted
  BY <1>4 DEF IInv, Interrupted
<1>5. CASE Accept
  BY <1>5 DEF IInv, Accept
<1>6. CASE AcceptInterrupted \/ AcceptError
  BY <1>6 DEF IInv, AcceptInterrupted, AcceptError
<1>7. CASE PollError
  BY <1>7 DEF IInv, PollError
<1>8. CASE Connect
  BY <1>8 DEF IInv, Connect
<1> QED
  BY <1>1, <1>2, <1>3, <1>4, <1>5, <1>6, <1>7, <1>8 DEF ServerRun

LEMMA StopKeeps ==
  ASSUME IInv, ServerStop
  PROVE  Counts' /\ Request' /\ Labels'
<1> USE TCPServerAssumption DEF Stop, Has, sock, tvars, object, thread, owner,
       Counts, Owed, Request, Labels, StopLabels
<1>1. CASE StopCall
  <2>1. tpc[server] \in Begun
    BY <1>1 DEF IInv, ThreadInv, ThreadTypeOK, Life, NotMade, StopCall, RunBegun, ThreadLabels,
                Begun, Over
  <2> QED
    BY <1>1, <2>1 DEF IInv, StopCall
<1>2. CASE StopSetLoad
  BY <1>2 DEF IInv, StopSetLoad, RequestLoad, Step, ThreadInv, ThreadTypeOK
<1>3. CASE StopSetStore
  BY <1>3 DEF IInv, StopSetStore, RequestStore, Step, ThreadInv, ThreadTypeOK
<1>4. CASE StopTest
  BY <1>4 DEF IInv, StopTest, ThreadInv, Life, SoundFlags
<1>5. CASE StopNotify
  BY <1>5 DEF IInv, StopNotify
<1>6. CASE StopSeen
  BY <1>6 DEF IInv, StopSeen, ThreadInv, Life, SoundFlags
<1>7. CASE StopGiveUp
  BY <1>7 DEF IInv, StopGiveUp
<1>8. CASE StopReturn
  BY <1>8 DEF IInv, StopReturn
<1> QED
  BY <1>1, <1>2, <1>3, <1>4, <1>5, <1>6, <1>7, <1>8 DEF ServerStop

(* A step around run() of the server's thread or of its owner.             *)
LEMMA LifeKeeps ==
  ASSUME IInv, ServerOwner \/ ServerThread \/ Barrier_
  PROVE  Counts' /\ Request' /\ Labels'
<1> USE TCPServerAssumption DEF Step, Has, svars, sock, object, thread, owner,
       Counts, Owed, Request, Labels, Begun, Over
<1>1. CASE ServerOwner
  BY <1>1 DEF IInv, ThreadInv, ThreadTypeOK, Life, NotMade, ServerOwner, Start, Create, Detach,
              SetUp, Join, Delete
<1>2. CASE ServerThread
  <2>1. CASE Register(server)
    BY <1>2, <2>1 DEF IInv, ThreadInv, ThreadTypeOK, ServerThread, Register
  <2>2. CASE FlagsLoad(server)
    BY <1>2, <2>2 DEF IInv, ThreadInv, ThreadTypeOK, ServerThread, FlagsLoad
  <2>3. CASE FlagsStore(server)
    BY <1>2, <2>3 DEF IInv, ThreadInv, ThreadTypeOK, ServerThread, FlagsStore, Updates, Updated,
                      AfterUpdate
  <2>4. CASE rpc = "done" /\ RunReturn(server)
    BY <1>2, <2>4 DEF IInv, ThreadInv, ThreadTypeOK, ServerThread, RunReturn
  <2>5. CASE Shutdown(server)
    BY <1>2, <2>5 DEF IInv, ThreadInv, ThreadTypeOK, ServerThread, Shutdown, Deregister, Exit,
                      DeleteThis
  <2> QED
    BY <1>2, <2>1, <2>2, <2>3, <2>4, <2>5 DEF ServerThread, Startup
<1>3. CASE Barrier_
  BY <1>3 DEF IInv, ThreadInv, ThreadTypeOK, Barrier_, release_start_barrier
<1> QED
  BY <1>1, <1>2, <1>3

(* Another thread, or its owner, changes nothing of the server's.          *)
LEMMA OtherKeeps ==
  ASSUME IInv, NEW t \in Others, OtherOwner(t) \/ OtherThread(t)
  PROVE  Counts' /\ Request' /\ Labels'
<1>1. /\ tpc'[server] = tpc[server] /\ opc'[server] = opc[server]
      /\ flags_'[server] = flags_[server] /\ requested' = requested
  <2> USE TCPServerAssumption DEF IInv, ThreadInv, ThreadTypeOK, Others, Step, object, thread, owner
  <2>1. CASE OtherOwner(t)
    <3>1. CASE RequestStore(t)
      BY <3>1 DEF RequestStore, Life
    <3> QED
      BY <2>1, <3>1 DEF OtherOwner, Owner, Start, Create, Detach, SetUp, RequestLoad, Join, Delete
  <2>2. CASE OtherThread(t)
    BY <2>2 DEF OtherThread, thread_run, Startup, Register, FlagsLoad, FlagsStore, RunReturn,
                Shutdown, Deregister, Exit, DeleteThis
  <2> QED
    BY <2>1, <2>2
<1>2. UNCHANGED svars
  BY DEF OtherOwner, OtherThread
<1> QED
  BY <1>1, <1>2 DEF IInv, svars, sock, Counts, Owed, Request, Labels

LEMMA StepIInv ==
  ASSUME IInv, [Next]_vars
  PROVE  IInv'
<1>1. ThreadInv'
  <2>1. server \in Threads
    BY TCPServerAssumption
  <2>2. \/ \E t \in Threads : Owner(t) \/ thread_run(t)
        \/ release_start_barrier
        \/ UNCHANGED tvars
    <3>1. CASE UNCHANGED vars
      BY <3>1 DEF vars
    <3>2. CASE ServerRun \/ PollError \/ Connect
      BY <3>2 DEF ServerRun, Loop, PollReady, PollInterrupted, Interrupted, Accept,
                  AcceptInterrupted, AcceptError, PollError, Connect
    <3>3. CASE ServerStop
      BY <2>1, <3>3 DEF ServerStop, StopCall, StopSetLoad, StopSetStore, StopTest, StopNotify,
                        StopSeen, StopGiveUp, StopReturn, Owner
    <3>4. CASE ServerOwner \/ ServerThread \/ Barrier_
      BY <2>1, <3>4 DEF ServerOwner, ServerThread, Barrier_, Owner, thread_run
    <3>5. CASE \E t \in Others : OtherOwner(t) \/ OtherThread(t)
      BY <3>5 DEF Others, OtherOwner, OtherThread
    <3> QED
      BY <3>1, <3>2, <3>3, <3>4, <3>5 DEF Next
  <2> QED
    BY <2>1, <2>2, StepThreadInv DEF IInv
<1>2. Counts' /\ Request' /\ Labels'
  <2>1. CASE UNCHANGED vars
    BY <2>1 DEF vars, tvars, svars, object, thread, owner, sock, IInv, Counts, Owed, Request, Labels
  <2> QED
    BY <2>1, RunKeeps, StopKeeps, LifeKeeps, OtherKeeps DEF Next
<1> QED
  BY <1>1, <1>2 DEF IInv

LEMMA AlwaysIInv == Spec => []IInv
<1>1. Init => IInv
  BY InitIInv
<1>2. IInv /\ [Next]_vars => IInv'
  BY StepIInv
<1> QED
  BY <1>1, <1>2, PTL DEF Spec

-----------------------------------------------------------------------------
(* Every variable of the threads, of run() and of stop() keeps its type,   *)
(* and the notifier's pipe never holds more bytes than stop() was called.  *)
THEOREM ServerTypeCorrect == Spec => []TypeOK
<1>1. IInv => TypeOK
  BY TCPServerAssumption DEF IInv, ThreadInv, Counts, Labels, TypeOK
<1> QED
  BY <1>1, AlwaysIInv, PTL

(* The owner of an object that is given DELETE_ON_EXIT does not touch it   *)
(* after start(): the constructor means to take the flag from a joinable   *)
(* thread, but takes it from its argument and not from flags_.             *)
OwnersLetGo == \A t \in Threads : "DELETE_ON_EXIT" \in Given[t] => Ending[t] = "leave"

(* thread_run's wait for setup_in_progress_ and join() before delete are   *)
(* enough for nobody to use an object that was deleted.                    *)
THEOREM ThreadDeletedUnused ==
  ASSUME OwnersLetGo
  PROVE  Spec => []DeletedUnused
<1>1. ASSUME IInv PROVE DeletedUnused
  <2> SUFFICES ASSUME NEW t \in deleted
               PROVE  tpc[t] = "gone" /\ opc[t] = "done"
    BY DEF DeletedUnused
  <2>1. t \in Threads /\ Life(t) /\ opc[t] \in OwnerLabels
    BY <1>1 DEF IInv, ThreadInv, ThreadTypeOK
  <2>2. "DELETE_ON_EXIT" \in Given[t] => Ending[t] = "leave"
    BY <2>1 DEF OwnersLetGo
  <2> QED
    BY <2>1, <2>2 DEF Life, NotMade, NotStarted, OwnerLabels
<1> QED
  BY <1>1, AlwaysIInv, PTL

(* all_threads_ holds each running thread at most once and no other,       *)
(* however few slots it has.                                               *)
THEOREM ThreadListedOnceWhileRunning == Spec => []ListedOnceWhileRunning
<1>1. IInv => ListedOnceWhileRunning
  BY ThreadAssumption
     DEF IInv, ThreadInv, ThreadTypeOK, Slots, Listed, Life, ListedOnceWhileRunning
<1> QED
  BY <1>1, AlwaysIInv, PTL

(* ASSERT(should_stop()) of run() holds: poll is interrupted only after    *)
(* stop() has set SHOULD_STOP, and no other update of flags_ loses it      *)
(* while run() is under way.                                               *)
THEOREM ServerInterruptedMeansStop == Spec => []InterruptedMeansStop
<1>1. IInv => InterruptedMeansStop
  BY DEF IInv, Labels, InterruptedMeansStop
<1> QED
  BY <1>1, AlwaysIInv, PTL

(* Once stop() has set SHOULD_STOP the server accepts one connection more  *)
(* at most, whatever clients do.                                           *)
THEOREM ServerAtMostOneMoreAccepted == Spec => []AtMostOneMoreAccepted
<1>1. IInv => AtMostOneMoreAccepted
  BY DEF IInv, Counts, AtMostOneMoreAccepted
<1> QED
  BY <1>1, AlwaysIInv, PTL

(* The hook that stop() calls runs after run() has returned, although      *)
(* STOPPED is one bit of an int that the owner writes too.                 *)
THEOREM ServerHookAfterRun == Spec => []HookAfterRun
<1>1. IInv => HookAfterRun
  BY DEF IInv, Labels, Over, HookAfterRun
<1> QED
  BY <1>1, AlwaysIInv, PTL
=============================================================================
