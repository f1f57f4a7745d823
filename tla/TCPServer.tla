----------------------------- MODULE TCPServer ------------------------------
(***************************************************************************)
(* io/TCPServer.cc: a TCPServerThread, that is a Thread whose run() polls  *)
(* a listening socket together with a Notifier, and the stop() its owner   *)
(* and its destructor call, among other threads whose run() just returns   *)
(* some day.  The same loop and the same stop() are in                     *)
(* bluez/BluetoothServer.cc and ax25/AX25ConnectedModeServer.cc.           *)
(*                                                                         *)
(* stop() is called once run() has begun: thread_run clears a request made *)
(* earlier, and run() would then be interrupted without one.               *)
(***************************************************************************)
EXTENDS Thread

CONSTANTS
  server,
  MaxConns,   \* bound: connections that clients make
  MaxStops    \* bound: calls of stop(), the destructor's being one

ASSUME TCPServerAssumption ==
  /\ server \in Threads /\ Stops = {server}
  /\ MaxConns \in Nat /\ MaxStops \in Nat

VARIABLES
  rpc,     \* where run() is
  backlog, \* connections waiting on the listening socket
  made,    \* connections made so far
  pipe,    \* bytes in the pipe of the notifier
  spc,     \* where stop() is
  stops,   \* calls of stop() so far
  late     \* history: connections accepted since stop() set SHOULD_STOP

sock  == <<backlog, made>>
svars == <<rpc, sock, pipe, spc, stops, late>>
vars  == <<tvars, svars>>

RunLabels  == {"loop", "poll", "accept", "interrupted", "done", "abort"}
StopLabels == {"idle", "set", "store", "test", "notify", "wait", "hook", "failed"}

Init ==
  /\ ThreadInit
  /\ rpc = "loop" /\ backlog = 0 /\ made = 0
  /\ pipe = 0 /\ spc = "idle" /\ stops = 0 /\ late = 0

Run(from, to) == tpc[server] = "run" /\ rpc = from /\ rpc' = to
RunBegun ==
  tpc[server] \notin {"register", "started", "clear_stopped", "clear_should_stop"}
Stop(from, to) == spc = from /\ spc' = to

(* Mutants of the definitions below.                                       *)
LoopUnchecked ==
  /\ Run("loop", "poll")
  /\ UNCHANGED <<tvars, sock, pipe, spc, stops, late>>
StopTestRushed ==
  /\ Stop("test", "hook")
  /\ UNCHANGED <<tvars, rpc, sock, pipe, stops, late>>
StopNotifyForgotten ==
  /\ Stop("notify", "wait")
  /\ UNCHANGED <<tvars, rpc, sock, pipe, stops, late>>
StopCallNotifiesFirst ==
  /\ stops < MaxStops /\ opc[server] = "ready"
  /\ RunBegun
  /\ Stop("idle", "set")
  /\ stops' = stops + 1
  /\ pipe' = pipe + 1
  /\ UNCHANGED <<tvars, rpc, sock, late>>

-----------------------------------------------------------------------------
(* run()                                                                   *)
Loop ==
  /\ Run("loop", IF Has(server, "SHOULD_STOP") THEN "done" ELSE "poll")
  /\ UNCHANGED <<tvars, sock, pipe, spc, stops, late>>

(* poll_with_notifier: data before the notifier.                           *)
PollReady ==
  /\ backlog > 0
  /\ Run("poll", "accept")
  /\ UNCHANGED <<tvars, sock, pipe, spc, stops, late>>

PollInterrupted ==
  /\ backlog = 0 /\ pipe > 0
  /\ Run("poll", "interrupted")
  /\ pipe' = pipe - 1
  /\ UNCHANGED <<tvars, sock, spc, stops, late>>

PollError ==
  /\ Run("poll", "done")
  /\ UNCHANGED <<tvars, sock, pipe, spc, stops, late>>

Interrupted ==
  /\ Run("interrupted", IF Has(server, "SHOULD_STOP") THEN "done" ELSE "abort")
  /\ UNCHANGED <<tvars, sock, pipe, spc, stops, late>>

Accept ==
  /\ Run("accept", "loop")
  /\ backlog' = backlog - 1
  /\ late' = IF server \in requested THEN late + 1 ELSE late
  /\ UNCHANGED <<tvars, made, pipe, spc, stops>>

AcceptInterrupted ==
  /\ Run("accept", "loop")
  /\ UNCHANGED <<tvars, sock, pipe, spc, stops, late>>

AcceptError ==
  /\ Run("accept", "done")
  /\ UNCHANGED <<tvars, sock, pipe, spc, stops, late>>

ServerRun == \/ Loop \/ PollReady \/ PollInterrupted \/ Interrupted
             \/ Accept \/ AcceptInterrupted \/ AcceptError

(* A client's connection joins the backlog of the listening socket.        *)
Connect ==
  /\ made < MaxConns
  /\ made' = made + 1 /\ backlog' = backlog + 1
  /\ UNCHANGED <<tvars, rpc, pipe, spc, stops, late>>

-----------------------------------------------------------------------------
(* stop()                                                                  *)
StopCall ==
  /\ stops < MaxStops /\ opc[server] = "ready"
  /\ RunBegun
  /\ Stop("idle", "set")
  /\ stops' = stops + 1
  /\ UNCHANGED <<tvars, rpc, sock, pipe, late>>

StopSetLoad ==
  /\ Stop("set", "store") /\ RequestLoad(server)
  /\ UNCHANGED <<rpc, sock, pipe, stops, late>>

StopSetStore ==
  /\ Stop("store", "test") /\ RequestStore(server)
  /\ UNCHANGED <<rpc, sock, pipe, stops, late>>

StopTest ==
  /\ Stop("test", IF Has(server, "STOPPED") THEN "hook" ELSE "notify")
  /\ UNCHANGED <<tvars, rpc, sock, pipe, stops, late>>

StopNotify ==
  /\ Stop("notify", "wait")
  /\ pipe' = pipe + 1
  /\ UNCHANGED <<tvars, rpc, sock, stops, late>>

StopSeen ==
  /\ Has(server, "STOPPED")
  /\ Stop("wait", "hook")
  /\ UNCHANGED <<tvars, rpc, sock, pipe, stops, late>>

(* Twenty sleeps have passed: the thread is taken to be stuck.             *)
StopGiveUp ==
  /\ ~Has(server, "STOPPED")
  /\ Stop("wait", "failed")
  /\ UNCHANGED <<tvars, rpc, sock, pipe, stops, late>>

StopReturn ==
  /\ spc \in {"hook", "failed"} /\ spc' = "idle"
  /\ UNCHANGED <<tvars, rpc, sock, pipe, stops, late>>

ServerStop == \/ StopCall \/ StopSetLoad \/ StopSetStore \/ StopTest \/ StopNotify
              \/ StopSeen \/ StopGiveUp \/ StopReturn

-----------------------------------------------------------------------------
(* The rest of the life of the server's thread: bind_listen_start, the     *)
(* steps of thread_run around run(), and a join once stop() has returned.  *)
ServerOwner ==
  /\ \/ Start(server) \/ Create(server) \/ Detach(server) \/ SetUp(server)
     \/ spc = "idle" /\ (Join(server) \/ Delete(server))
  /\ UNCHANGED svars
ServerThread ==
  /\ \/ Startup(server)
     \/ rpc = "done" /\ RunReturn(server)
     \/ Shutdown(server)
  /\ UNCHANGED svars

Others == Threads \ {server}
OtherOwner(t) == Owner(t) /\ UNCHANGED svars
OtherThread(t) == thread_run(t) /\ UNCHANGED svars
Barrier_ == release_start_barrier /\ UNCHANGED svars

Next == \/ Barrier_ \/ ServerOwner \/ ServerThread
        \/ ServerRun \/ PollError \/ Connect \/ ServerStop
        \/ \E t \in Others : OtherOwner(t) \/ OtherThread(t)

Spec == Init /\ [][Next]_vars

(* The server's two threads keep running; clients need not connect, poll need not   *)
(* fail.                                                                   *)
FairSpec ==
  /\ Spec
  /\ WF_vars(Barrier_)
  /\ WF_vars(ServerOwner) /\ WF_vars(ServerThread) /\ WF_vars(ServerRun)
  /\ WF_vars(ServerStop /\ spc # "idle")

-----------------------------------------------------------------------------
TypeOK ==
  /\ ThreadTypeOK
  /\ rpc \in RunLabels /\ spc \in StopLabels
  /\ backlog \in 0..MaxConns /\ made \in 0..MaxConns
  /\ pipe \in 0..MaxStops /\ stops \in 0..MaxStops
  /\ late \in 0..MaxConns

(* The assertion of run(): poll is interrupted only when stop() has asked  *)
(* the thread to stop.                                                     *)
InterruptedMeansStop == rpc # "abort"

(* stop() sets SHOULD_STOP before it writes to the notifier, so the server *)
(* accepts at most the connection it has polled: new ones are left alone   *)
(* although they come before the notifier in poll_with_notifier.           *)
AtMostOneMoreAccepted == late <= 1

(* The shutdown hook of stop() runs only after run() has returned, so the  *)
(* subclass tears down what no thread uses.                                *)
HookAfterRun == spc = "hook" => rpc = "done" /\ tpc[server] \notin {"run", "stopped"}

(* A server that has been interrupted by stop() ends, others still running *)
(* or not.                                                                 *)
StopEndsServer == (spc = "wait") ~> (tpc[server] = "gone")
=============================================================================
