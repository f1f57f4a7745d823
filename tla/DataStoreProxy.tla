--------------------------- MODULE DataStoreProxy ---------------------------
(***************************************************************************)
(* storage/DataStoreProxy.cc: threads of an application call an external   *)
(* data store.  Each leaves a RequestReply, which is on its stack, in the  *)
(* worker's MsgQueue and waits on it; the worker gives it a cookie, sends  *)
(* it to the DataStoreServer, and tells the thread when the reply with the *)
(* cookie is there.  While the start barrier is up, one thread sends and   *)
(* receives by itself.                                                     *)
(*                                                                         *)
(* MsgQueue's push and try_pop are steps here: module MsgQueue has their   *)
(* inside.  External: the connection, which is reliable and in order until *)
(* the server's side goes.                                                 *)
(***************************************************************************)
EXTENDS Naturals, Sequences, FiniteSets, SequencesExt

CONSTANTS
  Clients,       \* threads of the application
  Main,          \* the one that sets the store up
  Workers,       \* threads that start() of the one worker may have made
  NoClient,
  MaxRequests,   \* bound: requests of each client
  RacingStart    \* whether others call or shut the proxy down while the worker starts

ASSUME DataStoreProxyAssumption ==
  /\ Main \in Clients
  /\ NoClient \notin Clients
  /\ MaxRequests \in Nat
  /\ RacingStart \in BOOLEAN

VARIABLES
  barrier,     \* Thread::start_barrier_enabled_
  started, should_stop,  \* flags_ of the worker
  cpc,         \* of each client: where it is
  asked,       \* the number of its request
  reply,       \* the request that its reply is to, or NoClient before
  told,        \* bytes in the pipe of its RequestReply
  busy,        \* busy_notifiers_ of its RequestReply
  mq, bytes,   \* the MsgQueue: clients' requests, and bytes in its pipe
  cur_cookie,
  wpc,         \* of each worker: where it is
  ready,       \* what poll has found
  pending,     \* cookies with their clients
  found,       \* whom a reply was for
  up,          \* the server's side of the connection is there
  requests, replies,     \* on the connection
  spc, ended   \* shutdown(), and bytes in the pipe of shutdown_notifier_

clientVars == <<cpc, asked, reply, told, busy>>
workerVars == <<started, should_stop, cur_cookie, wpc, ready, pending, found>>
netVars    == <<up, requests, replies>>
proxyVars  == <<barrier, clientVars, mq, bytes, workerVars, netVars, spc, ended>>

ProxyInit ==
  /\ barrier = TRUE
  /\ started = FALSE /\ should_stop = FALSE
  /\ cpc = [c \in Clients |-> "idle"]
  /\ asked = [c \in Clients |-> 0] /\ reply = [c \in Clients |-> NoClient]
  /\ told = [c \in Clients |-> 0] /\ busy = [c \in Clients |-> 0]
  /\ mq = <<>> /\ bytes = 0
  /\ cur_cookie = 0
  /\ wpc = [w \in Workers |-> "none"]
  /\ ready = [w \in Workers |-> {}]
  /\ pending = [w \in Workers |-> {}]
  /\ found = [w \in Workers |-> NoClient]
  /\ up = TRUE /\ requests = <<>> /\ replies = <<>>
  /\ spc = "idle" /\ ended = 0

Goto(c, from, to)  == cpc[c] = from /\ cpc' = [cpc EXCEPT ![c] = to]
WGoto(w, from, to) == wpc[w] = from /\ wpc' = [wpc EXCEPT ![w] = to]

-----------------------------------------------------------------------------
(* The connection.  What is written to a server that is not there is lost. *)

Send(m) == requests' = IF up THEN Append(requests, m) ELSE requests

Readable == replies # <<>> \/ ~up

(* The server handles one request at a time and gives the reply the        *)
(* request's cookie.                                                       *)
Process(m) == [cookie |-> m.cookie, to |-> m.request]

Serve ==
  /\ up
  /\ requests # <<>>
  /\ replies' = Append(replies, Process(Head(requests)))
  /\ requests' = Tail(requests)
  /\ UNCHANGED <<barrier, clientVars, mq, bytes, workerVars, up, spc, ended>>

(* serve() returns, or the server's process ends.                          *)
ServerGone ==
  /\ up
  /\ up' = FALSE
  /\ requests' = <<>>
  /\ UNCHANGED <<barrier, clientVars, mq, bytes, workerVars, replies, spc, ended>>

-----------------------------------------------------------------------------
(* A client's execute().                                                   *)

Ask(c) ==
  /\ asked[c] < MaxRequests
  /\ asked' = [asked EXCEPT ![c] = @ + 1]
  /\ reply' = [reply EXCEPT ![c] = NoClient]

(* Before the barrier is released the cookies are other ones: 0 here, for  *)
(* there is one such request at a time.                                    *)
SyncSend ==
  /\ barrier
  /\ Goto(Main, "idle", "recv")
  /\ Ask(Main)
  /\ Send([cookie |-> 0, request |-> <<Main, asked'[Main]>>])
  /\ UNCHANGED <<barrier, told, busy, mq, bytes, workerVars, up, replies, spc, ended>>

SyncRecv ==
  /\ replies # <<>>
  /\ Goto(Main, "recv", "idle")
  /\ reply' = [reply EXCEPT ![Main] = Head(replies).to]
  /\ replies' = Tail(replies)
  /\ UNCHANGED <<barrier, asked, told, busy, mq, bytes, workerVars, up, requests, spc, ended>>

(* The connection has gone: recv() leaves no reply and the caller uses it  *)
(* all the same, which is the end of the process.                          *)
SyncRecvNothing ==
  /\ replies = <<>> /\ ~up
  /\ Goto(Main, "recv", "null")
  /\ UNCHANGED <<barrier, asked, reply, told, busy, mq, bytes, workerVars, netVars, spc, ended>>

release_start_barrier ==
  /\ barrier
  /\ cpc[Main] = "idle"
  /\ barrier' = FALSE
  /\ UNCHANGED <<clientVars, mq, bytes, workerVars, netVars, spc, ended>>

(* The first request starts the worker: whether STARTED is set, which the  *)
(* new thread does, and start() are two steps.                             *)
Execute(c) ==
  /\ ~barrier
  /\ spc = "idle"
  /\ RacingStart \/ started \/ \A d \in Clients : cpc[d] = "idle"
  /\ Goto(c, "idle", IF started THEN "push" ELSE "start")
  /\ Ask(c)
  /\ UNCHANGED <<barrier, told, busy, mq, bytes, workerVars, netVars, spc, ended>>

StartWorker(c) ==
  /\ Goto(c, "start", "push")
  /\ \E w \in Workers : WGoto(w, "none", "begin")
  /\ UNCHANGED <<barrier, asked, reply, told, busy, mq, bytes, started, should_stop,
                 cur_cookie, ready, pending, found, netVars, spc, ended>>

Push(c) ==
  /\ Goto(c, "push", "wait")
  /\ mq' = Append(mq, c)
  /\ bytes' = bytes + 1
  /\ UNCHANGED <<barrier, asked, reply, told, busy, workerVars, netVars, spc, ended>>

(* wait() has seen a byte and drains it; the RequestReply goes when no     *)
(* notify() is at it.                                                      *)
Wake(c) ==
  /\ told[c] > 0
  /\ Goto(c, "wait", "destroy")
  /\ told' = [told EXCEPT ![c] = @ - 1]
  /\ UNCHANGED <<barrier, asked, reply, busy, mq, bytes, workerVars, netVars, spc, ended>>

DestroyAtOnce(c) ==
  /\ Goto(c, "destroy", "idle")
  /\ UNCHANGED <<barrier, asked, reply, told, busy, mq, bytes, workerVars, netVars, spc, ended>>

Destroy(c) ==
  /\ busy[c] = 0
  /\ Goto(c, "destroy", "idle")
  /\ UNCHANGED <<barrier, asked, reply, told, busy, mq, bytes, workerVars, netVars, spc, ended>>

-----------------------------------------------------------------------------
(* The worker.                                                             *)

Begin(w) ==
  /\ WGoto(w, "begin", "top")
  /\ started' = TRUE /\ should_stop' = FALSE
  /\ UNCHANGED <<barrier, clientVars, mq, bytes, cur_cookie, ready, pending, found,
                 netVars, spc, ended>>

MayStop(w) == should_stop /\ pending[w] = {}

Top(w) ==
  /\ WGoto(w, "top", IF MayStop(w) THEN "finish" ELSE "poll")
  /\ UNCHANGED <<barrier, clientVars, mq, bytes, started, should_stop, cur_cookie, ready,
                 pending, found, netVars, spc, ended>>

Events == {e \in {"mq", "socket"} : IF e = "mq" THEN bytes > 0 ELSE Readable}

Poll(w) ==
  /\ Events # {}
  /\ WGoto(w, "poll", IF MayStop(w) THEN "finish" ELSE "event")
  /\ ready' = [ready EXCEPT ![w] = Events]
  /\ UNCHANGED <<barrier, clientVars, mq, bytes, started, should_stop, cur_cookie,
                 pending, found, netVars, spc, ended>>

PollFails(w) ==
  /\ WGoto(w, "poll", "top")
  /\ should_stop' = TRUE
  /\ UNCHANGED <<barrier, clientVars, mq, bytes, started, cur_cookie, ready,
                 pending, found, netVars, spc, ended>>

gen_cookie_stuck == cur_cookie

gen_cookie == cur_cookie + 1

(* try_pop finds nothing, and drains nothing, when the byte is that of     *)
(* shutdown().                                                             *)
Event(w) ==
  /\ WGoto(w, "event", "socket")
  /\ IF "mq" \in ready[w] /\ mq # <<>>
     THEN LET c == Head(mq)
          IN /\ mq' = Tail(mq) /\ bytes' = bytes - 1
             /\ cur_cookie' = gen_cookie
             /\ pending' = [pending EXCEPT ![w] = {p \in @ : p.cookie # gen_cookie}
                                                    \cup {[cookie |-> gen_cookie, c |-> c]}]
             /\ Send([cookie |-> gen_cookie, request |-> <<c, asked[c]>>])
     ELSE UNCHANGED <<mq, bytes, cur_cookie, pending, requests>>
  /\ UNCHANGED <<barrier, clientVars, started, should_stop, ready, found, up, replies,
                 spc, ended>>

(* One reply is read, if there is one to read, and the client whose cookie *)
(* it has is sought: there is none for the cookie of another worker.       *)
Socket(w) ==
  /\ wpc[w] = "socket"
  /\ "socket" \in ready[w] => Readable
  /\ IF "socket" \in ready[w] /\ replies # <<>>
     THEN LET m  == Head(replies)
              to == {p.c : p \in {q \in pending[w] : q.cookie = m.cookie}}
          IN /\ replies' = Tail(replies)
             /\ IF to = {} THEN wpc' = [wpc EXCEPT ![w] = "top"] /\ UNCHANGED <<found, reply, busy>>
                ELSE \E c \in to :
                       /\ reply' = [reply EXCEPT ![c] = m.to]
                       /\ busy' = [busy EXCEPT ![c] = @ + 1]
                       /\ found' = [found EXCEPT ![w] = c]
                       /\ wpc' = [wpc EXCEPT ![w] = "notify"]
     ELSE /\ wpc' = [wpc EXCEPT ![w] = "top"]
          /\ UNCHANGED <<replies, found, reply, busy>>
  /\ UNCHANGED <<barrier, cpc, asked, told, mq, bytes, started, should_stop, cur_cookie,
                 ready, pending, up, requests, spc, ended>>

(* notify() writes the byte and then still counts it, in the RequestReply. *)
NotifyWrite(w) ==
  /\ WGoto(w, "notify", "count")
  /\ told' = [told EXCEPT ![found[w]] = @ + 1]
  /\ UNCHANGED <<barrier, cpc, asked, reply, busy, mq, bytes, started, should_stop,
                 cur_cookie, ready, pending, found, netVars, spc, ended>>

NotifyCountDropsAll(w) ==
  /\ WGoto(w, "count", "top")
  /\ busy' = [busy EXCEPT ![found[w]] = @ - 1]
  /\ pending' = [pending EXCEPT ![w] = {}]
  /\ found' = [found EXCEPT ![w] = NoClient]
  /\ UNCHANGED <<barrier, cpc, asked, reply, told, mq, bytes, started, should_stop,
                 cur_cookie, ready, netVars, spc, ended>>

NotifyCount(w) ==
  /\ WGoto(w, "count", "top")
  /\ busy' = [busy EXCEPT ![found[w]] = @ - 1]
  /\ pending' = [pending EXCEPT ![w] = {p \in @ : p.c # found[w]}]
  /\ found' = [found EXCEPT ![w] = NoClient]
  /\ UNCHANGED <<barrier, cpc, asked, reply, told, mq, bytes, started, should_stop,
                 cur_cookie, ready, netVars, spc, ended>>

Finish(w) ==
  /\ WGoto(w, "finish", "done")
  /\ ended' = ended + 1
  /\ UNCHANGED <<barrier, clientVars, mq, bytes, started, should_stop, cur_cookie, ready,
                 pending, found, netVars, spc>>

-----------------------------------------------------------------------------
(* ~DataStoreProxy(), once no client is about to use the worker.           *)

ShutdownFlag ==
  /\ ~barrier
  /\ spc = "idle" /\ spc' = "notify"
  /\ \A c \in Clients : cpc[c] \in {"idle", "wait", "destroy"}
  /\ RacingStart \/ \A w \in Workers : wpc[w] # "begin"
  /\ should_stop' = TRUE
  /\ UNCHANGED <<barrier, clientVars, mq, bytes, started, cur_cookie, wpc, ready, pending,
                 found, netVars, ended>>

ShutdownForgetsToKick ==
  /\ spc = "notify" /\ spc' = "wait"
  /\ UNCHANGED <<barrier, clientVars, mq, bytes, workerVars, netVars, ended>>

ShutdownNotify ==
  /\ spc = "notify" /\ spc' = "wait"
  /\ bytes' = bytes + 1
  /\ UNCHANGED <<barrier, clientVars, mq, workerVars, netVars, ended>>

ShutdownWait ==
  /\ spc = "wait" /\ spc' = "done"
  /\ ended > 0
  /\ ended' = ended - 1
  /\ UNCHANGED <<barrier, clientVars, mq, bytes, workerVars, netVars>>

WorkerStep(w) ==
  \/ Begin(w) \/ Top(w) \/ Poll(w) \/ PollFails(w) \/ Event(w) \/ Socket(w)
  \/ NotifyWrite(w) \/ NotifyCount(w) \/ Finish(w)

ProxyNext ==
  \/ SyncSend \/ SyncRecv \/ SyncRecvNothing \/ release_start_barrier
  \/ \E c \in Clients : Execute(c) \/ StartWorker(c) \/ Push(c) \/ Wake(c) \/ Destroy(c)
  \/ \E w \in Workers : WorkerStep(w)
  \/ Serve \/ ServerGone
  \/ ShutdownFlag \/ ShutdownNotify \/ ShutdownWait

ProxySpec == ProxyInit /\ [][ProxyNext]_proxyVars

-----------------------------------------------------------------------------
Working == {w \in Workers : wpc[w] \notin {"none", "done"}}

(* A client that is told that its reply is there has the reply to the      *)
(* request it has just made, whatever the others have asked meanwhile.     *)
ReplyIsForRequest ==
  \A c \in Clients : told[c] > 0 \/ cpc[c] = "destroy" => reply[c] = <<c, asked[c]>>

(* The worker uses no RequestReply after its client has returned: those    *)
(* that are queued or wait for a reply are being waited on, and the one it *)
(* is notifying is not destroyed before it has done.                       *)
NoUseAfterReturn ==
  /\ \A c \in ToSet(mq) : cpc[c] = "wait"
  /\ \A w \in Workers :
       /\ found[w] # NoClient => cpc[found[w]] \in {"wait", "destroy"}
       /\ \A p \in pending[w] : p.c # found[w] => cpc[p.c] = "wait"

(* While the server is there and the worker is not to stop, a client never *)
(* waits for nothing: its request is queued with a byte that makes the     *)
(* worker look, or the server has it or has answered it and the worker     *)
(* knows the cookie, or the client is being told.                          *)
Queued(c)   == c \in ToSet(mq) /\ bytes >= Len(mq) /\ Working # {} 
Answered(c) == told[c] > 0 \/ \E w \in Workers : wpc[w] = "notify" /\ found[w] = c
AtServer(c) == \E w \in Working : \E p \in pending[w] :
                 p.c = c /\ \E m \in ToSet(requests) \cup ToSet(replies) : m.cookie = p.cookie

RequestIsNeverLost ==
  up /\ ~should_stop =>
    \A c \in Clients : cpc[c] = "wait" => Queued(c) \/ AtServer(c) \/ Answered(c)

(* shutdown() of a worker that was started never waits for one that sleeps *)
(* and has nothing left to do: there is a byte that wakes it, or it is on  *)
(* its way, or has said that it has ended.                                 *)
ShutdownIsSeen ==
  spc = "wait" /\ started =>
    \/ ended > 0
    \/ Working # {} /\ should_stop /\ bytes > 0
=============================================================================
