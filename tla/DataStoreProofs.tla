--------------------------- MODULE DataStoreProofs --------------------------
(***************************************************************************)
(* The external data store, for any number of clients, requests and        *)
(* workers: a client that is told has the reply to its own request, and    *)
(* the worker uses no RequestReply after its client has returned; and if   *)
(* nobody calls while the one worker starts, no request is lost and        *)
(* shutdown is seen. Then the transactions of a DurableStore, for any      *)
(* threads, limits and number of transactions, and the objects of a        *)
(* FileBackedObjectStore, for any sizes and bounds.                        *)
(***************************************************************************)
EXTENDS DataStoreProxy, DurableStore, FileBackedObject, FiniteSetTheorems,
        SequenceTheorems, TLAPS

ClientLabels == {"idle", "recv", "null", "start", "push", "wait", "destroy"}
Busy == {"top", "poll", "event", "socket", "notify", "count"}
WorkerLabels == Busy \cup {"none", "begin", "finish", "done"}
Asked == Clients \X Nat
Requests == [cookie : Nat, request : Asked]
Replies == [cookie : Nat, to : Asked]
Awaited == [cookie : Nat, c : Clients]

ProxyTypeOK ==
  /\ barrier \in BOOLEAN /\ started \in BOOLEAN /\ should_stop \in BOOLEAN /\ up \in BOOLEAN
  /\ cpc \in [Clients -> ClientLabels] /\ asked \in [Clients -> Nat]
  /\ reply \in [Clients -> Asked \cup {NoClient}]
  /\ told \in [Clients -> Nat] /\ busy \in [Clients -> Nat]
  /\ mq \in Seq(Clients) /\ bytes \in Nat /\ cur_cookie \in Nat
  /\ wpc \in [Workers -> WorkerLabels] /\ ready \in [Workers -> SUBSET {"mq", "socket"}]
  /\ pending \in [Workers -> SUBSET Awaited]
  /\ found \in [Workers -> Clients \cup {NoClient}]
  /\ requests \in Seq(Requests)
  /\ replies \in Seq(Replies)
  /\ spc \in {"idle", "notify", "wait", "done"} /\ ended \in Nat

(* A client is told once, when its reply is there, and only while it waits. *)
AtClient(c) ==
  /\ told[c] \in {0, 1}
  /\ told[c] = 1 => cpc[c] = "wait" /\ reply[c] = <<c, asked[c]>>
  /\ cpc[c] = "destroy" => reply[c] = <<c, asked[c]>>
  /\ cpc[c] \notin {"wait", "destroy"} => busy[c] = 0

(* A request that is queued waits, and no worker knows it yet.             *)
Distinct(s) == \A i, j \in 1..Len(s) : s[i] = s[j] => i = j
QueueInv ==
  /\ bytes >= Len(mq)
  /\ Distinct(mq)
  /\ \A c \in ToSet(mq) :
       /\ cpc[c] = "wait" /\ told[c] = 0 /\ busy[c] = 0
       /\ \A w \in Workers : \A p \in pending[w] : p.c # c

(* A cookie that somebody waits for was given to one request, and what is  *)
(* on the connection with it is that request or its reply.                 *)
CookieInv ==
  /\ \A w \in Workers : \A p \in pending[w] : p.cookie > 0 /\ p.cookie <= cur_cookie
  /\ \A v, w \in Workers : \A p \in pending[v], q \in pending[w] :
       p.cookie = q.cookie \/ p.c = q.c => v = w /\ p = q
  /\ \A m \in ToSet(requests) :
       /\ m.cookie <= cur_cookie
       /\ \A w \in Workers : \A p \in pending[w] :
            p.cookie = m.cookie => m.request = <<p.c, asked[p.c]>>
  /\ \A m \in ToSet(replies) :
       /\ m.cookie <= cur_cookie
       /\ \A w \in Workers : \A p \in pending[w] :
            p.cookie = m.cookie => m.to = <<p.c, asked[p.c]>>

(* The worker holds on to the RequestReply it has found until it has       *)
(* counted; the others it knows of wait.                                   *)
AtWorker(w) ==
  /\ found[w] # NoClient <=> wpc[w] \in {"notify", "count"}
  /\ found[w] # NoClient => (\E p \in pending[w] : p.c = found[w]) /\ busy[found[w]] = 1
  /\ \A p \in pending[w] : p.c # found[w] => cpc[p.c] = "wait" /\ told[p.c] = 0 /\ busy[p.c] = 0
  /\ wpc[w] = "notify" => /\ cpc[found[w]] = "wait" /\ told[found[w]] = 0
                          /\ reply[found[w]] = <<found[w], asked[found[w]]>>
  /\ wpc[w] = "count" => \/ cpc[found[w]] = "wait" /\ told[found[w]] = 1
                         \/ cpc[found[w]] = "destroy"

IInv ==
  /\ ProxyTypeOK
  /\ \A c \in Clients : AtClient(c)
  /\ QueueInv
  /\ CookieInv
  /\ \A w \in Workers : AtWorker(w)

(* With one worker at a time: who is where while it starts and once        *)
(* shutdown has begun, and where a request that is waited for is.          *)
StartInv ==
  /\ barrier => /\ \A w \in Workers : wpc[w] = "none"
                /\ \A c \in Clients : cpc[c] = "idle" \/ (c = Main /\ cpc[c] \in {"recv", "null"})
  /\ ~barrier => \A c \in Clients : cpc[c] \notin {"recv", "null"}
  /\ \A v, w \in Workers : wpc[v] # "none" /\ wpc[w] # "none" => v = w
  /\ started <=> \E w \in Workers : wpc[w] \notin {"none", "begin"}
  /\ ~started => \A c \in Clients : told[c] = 0 /\ cpc[c] # "destroy"
  /\ \A c \in Clients :
       /\ cpc[c] = "start" => /\ \A w \in Workers : wpc[w] = "none"
                              /\ \A d \in Clients : d # c => cpc[d] = "idle"
       /\ cpc[c] \in {"push", "wait", "destroy"} => \E w \in Workers : wpc[w] # "none"
  /\ \A w \in Workers : wpc[w] = "begin" => \E c \in Clients : cpc[c] # "idle"

StopInv ==
  /\ \A w \in Workers : wpc[w] \in {"finish", "done"} => should_stop
  /\ spc # "idle" => /\ should_stop /\ ~barrier
                     /\ \A w \in Workers : wpc[w] # "begin"
                     /\ \A c \in Clients : cpc[c] \in {"idle", "wait", "destroy"}
  /\ spc \in {"wait", "done"} => bytes > Len(mq)
  /\ spc # "done" => \A w \in Workers : wpc[w] = "done" => ended > 0

SomewhereInv ==
  /\ \A w \in Workers : pending[w] # {} => wpc[w] \in Busy
  /\ \A c \in Clients : cpc[c] = "wait" =>
       c \in ToSet(mq) \/ told[c] > 0 \/ \E w \in Workers : \E p \in pending[w] : p.c = c
  /\ up => \A w \in Workers : \A p \in pending[w] :
       p.c = found[w] \/ \E m \in ToSet(requests) \cup ToSet(replies) : m.cookie = p.cookie

LInv == StartInv /\ StopInv /\ SomewhereInv

-----------------------------------------------------------------------------
LEMMA AppendFacts ==
  ASSUME NEW S, NEW s \in Seq(S), NEW x \in S
  PROVE  /\ Append(s, x) \in Seq(S) /\ Len(Append(s, x)) = Len(s) + 1 /\ Len(s) \in Nat
         /\ ToSet(Append(s, x)) = ToSet(s) \cup {x}
         /\ x \notin ToSet(s) /\ Distinct(s) => Distinct(Append(s, x))
<1>1. /\ Append(s, x) \in Seq(S) /\ Len(Append(s, x)) = Len(s) + 1 /\ Len(s) \in Nat
      /\ \A i \in 1..Len(s) : Append(s, x)[i] = s[i]
      /\ Append(s, x)[Len(s) + 1] = x
      /\ DOMAIN s = 1..Len(s) /\ DOMAIN Append(s, x) = 1..Len(s) + 1
  BY AppendProperties, LenProperties
<1>2. \A i \in 1..Len(s) + 1 : i \in 1..Len(s) \/ i = Len(s) + 1
  BY <1>1
<1>3. 1..Len(s) \subseteq 1..Len(s) + 1 /\ Len(s) + 1 \in 1..Len(s) + 1
  BY <1>1
<1>4. ToSet(Append(s, x)) = ToSet(s) \cup {x}
  <2>1. \A y \in ToSet(Append(s, x)) : y \in ToSet(s) \cup {x}
    BY <1>1, <1>2 DEF ToSet
  <2>2. \A y \in ToSet(s) \cup {x} : y \in ToSet(Append(s, x))
    BY <1>1, <1>3 DEF ToSet
  <2> QED
    BY <2>1, <2>2
<1>5. x \notin ToSet(s) /\ Distinct(s) => Distinct(Append(s, x))
  <2>1. x \notin ToSet(s) => \A i \in 1..Len(s) : s[i] # x
    BY <1>1 DEF ToSet
  <2> QED
    BY <1>1, <1>2, <2>1 DEF Distinct
<1> QED
  BY <1>1, <1>4, <1>5

LEMMA TailFacts ==
  ASSUME NEW S, NEW s \in Seq(S), s # <<>>
  PROVE  /\ Tail(s) \in Seq(S) /\ Len(Tail(s)) = Len(s) - 1 /\ Len(s) \in Nat \ {0}
         /\ Head(s) \in S
         /\ ToSet(s) = ToSet(Tail(s)) \cup {Head(s)}
         /\ Distinct(s) => Distinct(Tail(s)) /\ Head(s) \notin ToSet(Tail(s))
<1>1. /\ Tail(s) \in Seq(S) /\ Len(Tail(s)) = Len(s) - 1 /\ Len(s) \in Nat \ {0}
      /\ Head(s) = s[1] /\ Head(s) \in S
      /\ \A i \in 1..Len(s) - 1 : Tail(s)[i] = s[i + 1]
      /\ DOMAIN s = 1..Len(s) /\ DOMAIN Tail(s) = 1..Len(s) - 1
  BY HeadTailProperties, LenProperties, EmptySeq
<1>2. /\ \A i \in 1..Len(s) : i = 1 \/ i - 1 \in 1..Len(s) - 1
      /\ \A i \in 1..Len(s) - 1 : i + 1 \in 1..Len(s) /\ i + 1 # 1
      /\ 1 \in 1..Len(s)
  BY <1>1
<1>3. ToSet(s) = ToSet(Tail(s)) \cup {Head(s)}
  <2>1. \A y \in ToSet(s) : y \in ToSet(Tail(s)) \cup {Head(s)}
    <3> SUFFICES ASSUME NEW i \in 1..Len(s), i # 1 PROVE s[i] \in ToSet(Tail(s))
      BY <1>1 DEF ToSet
    <3>1. i - 1 \in 1..Len(s) - 1 /\ Tail(s)[i - 1] = s[i]
      BY <1>1, <1>2
    <3> QED
      BY <1>1, <3>1 DEF ToSet
  <2>2. \A y \in ToSet(Tail(s)) \cup {Head(s)} : y \in ToSet(s)
    BY <1>1, <1>2 DEF ToSet
  <2> QED
    BY <2>1, <2>2
<1>4. Distinct(s) => Distinct(Tail(s))
  BY <1>1, <1>2 DEF Distinct
<1>5. Distinct(s) => Head(s) \notin ToSet(Tail(s))
  BY <1>1, <1>2 DEF Distinct, ToSet
<1> QED
  BY <1>1, <1>3, <1>4, <1>5

LEMMA EmptyFacts ==
  ASSUME NEW S
  PROVE  <<>> \in Seq(S) /\ Len(<<>>) = 0 /\ ToSet(<<>>) = {} /\ Distinct(<<>>)
<1>1. <<>> \in Seq(S) /\ Len(<<>>) = 0 /\ DOMAIN <<>> = {}
  BY EmptySeq, LenProperties
<1> QED
  BY <1>1 DEF ToSet, Distinct

LEMMA PendingWaits ==
  ASSUME IInv, NEW w \in Workers, NEW p \in pending[w]
  PROVE  p.c \in Clients /\ p.cookie \in Nat /\ cpc[p.c] \in {"wait", "destroy"}
<1>1. p.c \in Clients /\ p.cookie \in Nat
  BY DEF IInv, ProxyTypeOK, Awaited
<1>2. CASE p.c = found[w]
  <2>1. found[w] # NoClient
    BY <1>1, <1>2, DataStoreProxyAssumption
  <2> QED
    BY <1>1, <1>2, <2>1 DEF IInv, ProxyTypeOK, AtWorker
<1>3. CASE p.c # found[w]
  BY <1>1, <1>3 DEF IInv, AtWorker
<1> QED
  BY <1>1, <1>2, <1>3

LEMMA SendFacts ==
  ASSUME NEW m \in Requests, requests \in Seq(Requests), up \in BOOLEAN, Send(m)
  PROVE  /\ requests' \in Seq(Requests)
         /\ ToSet(requests') = ToSet(requests) \cup (IF up THEN {m} ELSE {})
<1>1. CASE up
  <2>1. requests' = Append(requests, m)
    BY <1>1 DEF Send
  <2> QED
    BY <1>1, <2>1, AppendFacts
<1>2. CASE ~up
  BY <1>2 DEF Send
<1> QED
  BY <1>1, <1>2

LEMMA SyncSendIInv ==
  ASSUME IInv, SyncSend
  PROVE  IInv'
<1> USE DataStoreProxyAssumption
<1>0. PICK m \in Requests : m.cookie = 0 /\ Send(m)
  <2>1. asked'[Main] \in Nat
    BY DEF IInv, ProxyTypeOK, SyncSend, Ask
  <2>2. [cookie |-> 0, request |-> <<Main, asked'[Main]>>] \in Requests
    BY <2>1 DEF Requests, Asked
  <2> QED
    BY <2>2 DEF SyncSend
<1>a. requests' \in Seq(Requests) /\ ToSet(requests') \subseteq ToSet(requests) \cup {m}
  <2>1. requests \in Seq(Requests) /\ up \in BOOLEAN
    BY DEF IInv, ProxyTypeOK
  <2> QED
    BY <1>0, <2>1, SendFacts
<1> USE DEF SyncSend, Goto, Ask
<1>1. ProxyTypeOK'
  BY <1>a DEF IInv, ProxyTypeOK, ClientLabels, workerVars
<1>2. (\A d \in Clients : AtClient(d))'
  BY DEF IInv, ProxyTypeOK, AtClient, workerVars
<1>3. QueueInv'
  BY DEF IInv, ProxyTypeOK, AtClient, QueueInv, workerVars
<1>4. CookieInv'
  <2>1. \A v \in Workers : \A p \in pending[v] : asked'[p.c] = asked[p.c] /\ p.cookie > 0
    BY PendingWaits DEF IInv, ProxyTypeOK, CookieInv
  <2>2. pending' = pending /\ replies' = replies /\ cur_cookie' = cur_cookie
    BY DEF workerVars
  <2> HIDE DEF SyncSend
  <2>3. /\ m.cookie <= cur_cookie
        /\ \A w \in Workers : \A p \in pending[w] : p.cookie # m.cookie
    BY <1>0, <2>1 DEF IInv, ProxyTypeOK
  <2>4. \A n \in ToSet(requests') : n \in ToSet(requests) \/ n = m
    BY <1>a
  <2> QED
    BY <2>1, <2>2, <2>3, <2>4 DEF IInv, CookieInv
<1>5. (\A v \in Workers : AtWorker(v))'
  BY DEF IInv, ProxyTypeOK, AtWorker, workerVars
<1> QED
  BY <1>1, <1>2, <1>3, <1>4, <1>5 DEF IInv

LEMMA SyncRecvIInv ==
  ASSUME IInv, SyncRecv
  PROVE  IInv'
<1> USE DataStoreProxyAssumption DEF SyncRecv, Goto
<1>0. /\ replies' \in Seq(Replies) /\ Head(replies).to \in Asked
      /\ ToSet(replies') \subseteq ToSet(replies)
  <2>1. replies \in Seq(Replies)
    BY DEF IInv, ProxyTypeOK
  <2>2. /\ replies' \in Seq(Replies) /\ Head(replies) \in Replies
        /\ ToSet(replies') \subseteq ToSet(replies)
    BY <2>1, TailFacts
  <2> QED
    BY <2>2 DEF Replies
<1>1. ProxyTypeOK'
  BY <1>0 DEF IInv, ProxyTypeOK, ClientLabels, workerVars
<1>2. (\A d \in Clients : AtClient(d))'
  BY <1>0 DEF IInv, ProxyTypeOK, AtClient, workerVars
<1>3. QueueInv'
  BY <1>0 DEF IInv, ProxyTypeOK, QueueInv, workerVars
<1>4. CookieInv'
  BY <1>0 DEF IInv, ProxyTypeOK, CookieInv, workerVars
<1>5. (\A v \in Workers : AtWorker(v))'
  BY <1>0 DEF IInv, ProxyTypeOK, AtWorker, workerVars
<1> QED
  BY <1>1, <1>2, <1>3, <1>4, <1>5 DEF IInv

LEMMA SyncRecvNothingIInv ==
  ASSUME IInv, SyncRecvNothing
  PROVE  IInv'
<1> USE DataStoreProxyAssumption DEF SyncRecvNothing, Goto
<1>1. ProxyTypeOK'
  BY DEF IInv, ProxyTypeOK, ClientLabels, workerVars, netVars
<1>2. (\A d \in Clients : AtClient(d))'
  BY DEF IInv, ProxyTypeOK, AtClient, workerVars, netVars
<1>3. QueueInv'
  BY DEF IInv, ProxyTypeOK, QueueInv, workerVars, netVars
<1>4. CookieInv'
  BY DEF IInv, ProxyTypeOK, CookieInv, workerVars, netVars
<1>5. (\A v \in Workers : AtWorker(v))'
  BY DEF IInv, ProxyTypeOK, AtWorker, AtClient, workerVars, netVars
<1> QED
  BY <1>1, <1>2, <1>3, <1>4, <1>5 DEF IInv

LEMMA ReleaseBarrierIInv ==
  ASSUME IInv, release_start_barrier
  PROVE  IInv'
<1> USE DataStoreProxyAssumption DEF release_start_barrier
<1>1. ProxyTypeOK'
  BY DEF IInv, ProxyTypeOK, clientVars, workerVars, netVars
<1>2. (\A d \in Clients : AtClient(d))'
  BY DEF IInv, ProxyTypeOK, AtClient, clientVars, workerVars, netVars
<1>3. QueueInv'
  BY DEF IInv, ProxyTypeOK, QueueInv, clientVars, workerVars, netVars
<1>4. CookieInv'
  BY DEF IInv, ProxyTypeOK, CookieInv, clientVars, workerVars, netVars
<1>5. (\A v \in Workers : AtWorker(v))'
  BY DEF IInv, ProxyTypeOK, AtWorker, clientVars, workerVars, netVars
<1> QED
  BY <1>1, <1>2, <1>3, <1>4, <1>5 DEF IInv

LEMMA ExecuteIInv ==
  ASSUME IInv, NEW c \in Clients, Execute(c)
  PROVE  IInv'
<1> USE DataStoreProxyAssumption DEF Execute, Goto, Ask
<1>1. ProxyTypeOK'
  BY DEF IInv, ProxyTypeOK, ClientLabels, workerVars, netVars
<1>2. (\A d \in Clients : AtClient(d))'
  BY DEF IInv, ProxyTypeOK, AtClient, workerVars, netVars
<1>3. QueueInv'
  BY DEF IInv, ProxyTypeOK, QueueInv, workerVars, netVars
<1>4. CookieInv'
  <2>1. \A v \in Workers : \A p \in pending[v] : asked'[p.c] = asked[p.c]
    BY PendingWaits DEF IInv, ProxyTypeOK
  <2> QED
    BY <2>1 DEF IInv, ProxyTypeOK, CookieInv, workerVars, netVars
<1>5. (\A v \in Workers : AtWorker(v))'
  <2>1. /\ UNCHANGED <<wpc, found, pending, told, busy>>
        /\ \A d \in Clients \ {c} :
             cpc'[d] = cpc[d] /\ asked'[d] = asked[d] /\ reply'[d] = reply[d]
    BY DEF IInv, ProxyTypeOK, workerVars, netVars
  <2>2. cpc[c] \notin {"wait", "destroy"}
    BY DEF IInv
  <2>3. ASSUME NEW v \in Workers PROVE AtWorker(v)'
    <3>1. AtWorker(v) /\ \A q \in pending[v] : q.c \in Clients \ {c}
      BY <2>2, PendingWaits DEF IInv
    <3>2. found[v] # NoClient => found[v] \in Clients \ {c}
      BY <3>1 DEF AtWorker
    <3> QED
      BY <2>1, <3>1, <3>2 DEF AtWorker
  <2> QED
    BY <2>3
<1> QED
  BY <1>1, <1>2, <1>3, <1>4, <1>5 DEF IInv

LEMMA StartWorkerIInv ==
  ASSUME IInv, NEW c \in Clients, StartWorker(c)
  PROVE  IInv'
<1> USE DataStoreProxyAssumption DEF StartWorker, Goto, WGoto
<1>1. ProxyTypeOK'
  BY DEF IInv, ProxyTypeOK, ClientLabels, WorkerLabels, netVars
<1>2. (\A d \in Clients : AtClient(d))'
  BY DEF IInv, ProxyTypeOK, AtClient, netVars
<1>3. QueueInv'
  BY DEF IInv, ProxyTypeOK, QueueInv, netVars
<1>4. CookieInv'
  BY DEF IInv, ProxyTypeOK, CookieInv, netVars
<1>5. (\A v \in Workers : AtWorker(v))'
  BY DEF IInv, ProxyTypeOK, AtWorker, netVars
<1> QED
  BY <1>1, <1>2, <1>3, <1>4, <1>5 DEF IInv

LEMMA PushIInv ==
  ASSUME IInv, NEW c \in Clients, Push(c)
  PROVE  IInv'
<1> USE DataStoreProxyAssumption DEF Push, Goto
<1>0. /\ mq' \in Seq(Clients) /\ ToSet(mq') = ToSet(mq) \cup {c} /\ Len(mq') = Len(mq) + 1
      /\ Len(mq) \in Nat /\ Distinct(mq')
  <2>1. mq \in Seq(Clients) /\ c \notin ToSet(mq) /\ Distinct(mq)
    BY DEF IInv, ProxyTypeOK, QueueInv
  <2> QED
    BY <2>1, AppendFacts
<1>1. ProxyTypeOK'
  BY <1>0 DEF IInv, ProxyTypeOK, ClientLabels, workerVars, netVars
<1>2. (\A d \in Clients : AtClient(d))'
  BY <1>0 DEF IInv, ProxyTypeOK, AtClient, workerVars, netVars
<1>3. QueueInv'
  <2>1. \A v \in Workers : \A p \in pending[v] : p.c # c
    BY PendingWaits
  <2>2. cpc'[c] = "wait" /\ told'[c] = 0 /\ busy'[c] = 0
    BY DEF IInv, ProxyTypeOK, AtClient, workerVars, netVars
  <2> QED
    BY <1>0, <2>1, <2>2 DEF IInv, ProxyTypeOK, QueueInv, workerVars, netVars
<1>4. CookieInv'
  BY <1>0 DEF IInv, ProxyTypeOK, CookieInv, workerVars, netVars
<1>5. (\A v \in Workers : AtWorker(v))'
  BY <1>0 DEF IInv, ProxyTypeOK, AtWorker, workerVars, netVars
<1> QED
  BY <1>1, <1>2, <1>3, <1>4, <1>5 DEF IInv

LEMMA WakeIInv ==
  ASSUME IInv, NEW c \in Clients, Wake(c)
  PROVE  IInv'
<1> USE DataStoreProxyAssumption DEF Wake, Goto
<1>1. ProxyTypeOK'
  BY DEF IInv, ProxyTypeOK, ClientLabels, workerVars, netVars
<1>2. (\A d \in Clients : AtClient(d))'
  BY DEF IInv, ProxyTypeOK, AtClient, workerVars, netVars
<1>3. QueueInv'
  BY DEF IInv, ProxyTypeOK, AtClient, QueueInv, workerVars, netVars
<1>4. CookieInv'
  <2>1. CookieInv /\ UNCHANGED <<pending, requests, replies, cur_cookie, asked>>
    BY DEF IInv, workerVars, netVars
  <2> QED
    BY <2>1 DEF CookieInv
<1>5. (\A v \in Workers : AtWorker(v))'
  BY DEF IInv, ProxyTypeOK, AtClient, AtWorker, workerVars, netVars
<1> QED
  BY <1>1, <1>2, <1>3, <1>4, <1>5 DEF IInv

LEMMA DestroyIInv ==
  ASSUME IInv, NEW c \in Clients, Destroy(c)
  PROVE  IInv'
<1> USE DataStoreProxyAssumption DEF Destroy, Goto
<1>1. ProxyTypeOK'
  BY DEF IInv, ProxyTypeOK, ClientLabels, workerVars, netVars
<1>2. (\A d \in Clients : AtClient(d))'
  BY DEF IInv, ProxyTypeOK, AtClient, workerVars, netVars
<1>3. QueueInv'
  BY DEF IInv, ProxyTypeOK, AtClient, QueueInv, workerVars, netVars
<1>4. CookieInv'
  <2>1. CookieInv /\ UNCHANGED <<pending, requests, replies, cur_cookie, asked>>
    BY DEF IInv, workerVars, netVars
  <2> QED
    BY <2>1 DEF CookieInv
<1>5. (\A v \in Workers : AtWorker(v))'
  BY DEF IInv, ProxyTypeOK, AtClient, AtWorker, workerVars, netVars
<1> QED
  BY <1>1, <1>2, <1>3, <1>4, <1>5 DEF IInv

LEMMA BeginIInv ==
  ASSUME IInv, NEW w \in Workers, Begin(w)
  PROVE  IInv'
<1> USE DataStoreProxyAssumption DEF Begin, WGoto
<1>1. ProxyTypeOK'
  BY DEF IInv, ProxyTypeOK, WorkerLabels, Busy, clientVars, netVars
<1>2. (\A d \in Clients : AtClient(d))'
  BY DEF IInv, ProxyTypeOK, AtClient, clientVars, netVars
<1>3. QueueInv'
  BY DEF IInv, ProxyTypeOK, QueueInv, clientVars, netVars
<1>4. CookieInv'
  BY DEF IInv, ProxyTypeOK, CookieInv, clientVars, netVars
<1>5. (\A v \in Workers : AtWorker(v))'
  BY DEF IInv, ProxyTypeOK, AtWorker, clientVars, netVars
<1> QED
  BY <1>1, <1>2, <1>3, <1>4, <1>5 DEF IInv

LEMMA TopIInv ==
  ASSUME IInv, NEW w \in Workers, Top(w)
  PROVE  IInv'
<1> USE DataStoreProxyAssumption DEF Top, WGoto
<1>1. ProxyTypeOK'
  BY DEF IInv, ProxyTypeOK, WorkerLabels, Busy, clientVars, netVars
<1>2. (\A d \in Clients : AtClient(d))'
  BY DEF IInv, ProxyTypeOK, AtClient, clientVars, netVars
<1>3. QueueInv'
  BY DEF IInv, ProxyTypeOK, QueueInv, clientVars, netVars
<1>4. CookieInv'
  BY DEF IInv, ProxyTypeOK, CookieInv, clientVars, netVars
<1>5. (\A v \in Workers : AtWorker(v))'
  BY DEF IInv, ProxyTypeOK, AtWorker, clientVars, netVars
<1> QED
  BY <1>1, <1>2, <1>3, <1>4, <1>5 DEF IInv

LEMMA PollIInv ==
  ASSUME IInv, NEW w \in Workers, Poll(w)
  PROVE  IInv'
<1> USE DataStoreProxyAssumption DEF Poll, WGoto
<1>1. ProxyTypeOK'
  BY DEF IInv, ProxyTypeOK, WorkerLabels, Busy, Events, clientVars, netVars
<1>2. (\A d \in Clients : AtClient(d))'
  BY DEF IInv, ProxyTypeOK, AtClient, clientVars, netVars
<1>3. QueueInv'
  BY DEF IInv, ProxyTypeOK, QueueInv, clientVars, netVars
<1>4. CookieInv'
  BY DEF IInv, ProxyTypeOK, CookieInv, clientVars, netVars
<1>5. (\A v \in Workers : AtWorker(v))'
  BY DEF IInv, ProxyTypeOK, AtWorker, clientVars, netVars
<1> QED
  BY <1>1, <1>2, <1>3, <1>4, <1>5 DEF IInv

LEMMA PollFailsIInv ==
  ASSUME IInv, NEW w \in Workers, PollFails(w)
  PROVE  IInv'
<1> USE DataStoreProxyAssumption DEF PollFails, WGoto
<1>1. ProxyTypeOK'
  BY DEF IInv, ProxyTypeOK, WorkerLabels, Busy, clientVars, netVars
<1>2. (\A d \in Clients : AtClient(d))'
  BY DEF IInv, ProxyTypeOK, AtClient, clientVars, netVars
<1>3. QueueInv'
  BY DEF IInv, ProxyTypeOK, QueueInv, clientVars, netVars
<1>4. CookieInv'
  BY DEF IInv, ProxyTypeOK, CookieInv, clientVars, netVars
<1>5. (\A v \in Workers : AtWorker(v))'
  BY DEF IInv, ProxyTypeOK, AtWorker, clientVars, netVars
<1> QED
  BY <1>1, <1>2, <1>3, <1>4, <1>5 DEF IInv

LEMMA FinishIInv ==
  ASSUME IInv, NEW w \in Workers, Finish(w)
  PROVE  IInv'
<1> USE DataStoreProxyAssumption DEF Finish, WGoto
<1>1. ProxyTypeOK'
  BY DEF IInv, ProxyTypeOK, WorkerLabels, Busy, clientVars, netVars
<1>2. (\A d \in Clients : AtClient(d))'
  BY DEF IInv, ProxyTypeOK, AtClient, clientVars, netVars
<1>3. QueueInv'
  BY DEF IInv, ProxyTypeOK, QueueInv, clientVars, netVars
<1>4. CookieInv'
  BY DEF IInv, ProxyTypeOK, CookieInv, clientVars, netVars
<1>5. (\A v \in Workers : AtWorker(v))'
  BY DEF IInv, ProxyTypeOK, AtWorker, clientVars, netVars
<1> QED
  BY <1>1, <1>2, <1>3, <1>4, <1>5 DEF IInv

LEMMA EventNothingIInv ==
  ASSUME IInv, NEW w \in Workers, Event(w), ~("mq" \in ready[w] /\ mq # <<>>)
  PROVE  IInv'
<1> USE DataStoreProxyAssumption DEF Event, WGoto
<1>1. ProxyTypeOK'
  BY DEF IInv, ProxyTypeOK, WorkerLabels, Busy, clientVars
<1>2. (\A d \in Clients : AtClient(d))'
  BY DEF IInv, ProxyTypeOK, AtClient, clientVars
<1>3. QueueInv'
  BY DEF IInv, ProxyTypeOK, QueueInv, clientVars
<1>4. CookieInv'
  <2>1. UNCHANGED <<pending, cur_cookie, requests, replies, asked>> /\ CookieInv
    BY DEF IInv, clientVars
  <2> QED
    BY <2>1 DEF CookieInv
<1>5. (\A v \in Workers : AtWorker(v))'
  <2>1. /\ wpc[w] = "event" /\ wpc' = [wpc EXCEPT ![w] = "socket"]
        /\ UNCHANGED <<found, pending, busy, cpc, told, reply, asked>>
    BY DEF clientVars
  <2>2. wpc \in [Workers -> WorkerLabels]
    BY DEF IInv, ProxyTypeOK
  <2>3. \A v \in Workers : /\ wpc'[v] = "notify" <=> wpc[v] = "notify"
                           /\ wpc'[v] = "count" <=> wpc[v] = "count"
    BY <2>1, <2>2
  <2>4. ASSUME NEW v \in Workers PROVE AtWorker(v)'
    <3>1. AtWorker(v)
      BY DEF IInv
    <3> QED
      BY <2>1, <2>3, <3>1 DEF AtWorker
  <2> QED
    BY <2>4
<1> QED
  BY <1>1, <1>2, <1>3, <1>4, <1>5 DEF IInv

LEMMA EventIInv ==
  ASSUME IInv, NEW w \in Workers, Event(w), "mq" \in ready[w], mq # <<>>
  PROVE  IInv'
<1> USE DataStoreProxyAssumption
<1> DEFINE c == Head(mq)
           m == [cookie |-> gen_cookie, request |-> <<c, asked[c]>>]
           p == [cookie |-> gen_cookie, c |-> c]
<1>a. /\ c \in Clients /\ c \in ToSet(mq) /\ c \notin ToSet(mq') /\ ToSet(mq') \subseteq ToSet(mq)
      /\ mq' \in Seq(Clients) /\ Len(mq') = Len(mq) - 1 /\ Len(mq) \in Nat \ {0} /\ Distinct(mq')
  <2>1. mq \in Seq(Clients) /\ Distinct(mq) /\ mq' = Tail(mq)
    BY DEF IInv, ProxyTypeOK, QueueInv, Event
  <2> QED
    BY <2>1, TailFacts
<1>b. /\ m \in Requests /\ m.cookie = cur_cookie + 1 /\ m.request = <<c, asked[c]>>
      /\ p \in Awaited /\ p.cookie = cur_cookie + 1 /\ p.c = c
  <2>1. c \in Clients /\ asked[c] \in Nat /\ gen_cookie \in Nat /\ gen_cookie = cur_cookie + 1
    BY <1>a DEF IInv, ProxyTypeOK, gen_cookie
  <2>2. <<c, asked[c]>> \in Asked
    BY <2>1 DEF Asked
  <2> HIDE DEF c
  <2> QED
    BY <2>1, <2>2 DEF Requests, Awaited
<1>c. requests' \in Seq(Requests) /\ ToSet(requests') \subseteq ToSet(requests) \cup {m}
  <2>1. requests \in Seq(Requests) /\ up \in BOOLEAN /\ Send(m)
    BY DEF IInv, ProxyTypeOK, Event
  <2> QED
    BY <1>b, <2>1, SendFacts
<1>d. /\ UNCHANGED <<barrier, clientVars, started, should_stop, ready, found, up, replies, spc, ended>>
      /\ cur_cookie' = cur_cookie + 1 /\ bytes' = bytes - 1
      /\ wpc[w] = "event" /\ wpc' = [wpc EXCEPT ![w] = "socket"]
  BY DEF Event, WGoto, gen_cookie
<1>e. pending' = [pending EXCEPT ![w] = @ \cup {p}]
  <2>1. \A q \in pending[w] : q.cookie # gen_cookie
    BY DEF IInv, ProxyTypeOK, CookieInv, gen_cookie
  <2>2. pending' = [pending EXCEPT ![w] = {q \in @ : q.cookie # gen_cookie} \cup {p}]
    BY DEF Event
  <2> QED
    BY <2>1, <2>2
<1>f. /\ \A v \in Workers : \A q \in pending'[v] : q \in pending[v] \/ (v = w /\ q = p)
      /\ \A v \in Workers : pending[v] \subseteq pending'[v]
  BY <1>e DEF IInv, ProxyTypeOK
<1> HIDE DEF c, m, p
<1>1. ProxyTypeOK'
  <2>1. bytes' \in Nat /\ cur_cookie' \in Nat
    BY <1>a, <1>d DEF IInv, ProxyTypeOK, QueueInv
  <2>2. pending' \in [Workers -> SUBSET Awaited]
    BY <1>b, <1>e DEF IInv, ProxyTypeOK
  <2> QED
    BY <1>a, <1>c, <1>d, <2>1, <2>2 DEF IInv, ProxyTypeOK, WorkerLabels, Busy, clientVars
<1>2. (\A d \in Clients : AtClient(d))'
  BY <1>d DEF IInv, AtClient, clientVars
<1>3. QueueInv'
  <2>1. UNCHANGED <<cpc, told, busy>>
    BY <1>d DEF clientVars
  <2>2. bytes' >= Len(mq')
    BY <1>a, <1>d DEF IInv, ProxyTypeOK, QueueInv
  <2>3. \A d \in ToSet(mq') : d \in ToSet(mq) /\ d # p.c
    BY <1>a, <1>b
  <2>4. ASSUME NEW d \in ToSet(mq')
        PROVE  /\ cpc'[d] = "wait" /\ told'[d] = 0 /\ busy'[d] = 0
               /\ \A v \in Workers : \A q \in pending'[v] : q.c # d
    BY <1>f, <2>1, <2>3 DEF IInv, QueueInv
  <2> QED
    BY <1>a, <2>2, <2>4 DEF QueueInv
<1>4. CookieInv'
  <2>1. /\ \A v \in Workers : \A q \in pending[v] :
             /\ q.cookie \in Nat /\ q.cookie > 0 /\ q.cookie <= cur_cookie
             /\ q.cookie # p.cookie /\ q.c # p.c
        /\ cur_cookie \in Nat
    <3>1. cur_cookie \in Nat /\ CookieInv /\ QueueInv
      BY DEF IInv, ProxyTypeOK
    <3>2. \A v \in Workers : \A q \in pending[v] : q.cookie \in Nat
      BY PendingWaits
    <3>3. \A v \in Workers : \A q \in pending[v] : q.c # p.c
      BY <1>a, <1>b, <3>1 DEF QueueInv
    <3> QED
      BY <1>b, <3>1, <3>2, <3>3 DEF CookieInv
  <2>2. \A v \in Workers : \A q \in pending'[v] : q.cookie > 0 /\ q.cookie <= cur_cookie'
    BY <1>b, <1>d, <1>f, <2>1
  <2>3. \A u, v \in Workers : \A q \in pending'[u], o \in pending'[v] :
          q.cookie = o.cookie \/ q.c = o.c => u = v /\ q = o
    BY <1>f, <2>1 DEF IInv, CookieInv
  <2>4. asked' = asked /\ replies' = replies
    BY <1>d DEF clientVars
  <2>5. ASSUME NEW n \in ToSet(requests')
        PROVE  /\ n.cookie <= cur_cookie'
               /\ \A v \in Workers : \A q \in pending'[v] :
                    q.cookie = n.cookie => n.request = <<q.c, asked[q.c]>>
    <3>1. CASE n = m
      BY <1>b, <1>d, <1>f, <2>1, <3>1
    <3>2. CASE n \in ToSet(requests)
      <4>1. n.cookie \in Nat /\ n.cookie <= cur_cookie /\ n.cookie # p.cookie
        <5>1. n \in Requests
          BY <3>2 DEF IInv, ProxyTypeOK, ToSet
        <5> QED
          BY <1>b, <2>1, <3>2, <5>1 DEF IInv, CookieInv, Requests
      <4> QED
        BY <1>d, <1>f, <2>1, <3>2, <4>1 DEF IInv, CookieInv
    <3> QED
      BY <1>c, <3>1, <3>2
  <2>6. ASSUME NEW n \in ToSet(replies)
        PROVE  /\ n.cookie <= cur_cookie'
               /\ \A v \in Workers : \A q \in pending'[v] :
                    q.cookie = n.cookie => n.to = <<q.c, asked[q.c]>>
    <3>1. n.cookie \in Nat /\ n.cookie <= cur_cookie /\ n.cookie # p.cookie
      <4>1. n \in Replies
        BY DEF IInv, ProxyTypeOK, ToSet
      <4> QED
        BY <1>b, <2>1, <4>1 DEF IInv, CookieInv, Replies
    <3> QED
      BY <1>d, <1>f, <2>1, <3>1 DEF IInv, CookieInv
  <2> QED
    BY <2>2, <2>3, <2>4, <2>5, <2>6 DEF CookieInv
<1>5. (\A v \in Workers : AtWorker(v))'
  <2>1. p.c # NoClient /\ cpc[p.c] = "wait" /\ told[p.c] = 0 /\ busy[p.c] = 0
    BY <1>a, <1>b DEF IInv, QueueInv
  <2>2. UNCHANGED <<cpc, told, busy, reply, asked, found>>
    BY <1>d DEF clientVars
  <2>3. AtWorker(w)'
    <3>1. wpc'[w] = "socket" /\ found'[w] = NoClient
      BY <1>d DEF IInv, ProxyTypeOK, AtWorker
    <3>2. \A q \in pending'[w] : cpc'[q.c] = "wait" /\ told'[q.c] = 0 /\ busy'[q.c] = 0
      <4>1. \A q \in pending[w] : q.c # NoClient
        BY PendingWaits, DataStoreProxyAssumption
      <4> QED
        BY <1>d, <1>f, <2>1, <2>2, <3>1, <4>1 DEF IInv, AtWorker
    <3> QED
      BY <3>1, <3>2 DEF AtWorker
  <2>4. ASSUME NEW v \in Workers, v # w PROVE AtWorker(v)'
    BY <1>d, <1>f, <2>2, <2>4 DEF IInv, ProxyTypeOK, AtWorker
  <2> QED
    BY <2>3, <2>4
<1> QED
  BY <1>1, <1>2, <1>3, <1>4, <1>5 DEF IInv

LEMMA SocketNothingIInv ==
  ASSUME IInv, NEW w \in Workers, Socket(w), wpc' = [wpc EXCEPT ![w] = "top"],
         UNCHANGED <<found, reply, busy>>
  PROVE  IInv'
<1> USE DataStoreProxyAssumption
<1>a. /\ UNCHANGED <<barrier, cpc, asked, told, mq, bytes, started, should_stop, cur_cookie,
                     ready, pending, up, requests, spc, ended>>
      /\ replies' = replies \/ (replies # <<>> /\ replies' = Tail(replies))
      /\ wpc[w] = "socket"
  BY DEF Socket
<1>b. replies' \in Seq(Replies) /\ ToSet(replies') \subseteq ToSet(replies)
  <2>1. replies \in Seq(Replies)
    BY DEF IInv, ProxyTypeOK
  <2>2. CASE replies' = replies
    BY <2>1, <2>2
  <2>3. CASE replies # <<>> /\ replies' = Tail(replies)
    BY <2>1, <2>3, TailFacts
  <2> QED
    BY <1>a, <2>2, <2>3
<1>1. ProxyTypeOK'
  BY <1>a, <1>b DEF IInv, ProxyTypeOK, WorkerLabels, Busy
<1>2. (\A d \in Clients : AtClient(d))'
  BY <1>a DEF IInv, AtClient
<1>3. QueueInv'
  BY <1>a DEF IInv, QueueInv
<1>4. CookieInv'
  BY <1>a, <1>b DEF IInv, CookieInv
<1>5. (\A v \in Workers : AtWorker(v))'
  BY <1>a DEF IInv, ProxyTypeOK, AtWorker
<1> QED
  BY <1>1, <1>2, <1>3, <1>4, <1>5 DEF IInv

(* The reply in hand goes to the client it names: the cookie says so.      *)
LEMMA SocketFindsIInv ==
  ASSUME IInv, NEW w \in Workers, wpc[w] = "socket", replies # <<>>,
         NEW p \in pending[w], p.cookie = Head(replies).cookie,
         replies' = Tail(replies),
         reply' = [reply EXCEPT ![p.c] = Head(replies).to],
         busy' = [busy EXCEPT ![p.c] = @ + 1],
         found' = [found EXCEPT ![w] = p.c],
         wpc' = [wpc EXCEPT ![w] = "notify"],
         UNCHANGED <<barrier, cpc, asked, told, mq, bytes, started, should_stop, cur_cookie,
                     ready, pending, up, requests, spc, ended>>
  PROVE  IInv'
<1> USE DataStoreProxyAssumption
<1>a. /\ replies' \in Seq(Replies) /\ ToSet(replies') \subseteq ToSet(replies)
      /\ Head(replies) \in ToSet(replies) /\ Head(replies).to \in Asked
  <2>1. replies \in Seq(Replies)
    BY DEF IInv, ProxyTypeOK
  <2>2. /\ replies' \in Seq(Replies) /\ ToSet(replies') \subseteq ToSet(replies)
        /\ Head(replies) \in ToSet(replies) /\ Head(replies) \in Replies
    BY <2>1, TailFacts
  <2> QED
    BY <2>2 DEF Replies
<1>b. /\ p.c \in Clients /\ Head(replies).to = <<p.c, asked[p.c]>>
      /\ found[w] = NoClient /\ cpc[p.c] = "wait" /\ told[p.c] = 0 /\ busy[p.c] = 0
  <2>1. p.c \in Clients
    BY PendingWaits
  <2>2. found[w] = NoClient
    BY DEF IInv, AtWorker
  <2> QED
    BY <1>a, <2>1, <2>2 DEF IInv, CookieInv, AtWorker
<1>c. \A v \in Workers : \A q \in pending[v] : q.c = p.c => v = w
  BY DEF IInv, CookieInv
<1>d. \A v \in Workers \ {w} : found[v] # p.c
  BY <1>b, <1>c DEF IInv, AtWorker
<1>1. ProxyTypeOK'
  <2>1. found' \in [Workers -> Clients \cup {NoClient}] /\ wpc' \in [Workers -> WorkerLabels]
    BY <1>b DEF IInv, ProxyTypeOK, WorkerLabels, Busy
  <2>2. busy' \in [Clients -> Nat] /\ reply' \in [Clients -> Asked \cup {NoClient}]
    <3>1. busy \in [Clients -> Nat] /\ reply \in [Clients -> Asked \cup {NoClient}]
      BY DEF IInv, ProxyTypeOK
    <3> QED
      BY <1>a, <1>b, <3>1
  <2> QED
    BY <1>a, <2>1, <2>2 DEF IInv, ProxyTypeOK
<1>2. (\A d \in Clients : AtClient(d))'
  BY <1>b DEF IInv, ProxyTypeOK, AtClient
<1>3. QueueInv'
  BY <1>b DEF IInv, ProxyTypeOK, QueueInv
<1>4. CookieInv'
  BY <1>a DEF IInv, CookieInv
<1>5. (\A v \in Workers : AtWorker(v))'
  <2>1. AtWorker(w)'
    <3>1. /\ found'[w] = p.c /\ wpc'[w] = "notify" /\ p.c # NoClient
          /\ busy'[p.c] = 1 /\ reply'[p.c] = <<p.c, asked[p.c]>>
      <4>1. /\ wpc \in [Workers -> WorkerLabels] /\ found \in [Workers -> Clients \cup {NoClient}]
            /\ busy \in [Clients -> Nat] /\ reply \in [Clients -> Asked \cup {NoClient}]
        BY DEF IInv, ProxyTypeOK
      <4>2. found'[w] = p.c /\ wpc'[w] = "notify"
        BY <4>1
      <4>3. busy'[p.c] = busy[p.c] + 1 /\ reply'[p.c] = Head(replies).to
        BY <1>b, <4>1
      <4> QED
        BY <1>b, <4>2, <4>3
    <3>2. \A q \in pending[w] : q.c # p.c => cpc[q.c] = "wait" /\ told[q.c] = 0 /\ busy'[q.c] = 0
      <4>1. \A q \in pending[w] : q.c \in Clients
        BY PendingWaits
      <4>2. \A q \in pending[w] : cpc[q.c] = "wait" /\ told[q.c] = 0 /\ busy[q.c] = 0
        BY <1>b, <4>1 DEF IInv, AtWorker
      <4> QED
        BY <1>b, <4>1, <4>2 DEF IInv, ProxyTypeOK
    <3> QED
      BY <1>b, <3>1, <3>2 DEF AtWorker
  <2>2. ASSUME NEW v \in Workers, v # w PROVE AtWorker(v)'
    <3>1. found'[v] = found[v] /\ wpc'[v] = wpc[v] /\ found[v] # p.c
      BY <1>d, <2>2 DEF IInv, ProxyTypeOK
    <3>2. \A q \in pending[v] : q.c # p.c
      BY <1>c, <2>2
    <3>3. \A d \in Clients : d # p.c => busy'[d] = busy[d] /\ reply'[d] = reply[d]
      BY <1>b DEF IInv, ProxyTypeOK
    <3>4. \A q \in pending[v] : q.c \in Clients
      BY PendingWaits
    <3>5. found[v] # NoClient => found[v] \in Clients
      BY DEF IInv, ProxyTypeOK
    <3>6. AtWorker(v)
      BY DEF IInv
    <3>7. \A q \in pending[v] : busy'[q.c] = busy[q.c]
      BY <3>2, <3>3, <3>4
    <3>8. found[v] # NoClient => busy'[found[v]] = busy[found[v]] /\ reply'[found[v]] = reply[found[v]]
      BY <3>1, <3>3, <3>5
    <3> QED
      BY <3>1, <3>6, <3>7, <3>8 DEF AtWorker
  <2> QED
    BY <2>1, <2>2
<1> QED
  BY <1>1, <1>2, <1>3, <1>4, <1>5 DEF IInv

LEMMA SocketIInv == ASSUME IInv, NEW w \in Workers, Socket(w) PROVE IInv'
<1>1. CASE wpc' = [wpc EXCEPT ![w] = "top"] /\ UNCHANGED <<found, reply, busy>>
  BY <1>1, SocketNothingIInv
<1>2. CASE ~(wpc' = [wpc EXCEPT ![w] = "top"] /\ UNCHANGED <<found, reply, busy>>)
  <2>1. PICK p \in pending[w] :
          /\ p.cookie = Head(replies).cookie
          /\ wpc[w] = "socket" /\ replies # <<>> /\ replies' = Tail(replies)
          /\ reply' = [reply EXCEPT ![p.c] = Head(replies).to]
          /\ busy' = [busy EXCEPT ![p.c] = @ + 1]
          /\ found' = [found EXCEPT ![w] = p.c]
          /\ wpc' = [wpc EXCEPT ![w] = "notify"]
    BY <1>2 DEF Socket
  <2>2. UNCHANGED <<barrier, cpc, asked, told, mq, bytes, started, should_stop, cur_cookie,
                    ready, pending, up, requests, spc, ended>>
    BY DEF Socket
  <2> QED
    BY <2>1, <2>2, SocketFindsIInv
<1> QED
  BY <1>1, <1>2

LEMMA NotifyIInv ==
  ASSUME IInv, NEW w \in Workers, NotifyWrite(w) \/ NotifyCount(w)
  PROVE  IInv'
<1> USE DataStoreProxyAssumption DEF WGoto
<1>a. found[w] \in Clients /\ found[w] # NoClient /\ busy[found[w]] = 1
  BY DEF IInv, ProxyTypeOK, AtWorker, NotifyWrite, NotifyCount
<1>b. \A v \in Workers : \A q \in pending[v] : q.c = found[w] => v = w
  BY <1>a DEF IInv, CookieInv, AtWorker
<1>c. \A v \in Workers \ {w} : found[v] # found[w]
  BY <1>a, <1>b DEF IInv, AtWorker
<1>d. found[w] \notin ToSet(mq)
  BY <1>a DEF IInv, QueueInv, AtWorker
<1>1. CASE NotifyWrite(w)
  <2> USE <1>1 DEF NotifyWrite
  <2>1. ProxyTypeOK'
    <3>1. told' \in [Clients -> Nat] /\ wpc' \in [Workers -> WorkerLabels]
      BY <1>a DEF IInv, ProxyTypeOK, WorkerLabels, Busy
    <3> QED
      BY <3>1 DEF IInv, ProxyTypeOK, netVars
  <2>2. (\A d \in Clients : AtClient(d))'
    <3>1. /\ UNCHANGED <<cpc, asked, reply, busy>>
          /\ \A d \in Clients : told'[d] = IF d = found[w] THEN told[d] + 1 ELSE told[d]
      BY <1>a DEF IInv, ProxyTypeOK
    <3>2. /\ cpc[found[w]] = "wait" /\ told[found[w]] = 0
          /\ reply[found[w]] = <<found[w], asked[found[w]]>>
      BY DEF IInv, AtWorker
    <3> QED
      BY <3>1, <3>2 DEF IInv, AtClient
  <2>3. QueueInv'
    BY <1>a, <1>d DEF IInv, ProxyTypeOK, QueueInv, netVars
  <2>4. CookieInv'
    BY DEF IInv, CookieInv, netVars
  <2>5. (\A v \in Workers : AtWorker(v))'
    BY <1>a, <1>b, <1>c DEF IInv, ProxyTypeOK, AtWorker, netVars
  <2> QED
    BY <2>1, <2>2, <2>3, <2>4, <2>5 DEF IInv
<1>2. CASE NotifyCount(w)
  <2> USE <1>2 DEF NotifyCount
  <2>0. \A v \in Workers : pending'[v] = {q \in pending[v] : q.c # found[w]}
    BY <1>b DEF IInv, ProxyTypeOK
  <2>1. ProxyTypeOK'
    BY <1>a, <2>0 DEF IInv, ProxyTypeOK, WorkerLabels, Busy, netVars
  <2>2. (\A d \in Clients : AtClient(d))'
    BY <1>a DEF IInv, ProxyTypeOK, AtClient, AtWorker, netVars
  <2>3. QueueInv'
    BY <1>a, <1>d, <2>0 DEF IInv, ProxyTypeOK, QueueInv, netVars
  <2>4. CookieInv'
    BY <2>0 DEF IInv, CookieInv, netVars
  <2>5. (\A v \in Workers : AtWorker(v))'
    BY <1>a, <1>c, <2>0 DEF IInv, ProxyTypeOK, AtWorker, netVars
  <2> QED
    BY <2>1, <2>2, <2>3, <2>4, <2>5 DEF IInv
<1> QED
  BY <1>1, <1>2

LEMMA ServeIInv == ASSUME IInv, Serve PROVE IInv'
<1> DEFINE m == Process(Head(requests))
<1>a. /\ requests \in Seq(Requests) /\ replies \in Seq(Replies) /\ requests # <<>>
      /\ requests' = Tail(requests) /\ replies' = Append(replies, m)
  BY DEF IInv, ProxyTypeOK, Serve
<1>b. /\ requests' \in Seq(Requests) /\ ToSet(requests') \subseteq ToSet(requests)
      /\ Head(requests) \in ToSet(requests) /\ Head(requests) \in Requests
  BY <1>a, TailFacts
<1>c. m \in Replies /\ m.cookie = Head(requests).cookie /\ m.to = Head(requests).request
  BY <1>b DEF Process, Requests, Replies
<1> HIDE DEF m
<1>d. replies' \in Seq(Replies) /\ ToSet(replies') = ToSet(replies) \cup {m}
  BY <1>a, <1>c, AppendFacts
<1>e. UNCHANGED <<barrier, cpc, asked, reply, told, busy, mq, bytes, started, should_stop,
                  cur_cookie, wpc, ready, pending, found, up, spc, ended>>
  BY DEF Serve, clientVars, workerVars
<1>1. ProxyTypeOK'
  BY <1>b, <1>d, <1>e DEF IInv, ProxyTypeOK
<1>2. (\A d \in Clients : AtClient(d))'
  BY <1>e DEF IInv, AtClient
<1>3. QueueInv'
  BY <1>e DEF IInv, QueueInv
<1>4. CookieInv'
  BY <1>b, <1>c, <1>d, <1>e DEF IInv, CookieInv
<1>5. (\A v \in Workers : AtWorker(v))'
  BY <1>e DEF IInv, AtWorker
<1> QED
  BY <1>1, <1>2, <1>3, <1>4, <1>5 DEF IInv

LEMMA ServerGoneIInv == ASSUME IInv, ServerGone PROVE IInv'
<1>a. requests' \in Seq(Requests) /\ ToSet(requests') = {}
  BY EmptyFacts DEF ServerGone
<1>b. up' = FALSE /\ UNCHANGED <<barrier, cpc, asked, reply, told, busy, mq, bytes, started,
        should_stop, cur_cookie, wpc, ready, pending, found, replies, spc, ended>>
  BY DEF ServerGone, clientVars, workerVars
<1>1. ProxyTypeOK'
  BY <1>a, <1>b DEF IInv, ProxyTypeOK
<1>2. (\A d \in Clients : AtClient(d))'
  BY <1>b DEF IInv, AtClient
<1>3. QueueInv'
  BY <1>b DEF IInv, QueueInv
<1>4. CookieInv'
  BY <1>a, <1>b DEF IInv, CookieInv
<1>5. (\A v \in Workers : AtWorker(v))'
  BY <1>b DEF IInv, AtWorker
<1> QED
  BY <1>1, <1>2, <1>3, <1>4, <1>5 DEF IInv

(* What shutdown() does, or nothing.                                       *)
LEMMA ShutdownIInv ==
  ASSUME IInv, ShutdownFlag \/ ShutdownNotify \/ ShutdownWait \/ UNCHANGED proxyVars
  PROVE  IInv'
<1>a. UNCHANGED <<barrier, cpc, asked, reply, told, busy, mq, started, cur_cookie, wpc, ready,
                  pending, found, up, requests, replies>>
  BY DEF ShutdownFlag, ShutdownNotify, ShutdownWait, proxyVars, clientVars, workerVars, netVars
<1>b. /\ should_stop' \in BOOLEAN /\ spc' \in {"idle", "notify", "wait", "done"} /\ ended' \in Nat
      /\ bytes' \in Nat /\ bytes' >= bytes
  <2> USE DEF IInv, ProxyTypeOK
  <2>1. CASE ShutdownFlag
    BY <2>1 DEF ShutdownFlag
  <2>2. CASE ShutdownNotify
    BY <2>2 DEF ShutdownNotify, workerVars
  <2>3. CASE ShutdownWait
    BY <2>3 DEF ShutdownWait, workerVars
  <2>4. CASE UNCHANGED proxyVars
    BY <2>4 DEF proxyVars, workerVars
  <2> QED
    BY <2>1, <2>2, <2>3, <2>4
<1>c. Len(mq) \in Nat
  BY LenProperties DEF IInv, ProxyTypeOK
<1>1. ProxyTypeOK'
  BY <1>a, <1>b DEF IInv, ProxyTypeOK
<1>2. (\A d \in Clients : AtClient(d))'
  BY <1>a DEF IInv, AtClient
<1>3. QueueInv'
  BY <1>a, <1>b, <1>c DEF IInv, ProxyTypeOK, QueueInv
<1>4. CookieInv'
  BY <1>a DEF IInv, CookieInv
<1>5. (\A v \in Workers : AtWorker(v))'
  BY <1>a DEF IInv, AtWorker
<1> QED
  BY <1>1, <1>2, <1>3, <1>4, <1>5 DEF IInv

LEMMA InitIInv == ASSUME ProxyInit PROVE IInv
<1> USE DataStoreProxyAssumption DEF ProxyInit
<1>1. ProxyTypeOK
  BY EmptyFacts DEF ProxyTypeOK, ClientLabels, WorkerLabels
<1>2. \A d \in Clients : AtClient(d)
  BY DEF AtClient
<1>3. QueueInv
  BY EmptyFacts DEF QueueInv
<1>4. CookieInv
  BY EmptyFacts DEF CookieInv
<1>5. \A v \in Workers : AtWorker(v)
  BY DEF AtWorker
<1> QED
  BY <1>1, <1>2, <1>3, <1>4, <1>5 DEF IInv

LEMMA StepIInv == ASSUME IInv, [ProxyNext]_proxyVars PROVE IInv'
<1>1. CASE SyncSend \/ SyncRecv \/ SyncRecvNothing \/ release_start_barrier
  BY <1>1, SyncSendIInv, SyncRecvIInv, SyncRecvNothingIInv, ReleaseBarrierIInv
<1>2. ASSUME NEW c \in Clients, Execute(c) \/ StartWorker(c) \/ Push(c) \/ Wake(c) \/ Destroy(c)
      PROVE  IInv'
  BY <1>2, ExecuteIInv, StartWorkerIInv, PushIInv, WakeIInv, DestroyIInv
<1>3. ASSUME NEW w \in Workers, WorkerStep(w) PROVE IInv'
  <2>1. CASE Begin(w) \/ Top(w) \/ Poll(w) \/ PollFails(w) \/ Finish(w)
    BY <2>1, BeginIInv, TopIInv, PollIInv, PollFailsIInv, FinishIInv
  <2>2. CASE Event(w)
    BY <2>2, EventIInv, EventNothingIInv
  <2>3. CASE Socket(w) \/ NotifyWrite(w) \/ NotifyCount(w)
    BY <2>3, SocketIInv, NotifyIInv
  <2> QED
    BY <1>3, <2>1, <2>2, <2>3 DEF WorkerStep
<1>4. CASE Serve \/ ServerGone
  BY <1>4, ServeIInv, ServerGoneIInv
<1>5. CASE ShutdownFlag \/ ShutdownNotify \/ ShutdownWait \/ UNCHANGED proxyVars
  BY <1>5, ShutdownIInv
<1> QED
  BY <1>1, <1>2, <1>3, <1>4, <1>5 DEF ProxyNext

THEOREM AlwaysIInv == ProxySpec => []IInv
<1>1. ProxyInit => IInv
  BY InitIInv
<1>2. IInv /\ [ProxyNext]_proxyVars => IInv'
  BY StepIInv
<1> QED
  BY <1>1, <1>2, PTL DEF ProxySpec

(* A client that is told that its reply is there has the reply to the      *)
(* request it has made, even when two threads of the worker were started.  *)
THEOREM ProxyReplyIsForRequest == ProxySpec => []ReplyIsForRequest
<1>1. IInv => ReplyIsForRequest
  <2> SUFFICES ASSUME IInv, NEW c \in Clients, told[c] > 0 \/ cpc[c] = "destroy"
               PROVE  reply[c] = <<c, asked[c]>>
    BY DEF ReplyIsForRequest
  <2>1. AtClient(c)
    BY DEF IInv
  <2> QED
    BY <2>1 DEF AtClient
<1> QED
  BY <1>1, AlwaysIInv, PTL

(* No worker uses a RequestReply, which is on its client's stack, after    *)
(* execute() has returned.                                                 *)
THEOREM ProxyNoUseAfterReturn == ProxySpec => []NoUseAfterReturn
<1>1. IInv => NoUseAfterReturn
  <2> SUFFICES ASSUME IInv PROVE NoUseAfterReturn
    OBVIOUS
  <2>1. \A c \in ToSet(mq) : cpc[c] = "wait"
    BY DEF IInv, QueueInv
  <2>2. \A w \in Workers : found[w] # NoClient => cpc[found[w]] \in {"wait", "destroy"}
    BY DEF IInv, AtWorker
  <2>3. \A w \in Workers : \A p \in pending[w] : p.c # found[w] => cpc[p.c] = "wait"
    BY DEF IInv, AtWorker
  <2> QED
    BY <2>1, <2>2, <2>3 DEF NoUseAfterReturn
<1> QED
  BY <1>1, AlwaysIInv, PTL

-----------------------------------------------------------------------------
(* A step of a worker that has begun leaves StartInv alone.                *)
LEMMA WorkerStartInv ==
  ASSUME IInv, StartInv, NEW w \in Workers, WorkerStep(w), ~Begin(w)
  PROVE  StartInv'
<1>1. PICK l \in WorkerLabels \ {"none", "begin"} :
        wpc[w] \notin {"none", "begin"} /\ wpc' = [wpc EXCEPT ![w] = l]
  BY DEF WorkerStep, Top, Poll, PollFails, Event, Socket, NotifyWrite, NotifyCount, Finish,
         WGoto, WorkerLabels, Busy
<1>2. UNCHANGED <<barrier, started, cpc>>
  BY DEF WorkerStep, Top, Poll, PollFails, Event, Socket, NotifyWrite, NotifyCount, Finish,
         clientVars
<1>3. /\ \A v \in Workers : wpc'[v] = "none" <=> wpc[v] = "none"
      /\ \A v \in Workers : wpc'[v] = "begin" <=> wpc[v] = "begin"
      /\ started
  BY <1>1 DEF IInv, ProxyTypeOK, StartInv
<1> QED
  BY <1>2, <1>3 DEF StartInv

LEMMA StepStartInv ==
  ASSUME IInv, StartInv, ~RacingStart, [ProxyNext]_proxyVars
  PROVE  StartInv'
<1> USE DataStoreProxyAssumption DEF Goto, WGoto
<1>1. CASE \/ SyncSend \/ SyncRecv \/ SyncRecvNothing \/ release_start_barrier
  <2>1. CASE SyncSend
    BY <2>1 DEF SyncSend, StartInv, IInv, ProxyTypeOK, workerVars
  <2>2. CASE SyncRecv
    BY <2>2 DEF SyncRecv, StartInv, IInv, ProxyTypeOK, workerVars
  <2>3. CASE SyncRecvNothing
    BY <2>3 DEF SyncRecvNothing, StartInv, IInv, ProxyTypeOK, workerVars
  <2>4. CASE release_start_barrier
    BY <2>4 DEF release_start_barrier, StartInv, IInv, ProxyTypeOK, clientVars, workerVars
  <2> QED
    BY <1>1, <2>1, <2>2, <2>3, <2>4
<1>2. ASSUME NEW c \in Clients, Execute(c) PROVE StartInv'
  BY <1>2 DEF Execute, StartInv, IInv, ProxyTypeOK, workerVars
<1>3. ASSUME NEW c \in Clients, StartWorker(c) PROVE StartInv'
  <2>1. PICK w \in Workers : wpc[w] = "none" /\ wpc' = [wpc EXCEPT ![w] = "begin"]
    BY <1>3 DEF StartWorker
  <2>2. /\ UNCHANGED <<barrier, started, told>>
        /\ cpc[c] = "start" /\ cpc' = [cpc EXCEPT ![c] = "push"]
    BY <1>3 DEF StartWorker
  <2>3. /\ ~barrier /\ ~started
        /\ \A v \in Workers : wpc[v] = "none"
        /\ \A d \in Clients : d # c => cpc[d] = "idle"
    BY <2>2 DEF StartInv
  <2>4. /\ wpc'[w] = "begin" /\ cpc'[c] = "push"
        /\ \A v \in Workers : v # w => wpc'[v] = "none"
        /\ \A d \in Clients : d # c => cpc'[d] = "idle"
    BY <2>1, <2>2, <2>3 DEF IInv, ProxyTypeOK
  <2> QED
    BY <2>2, <2>3, <2>4 DEF StartInv
<1>4. ASSUME NEW c \in Clients, Push(c) PROVE StartInv'
  BY <1>4 DEF Push, StartInv, IInv, ProxyTypeOK, workerVars
<1>5. ASSUME NEW c \in Clients, Wake(c) PROVE StartInv'
  BY <1>5 DEF Wake, StartInv, IInv, ProxyTypeOK, AtClient, workerVars
<1>6. ASSUME NEW c \in Clients, Destroy(c) PROVE StartInv'
  BY <1>6 DEF Destroy, StartInv, IInv, ProxyTypeOK, workerVars
<1>7. ASSUME NEW w \in Workers, Begin(w) PROVE StartInv'
  BY <1>7 DEF Begin, StartInv, IInv, ProxyTypeOK, clientVars
<1>8. CASE \/ Serve \/ ServerGone \/ ShutdownFlag \/ ShutdownNotify \/ ShutdownWait
           \/ UNCHANGED proxyVars
  <2>1. UNCHANGED <<barrier, started, cpc, told, wpc>>
    BY <1>8 DEF Serve, ServerGone, ShutdownFlag, ShutdownNotify, ShutdownWait, proxyVars,
                clientVars, workerVars
  <2> QED
    BY <2>1 DEF StartInv
<1> QED
  BY <1>1, <1>2, <1>3, <1>4, <1>5, <1>6, <1>7, <1>8, WorkerStartInv DEF ProxyNext, WorkerStep

LEMMA StepStopInv ==
  ASSUME IInv, StartInv, StopInv, SomewhereInv, ~RacingStart, [ProxyNext]_proxyVars
  PROVE  StopInv'
<1> USE DataStoreProxyAssumption DEF Goto, WGoto
<1>0. Len(mq) \in Nat /\ mq \in Seq(Clients)
  BY LenProperties DEF IInv, ProxyTypeOK
<1>1. CASE \/ SyncSend \/ SyncRecv \/ SyncRecvNothing \/ release_start_barrier
  <2>1. spc = "idle" /\ UNCHANGED <<spc, should_stop, wpc, ended>>
    <3>1. CASE SyncSend
      BY <3>1 DEF SyncSend, StopInv, workerVars
    <3>2. CASE SyncRecv
      BY <3>2 DEF SyncRecv, StopInv, workerVars
    <3>3. CASE SyncRecvNothing
      BY <3>3 DEF SyncRecvNothing, StopInv, workerVars
    <3>4. CASE release_start_barrier
      BY <3>4 DEF release_start_barrier, StopInv, workerVars
    <3> QED
      BY <1>1, <3>1, <3>2, <3>3, <3>4
  <2> QED
    BY <2>1 DEF StopInv
<1>2. ASSUME NEW c \in Clients, Execute(c) PROVE StopInv'
  BY <1>2 DEF Execute, StopInv, workerVars
<1>3. ASSUME NEW c \in Clients, StartWorker(c) PROVE StopInv'
  <2>1. PICK w \in Workers : wpc[w] = "none" /\ wpc' = [wpc EXCEPT ![w] = "begin"]
    BY <1>3 DEF StartWorker
  <2>2. UNCHANGED <<spc, should_stop, ended>> /\ cpc[c] = "start"
    BY <1>3 DEF StartWorker
  <2>3. spc = "idle"
    BY <2>2 DEF StopInv
  <2> QED
    BY <2>1, <2>2, <2>3 DEF StopInv, IInv, ProxyTypeOK
<1>4. ASSUME NEW c \in Clients, Push(c) PROVE StopInv'
  <2>1. spc = "idle"
    BY <1>4 DEF Push, StopInv
  <2> QED
    BY <1>4, <2>1 DEF Push, StopInv, workerVars
<1>5. ASSUME NEW c \in Clients, Wake(c) PROVE StopInv'
  BY <1>5 DEF Wake, StopInv, IInv, ProxyTypeOK, workerVars
<1>6. ASSUME NEW c \in Clients, Destroy(c) PROVE StopInv'
  BY <1>6 DEF Destroy, StopInv, IInv, ProxyTypeOK, workerVars
<1>7. ASSUME NEW w \in Workers, Begin(w) PROVE StopInv'
  <2>1. spc = "idle" /\ \A v \in Workers : v # w => wpc[v] = "none"
    BY <1>7 DEF Begin, StopInv, StartInv
  <2> QED
    BY <1>7, <2>1 DEF Begin, StopInv, IInv, ProxyTypeOK
<1>8. ASSUME NEW w \in Workers, WorkerStep(w), ~Begin(w) PROVE StopInv'
  <2>1. UNCHANGED <<spc, cpc, barrier>>
    BY <1>8 DEF WorkerStep, Top, Poll, PollFails, Event, Socket, NotifyWrite, NotifyCount,
                Finish, clientVars
  <2>2. CASE Top(w)
    BY <2>1, <2>2 DEF Top, MayStop, StopInv, IInv, ProxyTypeOK
  <2>3. CASE Poll(w)
    BY <2>1, <2>3 DEF Poll, MayStop, StopInv, IInv, ProxyTypeOK
  <2>4. CASE PollFails(w)
    BY <2>1, <2>4 DEF PollFails, StopInv, IInv, ProxyTypeOK
  <2>5. CASE Event(w)
    <3>1. UNCHANGED <<should_stop, ended>> /\ wpc' = [wpc EXCEPT ![w] = "socket"]
      BY <2>5 DEF Event
    <3>2. (bytes' = bytes - 1 /\ Len(mq') = Len(mq) - 1) \/ (bytes' = bytes /\ mq' = mq)
      <4>1. CASE mq # <<>>
        BY <1>0, <2>5, <4>1, TailFacts DEF Event
      <4>2. CASE mq = <<>>
        BY <2>5, <4>2 DEF Event
      <4> QED
        BY <4>1, <4>2
    <3>3. bytes > Len(mq) => bytes' > Len(mq')
      <4>1. bytes \in Nat
        BY DEF IInv, ProxyTypeOK
      <4> QED
        BY <1>0, <3>2, <4>1
    <3> QED
      BY <2>1, <3>1, <3>3 DEF StopInv, IInv, ProxyTypeOK
  <2>6. CASE Socket(w) \/ NotifyWrite(w) \/ NotifyCount(w)
    <3>1. UNCHANGED <<should_stop, ended, bytes, mq>>
      BY <2>6 DEF Socket, NotifyWrite, NotifyCount
    <3>2. PICK l \in {"top", "notify", "count"} : wpc' = [wpc EXCEPT ![w] = l]
      BY <2>6 DEF Socket, NotifyWrite, NotifyCount
    <3> QED
      BY <2>1, <3>1, <3>2 DEF StopInv, IInv, ProxyTypeOK
  <2>7. CASE Finish(w)
    BY <2>1, <2>7 DEF Finish, StopInv, IInv, ProxyTypeOK
  <2> QED
    BY <1>8, <2>2, <2>3, <2>4, <2>5, <2>6, <2>7 DEF WorkerStep
<1>9. CASE \/ Serve \/ ServerGone \/ UNCHANGED proxyVars
  <2>1. UNCHANGED <<spc, should_stop, barrier, wpc, cpc, bytes, mq, ended>>
    BY <1>9 DEF Serve, ServerGone, proxyVars, clientVars, workerVars
  <2> QED
    BY <2>1 DEF StopInv
<1>10. CASE ShutdownFlag
  BY <1>10 DEF ShutdownFlag, StopInv, clientVars
<1>11. CASE ShutdownNotify
  BY <1>0, <1>11 DEF ShutdownNotify, StopInv, QueueInv, IInv, ProxyTypeOK, clientVars, workerVars
<1>12. CASE ShutdownWait
  BY <1>12 DEF ShutdownWait, StopInv, clientVars, workerVars
<1> QED
  BY <1>1, <1>2, <1>3, <1>4, <1>5, <1>6, <1>7, <1>8, <1>9, <1>10, <1>11, <1>12
     DEF ProxyNext, WorkerStep

(* Steps that move no request: nothing awaited, queued or on the           *)
(* connection goes away, and nobody begins to wait.                        *)
LEMMA SomewhereFrame ==
  ASSUME IInv, SomewhereInv,
         UNCHANGED <<pending, found, mq, told>>,
         \A w \in Workers : wpc[w] \in Busy => wpc'[w] \in Busy \/ pending[w] = {},
         \A c \in Clients : cpc'[c] = "wait" => cpc[c] = "wait",
         up' => up,
         up' => \A w \in Workers : \A p \in pending[w], m \in ToSet(requests) \cup ToSet(replies) :
                  m.cookie = p.cookie =>
                    \E n \in ToSet(requests') \cup ToSet(replies') : n.cookie = p.cookie
  PROVE  SomewhereInv'
<1>1. \A w \in Workers : pending[w] # {} => wpc'[w] \in Busy
  BY DEF SomewhereInv
<1>2. \A c \in Clients : cpc'[c] = "wait" =>
        c \in ToSet(mq) \/ told[c] > 0 \/ \E w \in Workers : \E p \in pending[w] : p.c = c
  BY DEF SomewhereInv
<1>3. up' => \A w \in Workers : \A p \in pending[w] :
        p.c = found[w] \/ \E n \in ToSet(requests') \cup ToSet(replies') : n.cookie = p.cookie
  BY DEF SomewhereInv
<1> QED
  BY <1>1, <1>2, <1>3 DEF SomewhereInv

LEMMA ClientSomewhereInv ==
  ASSUME IInv, StartInv, SomewhereInv, NEW c \in Clients,
         Execute(c) \/ StartWorker(c) \/ Push(c) \/ Wake(c) \/ Destroy(c)
  PROVE  SomewhereInv'
<1> USE DataStoreProxyAssumption DEF Goto, WGoto
<1>1. CASE Execute(c)
  <2>1. /\ UNCHANGED <<pending, found, mq, told, wpc, up, requests, replies>>
        /\ \A d \in Clients : cpc'[d] = "wait" => cpc[d] = "wait"
    BY <1>1 DEF Execute, IInv, ProxyTypeOK, workerVars, netVars
  <2> QED
    BY <2>1, SomewhereFrame
<1>2. CASE StartWorker(c)
  <2>1. PICK w \in Workers : wpc[w] = "none" /\ wpc' = [wpc EXCEPT ![w] = "begin"]
    BY <1>2 DEF StartWorker
  <2>2. /\ UNCHANGED <<pending, found, mq, told, up, requests, replies>>
        /\ \A d \in Clients : cpc'[d] = "wait" => cpc[d] = "wait"
        /\ \A v \in Workers : wpc[v] \in Busy => wpc'[v] \in Busy
    BY <1>2, <2>1 DEF StartWorker, IInv, ProxyTypeOK, netVars, Busy
  <2> QED
    BY <2>2, SomewhereFrame
<1>3. CASE Push(c)
  <2>1. mq \in Seq(Clients) /\ mq' = Append(mq, c)
    BY <1>3 DEF Push, IInv, ProxyTypeOK
  <2>2. ToSet(mq') = ToSet(mq) \cup {c}
    BY <2>1, AppendFacts
  <2>3. /\ UNCHANGED <<pending, found, told, wpc, up, requests, replies>>
        /\ \A d \in Clients : cpc'[d] = "wait" => cpc[d] = "wait" \/ d = c
    BY <1>3 DEF Push, IInv, ProxyTypeOK, workerVars, netVars
  <2> QED
    BY <2>2, <2>3 DEF SomewhereInv
<1>4. CASE Wake(c)
  <2>1. /\ UNCHANGED <<pending, found, mq, wpc, up, requests, replies>>
        /\ cpc'[c] = "destroy"
        /\ \A d \in Clients : d # c => cpc'[d] = cpc[d] /\ told'[d] = told[d]
    BY <1>4 DEF Wake, IInv, ProxyTypeOK, workerVars, netVars
  <2> QED
    BY <2>1 DEF SomewhereInv
<1>5. CASE Destroy(c)
  <2>1. /\ UNCHANGED <<pending, found, mq, told, wpc, up, requests, replies>>
        /\ \A d \in Clients : cpc'[d] = "wait" => cpc[d] = "wait"
    BY <1>5 DEF Destroy, IInv, ProxyTypeOK, workerVars, netVars
  <2> QED
    BY <2>1, SomewhereFrame
<1> QED
  BY <1>1, <1>2, <1>3, <1>4, <1>5

LEMMA SyncSomewhereInv ==
  ASSUME IInv, StartInv, SomewhereInv,
         SyncSend \/ SyncRecv \/ SyncRecvNothing \/ release_start_barrier
  PROVE  SomewhereInv'
<1> USE DataStoreProxyAssumption DEF Goto
<1>1. UNCHANGED <<pending, found, mq, told, wpc, up>>
  BY DEF SyncSend, SyncRecv, SyncRecvNothing, release_start_barrier, clientVars, workerVars, netVars
<1>2. barrier
  BY DEF SyncSend, SyncRecv, SyncRecvNothing, release_start_barrier, StartInv
<1>3. \A w \in Workers : pending[w] = {}
  BY <1>2 DEF StartInv, SomewhereInv, Busy
<1>4. \A c \in Clients : cpc'[c] # "wait"
  <2>1. \A c \in Clients : cpc[c] # "wait"
    BY <1>2 DEF StartInv
  <2> QED
    BY <2>1 DEF SyncSend, SyncRecv, SyncRecvNothing, release_start_barrier, clientVars, IInv,
                ProxyTypeOK
<1> QED
  BY <1>1, <1>3, <1>4 DEF SomewhereInv

LEMMA WorkerSomewhereInv ==
  ASSUME IInv, StartInv, SomewhereInv, NEW w \in Workers, WorkerStep(w)
  PROVE  SomewhereInv'
<1> USE DataStoreProxyAssumption DEF WGoto
<1>1. CASE Begin(w) \/ Top(w) \/ Poll(w) \/ PollFails(w) \/ Finish(w)
  <2>1. UNCHANGED <<pending, found, mq, told, cpc, up, requests, replies>>
    BY <1>1 DEF Begin, Top, Poll, PollFails, Finish, clientVars, netVars
  <2>2. \A v \in Workers : wpc[v] \in Busy => wpc'[v] \in Busy \/ pending[v] = {}
    <3>1. \A v \in Workers : v # w => wpc'[v] = wpc[v]
      BY <1>1 DEF Begin, Top, Poll, PollFails, Finish, IInv, ProxyTypeOK
    <3>2. wpc[w] \in Busy => wpc'[w] \in Busy \/ pending[w] = {}
      BY <1>1 DEF Begin, Top, Poll, PollFails, Finish, MayStop, IInv, ProxyTypeOK, Busy
    <3> QED
      BY <3>1, <3>2
  <2> QED
    BY <2>1, <2>2, SomewhereFrame
<1>2. CASE Event(w) /\ ~("mq" \in ready[w] /\ mq # <<>>)
  <2>1. UNCHANGED <<pending, found, mq, told, cpc, up, requests, replies>>
    BY <1>2 DEF Event, clientVars
  <2>2. \A v \in Workers : wpc[v] \in Busy => wpc'[v] \in Busy
    BY <1>2 DEF Event, Busy, IInv, ProxyTypeOK
  <2> QED
    BY <2>1, <2>2, SomewhereFrame
<1>3. CASE Event(w) /\ "mq" \in ready[w] /\ mq # <<>>
  <2> DEFINE c == Head(mq)
             m == [cookie |-> gen_cookie, request |-> <<c, asked[c]>>]
             p == [cookie |-> gen_cookie, c |-> c]
  <2>1. c \in Clients /\ ToSet(mq) = ToSet(mq') \cup {c}
    <3>1. mq \in Seq(Clients) /\ mq' = Tail(mq)
      BY <1>3 DEF IInv, ProxyTypeOK, Event
    <3> QED
      BY <1>3, <3>1, TailFacts
  <2>2. m \in Requests
    <3>1. asked[c] \in Nat /\ gen_cookie \in Nat
      BY <2>1 DEF IInv, ProxyTypeOK, gen_cookie
    <3>2. <<c, asked[c]>> \in Asked
      BY <2>1, <3>1 DEF Asked
    <3> HIDE DEF c
    <3> QED
      BY <3>1, <3>2 DEF Requests
  <2>3. ToSet(requests') = ToSet(requests) \cup (IF up THEN {m} ELSE {})
    <3>1. requests \in Seq(Requests) /\ up \in BOOLEAN /\ Send(m)
      BY <1>3 DEF IInv, ProxyTypeOK, Event
    <3> QED
      BY <2>2, <3>1, SendFacts
  <2>4. /\ UNCHANGED <<found, told, cpc, up, replies>>
        /\ pending' = [pending EXCEPT ![w] = {q \in @ : q.cookie # gen_cookie} \cup {p}]
        /\ wpc' = [wpc EXCEPT ![w] = "socket"]
    BY <1>3 DEF Event, clientVars
  <2>5. \A q \in pending[w] : q.cookie # gen_cookie
    BY DEF IInv, ProxyTypeOK, CookieInv, gen_cookie
  <2>6. m.cookie = gen_cookie /\ p.cookie = gen_cookie /\ p.c = c
    OBVIOUS
  <2> HIDE DEF c, m, p
  <2>7. /\ \A v \in Workers : \A q \in pending'[v] : q \in pending[v] \/ q = p
        /\ \A v \in Workers : pending[v] \subseteq pending'[v]
        /\ \A v \in Workers : v # w => pending'[v] = pending[v] /\ wpc'[v] = wpc[v]
        /\ p \in pending'[w] /\ wpc'[w] = "socket"
    BY <2>4, <2>5 DEF IInv, ProxyTypeOK
  <2>8. \A v \in Workers : pending'[v] # {} => wpc'[v] \in Busy
    BY <2>7 DEF SomewhereInv, Busy
  <2>9. \A d \in Clients : cpc'[d] = "wait" =>
         d \in ToSet(mq') \/ told'[d] > 0 \/ \E v \in Workers : \E q \in pending'[v] : q.c = d
    BY <2>1, <2>4, <2>6, <2>7 DEF SomewhereInv
  <2>10. up' => \A v \in Workers : \A q \in pending'[v] :
           \/ q.c = found'[v]
           \/ \E n \in ToSet(requests') \cup ToSet(replies') : n.cookie = q.cookie
    BY <2>3, <2>4, <2>6, <2>7 DEF SomewhereInv
  <2> QED
    BY <2>8, <2>9, <2>10 DEF SomewhereInv
<1>4. CASE Socket(w)
  <2>1. UNCHANGED <<pending, mq, told, cpc, up, requests>>
    BY <1>4 DEF Socket
  <2>2. PICK l \in {"top", "notify"} : wpc' = [wpc EXCEPT ![w] = l]
    BY <1>4 DEF Socket
  <2>3. \A v \in Workers : wpc[v] \in Busy => wpc'[v] \in Busy
    BY <2>2 DEF Busy, IInv, ProxyTypeOK
  <2>4. \A v \in Workers : v # w => pending[v] = {}
    BY <1>4 DEF Socket, StartInv, SomewhereInv, Busy
  <2>5. found[w] = NoClient
    BY <1>4 DEF Socket, IInv, AtWorker
  <2>6. \A q \in pending[w] : q.c # found[w]
    BY <2>5, PendingWaits
  <2>7. up' => \A q \in pending[w] :
          q.c = found'[w] \/ \E n \in ToSet(requests') \cup ToSet(replies') : n.cookie = q.cookie
    <3>1. CASE replies' = replies
      BY <2>1, <2>6, <3>1 DEF SomewhereInv
    <3>2. CASE replies # <<>> /\ replies' = Tail(replies)
      <4>1. ToSet(replies) = ToSet(replies') \cup {Head(replies)}
        <5>1. replies \in Seq(Replies)
          BY DEF IInv, ProxyTypeOK
        <5> QED
          BY <3>2, <5>1, TailFacts
      <4>2. \A q \in pending[w] : q.cookie = Head(replies).cookie => q.c = found'[w]
        <5> SUFFICES ASSUME NEW q \in pending[w], q.cookie = Head(replies).cookie
                     PROVE  q.c = found'[w]
          OBVIOUS
        <5>1. \A o \in pending[w] : o.cookie = q.cookie => o = q
          BY DEF IInv, CookieInv
        <5>2. {o.c : o \in {r \in pending[w] : r.cookie = Head(replies).cookie}} = {q.c}
          BY <5>1
        <5>3. replies' # replies
          <6>1. Len(replies') = Len(replies) - 1 /\ Len(replies) \in Nat
            <7>1. replies \in Seq(Replies)
              BY DEF IInv, ProxyTypeOK
            <7> QED
              BY <3>2, <7>1, TailFacts
          <6> QED
            BY <6>1
        <5> QED
          BY <1>4, <5>2, <5>3 DEF Socket, IInv, ProxyTypeOK
      <4> QED
        BY <2>1, <2>6, <4>1, <4>2 DEF SomewhereInv
    <3> QED
      BY <1>4, <3>1, <3>2 DEF Socket
  <2>8. \A v \in Workers : pending'[v] # {} => wpc'[v] \in Busy
    BY <2>1, <2>3 DEF SomewhereInv
  <2>9. \A d \in Clients : cpc'[d] = "wait" =>
          d \in ToSet(mq') \/ told'[d] > 0 \/ \E v \in Workers : \E q \in pending'[v] : q.c = d
    BY <2>1 DEF SomewhereInv
  <2> QED
    BY <2>1, <2>4, <2>7, <2>8, <2>9 DEF SomewhereInv
<1>5. CASE NotifyWrite(w)
  <2>1. /\ UNCHANGED <<pending, found, mq, cpc, up, requests, replies>>
        /\ wpc' = [wpc EXCEPT ![w] = "count"]
        /\ told' = [told EXCEPT ![found[w]] = @ + 1]
    BY <1>5 DEF NotifyWrite, netVars
  <2>2. \A v \in Workers : wpc[v] \in Busy => wpc'[v] \in Busy
    BY <2>1 DEF Busy, IInv, ProxyTypeOK
  <2>3. \A d \in Clients : told[d] > 0 => told'[d] > 0
    BY <2>1 DEF IInv, ProxyTypeOK
  <2> QED
    BY <2>1, <2>2, <2>3 DEF SomewhereInv
<1>6. CASE NotifyCount(w)
  <2>1. /\ UNCHANGED <<told, mq, cpc, up, requests, replies>>
        /\ wpc[w] = "count" /\ wpc' = [wpc EXCEPT ![w] = "top"]
        /\ pending' = [pending EXCEPT ![w] = {p \in @ : p.c # found[w]}]
        /\ found' = [found EXCEPT ![w] = NoClient]
    BY <1>6 DEF NotifyCount, netVars
  <2>2. \A v \in Workers : wpc[v] \in Busy => wpc'[v] \in Busy
    BY <2>1 DEF Busy, IInv, ProxyTypeOK
  <2>3. /\ found[w] \in Clients /\ (cpc[found[w]] = "wait" => told[found[w]] = 1)
    BY <2>1 DEF IInv, ProxyTypeOK, AtWorker
  <2>4. /\ \A v \in Workers : pending'[v] \subseteq pending[v]
        /\ \A v \in Workers : \A p \in pending[v] : p \in pending'[v] \/ p.c = found[w]
        /\ \A v \in Workers : v # w => found'[v] = found[v]
        /\ \A p \in pending'[w] : p.c # found[w]
    BY <2>1 DEF IInv, ProxyTypeOK
  <2>5. \A v \in Workers : pending'[v] # {} => wpc'[v] \in Busy
    BY <2>2, <2>4 DEF SomewhereInv
  <2>6. \A d \in Clients : cpc'[d] = "wait" =>
          d \in ToSet(mq') \/ told'[d] > 0 \/ \E v \in Workers : \E q \in pending'[v] : q.c = d
    BY <2>1, <2>3, <2>4 DEF SomewhereInv
  <2>7. up' => \A v \in Workers : \A q \in pending'[v] :
          \/ q.c = found'[v]
          \/ \E n \in ToSet(requests') \cup ToSet(replies') : n.cookie = q.cookie
    BY <2>1, <2>4 DEF SomewhereInv
  <2> QED
    BY <2>5, <2>6, <2>7 DEF SomewhereInv
<1> QED
  BY <1>1, <1>2, <1>3, <1>4, <1>5, <1>6 DEF WorkerStep

LEMMA NetSomewhereInv ==
  ASSUME IInv, SomewhereInv,
         \/ Serve \/ ServerGone \/ ShutdownFlag \/ ShutdownNotify \/ ShutdownWait
         \/ UNCHANGED proxyVars
  PROVE  SomewhereInv'
<1>1. UNCHANGED <<pending, found, mq, told, cpc, wpc>>
  BY DEF Serve, ServerGone, ShutdownFlag, ShutdownNotify, ShutdownWait, proxyVars, clientVars,
         workerVars
<1>2. CASE Serve
  <2>1. /\ requests \in Seq(Requests) /\ replies \in Seq(Replies) /\ requests # <<>>
        /\ requests' = Tail(requests) /\ replies' = Append(replies, Process(Head(requests)))
        /\ up' = up
    BY <1>2 DEF IInv, ProxyTypeOK, Serve
  <2>2. ToSet(requests) = ToSet(requests') \cup {Head(requests)} /\ Head(requests) \in Requests
    BY <2>1, TailFacts
  <2>3. Process(Head(requests)) \in Replies /\ Process(Head(requests)).cookie = Head(requests).cookie
    BY <2>2 DEF Process, Requests, Replies
  <2>4. ToSet(replies') = ToSet(replies) \cup {Process(Head(requests))}
    BY <2>1, <2>3, AppendFacts
  <2> QED
    BY <1>1, <2>1, <2>2, <2>3, <2>4, SomewhereFrame
<1>3. CASE ServerGone
  BY <1>1, <1>3, SomewhereFrame DEF ServerGone
<1>4. CASE ~Serve /\ ~ServerGone
  <2>1. UNCHANGED <<up, requests, replies>>
    BY <1>4 DEF ShutdownFlag, ShutdownNotify, ShutdownWait, proxyVars, netVars
  <2> QED
    BY <1>1, <2>1, SomewhereFrame
<1> QED
  BY <1>2, <1>3, <1>4

LEMMA StepLInv ==
  ASSUME IInv, LInv, ~RacingStart, [ProxyNext]_proxyVars
  PROVE  LInv'
<1>1. StartInv' /\ StopInv'
  BY StepStartInv, StepStopInv DEF LInv
<1>2. SomewhereInv'
  BY SyncSomewhereInv, ClientSomewhereInv, WorkerSomewhereInv, NetSomewhereInv DEF LInv, ProxyNext
<1> QED
  BY <1>1, <1>2 DEF LInv

LEMMA AlwaysLInv == ASSUME ~RacingStart PROVE ProxySpec => []LInv
<1>1. ProxyInit => LInv
  <2> SUFFICES ASSUME ProxyInit PROVE LInv
    OBVIOUS
  <2>1. StartInv
    BY DEF ProxyInit, StartInv
  <2>2. StopInv
    BY DEF ProxyInit, StopInv
  <2>3. SomewhereInv
    BY DEF ProxyInit, SomewhereInv
  <2> QED
    BY <2>1, <2>2, <2>3 DEF LInv
<1>2. IInv /\ LInv /\ [ProxyNext]_proxyVars => LInv'
  BY StepLInv
<1> QED
  BY <1>1, <1>2, AlwaysIInv, PTL DEF ProxySpec

(* If nobody calls while the worker starts, then as long as the server is  *)
(* there and the worker is not to stop, whoever waits has a request that   *)
(* is queued and seen, or at the server with a cookie that the worker      *)
(* knows, or is being told.                                                *)
THEOREM ProxyRequestIsNeverLost ==
  ASSUME ~RacingStart PROVE ProxySpec => []RequestIsNeverLost
<1>1. IInv /\ LInv => RequestIsNeverLost
  <2> SUFFICES ASSUME IInv, LInv, up, ~should_stop, NEW c \in Clients, cpc[c] = "wait"
               PROVE  Queued(c) \/ AtServer(c) \/ Answered(c)
    BY DEF RequestIsNeverLost
  <2>1. CASE c \in ToSet(mq)
    <3>1. PICK w \in Workers : wpc[w] # "none"
      BY DEF LInv, StartInv
    <3>2. w \in Working
      BY <3>1 DEF LInv, StopInv, Working
    <3> QED
      BY <2>1, <3>2 DEF IInv, QueueInv, Queued
  <2>2. CASE told[c] > 0
    BY <2>2 DEF Answered
  <2>3. ASSUME NEW w \in Workers, NEW p \in pending[w], p.c = c, ~(told[c] > 0)
        PROVE  AtServer(c) \/ Answered(c)
    <3>1. wpc[w] \in Busy /\ w \in Working
      BY DEF LInv, SomewhereInv, Working, Busy
    <3>2. CASE c = found[w]
      <4>1. found[w] # NoClient
        BY <3>2, DataStoreProxyAssumption
      <4>2. wpc[w] = "notify"
        BY <2>3, <3>2, <4>1 DEF IInv, AtWorker
      <4> QED
        BY <3>2, <4>2 DEF Answered
    <3>3. CASE c # found[w]
      BY <2>3, <3>1, <3>3 DEF LInv, SomewhereInv, AtServer
    <3> QED
      BY <3>2, <3>3
  <2> QED
    BY <2>1, <2>2, <2>3 DEF LInv, SomewhereInv
<1> QED
  BY <1>1, AlwaysIInv, AlwaysLInv, PTL

(* If the proxy is not shut down while the worker starts, shutdown() of a  *)
(* worker that was started finds it awake, with a byte to wake it, or      *)
(* ended.                                                                  *)
THEOREM ProxyShutdownIsSeen ==
  ASSUME ~RacingStart PROVE ProxySpec => []ShutdownIsSeen
<1>1. IInv /\ LInv => ShutdownIsSeen
  <2> SUFFICES ASSUME IInv, LInv, spc = "wait", started, ~(ended > 0)
               PROVE  Working # {} /\ should_stop /\ bytes > 0
    BY DEF ShutdownIsSeen
  <2>1. PICK w \in Workers : wpc[w] \notin {"none", "begin"}
    BY DEF LInv, StartInv
  <2>2. wpc[w] # "done" /\ should_stop /\ bytes > Len(mq)
    BY <2>1 DEF LInv, StopInv
  <2>3. bytes > 0
    BY <2>2, LenProperties DEF IInv, ProxyTypeOK
  <2> QED
    BY <2>1, <2>2, <2>3 DEF Working
<1> QED
  BY <1>1, AlwaysIInv, AlwaysLInv, PTL

-----------------------------------------------------------------------------
(* A DurableStore: what holds whatever goes on.                            *)
Sessions == {"none", "create", "down", "open", "up", "closing"}
Stores == [open_txid_ : BOOLEAN, durably_close_next_transaction_ : BOOLEAN,
           num_nondurable_transactions_ : Nat, max_nondurable_transactions_ : Nat]

StoreTypeOK ==
  /\ driver \in {"sqlite", "mysql"}
  /\ session \in Sessions
  /\ cleanFile \in BOOLEAN /\ clean_shutdown \in BOOLEAN
  /\ store \in Stores
  /\ tpc \in [Threads -> {"idle", "begin", "tx", "end", "ended"}]
  /\ txn \in [Threads -> 0..MaxTx]
  /\ begun \in 0..MaxTx
  /\ done \subseteq 1..begun /\ wanted \subseteq 1..begun
  /\ sqlOpen \in BOOLEAN
  /\ inWork \in [Txs -> Nat] /\ inDb \in [Txs -> Nat]

(* A thread inside a transaction, which nobody else has and which is not   *)
(* ended yet.                                                              *)
InTransaction(t) ==
  tpc[t] # "idle" =>
    /\ session = "up"
    /\ txn[t] \in 1..begun /\ txn[t] \notin done
    /\ \A u \in Threads : tpc[u] # "idle" /\ txn[u] = txn[t] => u = t
    /\ tpc[t] \in {"end", "ended"} => inWork[txn[t]] + inDb[txn[t]] > 0

(* What was ended is with the database, committed or not.                  *)
DoneIsThere ==
  /\ \A x \in done : inWork[x] + inDb[x] > 0
  /\ session \notin {"up"} => Missing = {}

BaseInv ==
  /\ StoreTypeOK
  /\ \A t \in Threads : InTransaction(t)
  /\ DoneIsThere

(* .ds_clean is there only from the commit of the destructor until the     *)
(* next session has looked for it.                                         *)
CleanInv ==
  /\ session \in {"none", "create"} => lastLost = {}
  /\ cleanFile => /\ session \in {"closing", "down", "open"}
                  /\ session # "closing" => lastLost = {}
  /\ clean_shutdown => session \in {"up", "closing"} /\ lastLost = {}

(* One transaction at a time: the database has all of it or nothing.       *)
Apart(t) ==
  tpc[t] # "idle" =>
    /\ txn[t] = begun
    /\ \A u \in Threads : tpc[u] # "idle" => u = t
OfTransaction(t) ==
  LET x == txn[t] IN
    /\ tpc[t] = "begin" => /\ inWork[x] = 0 /\ inDb[x] = 0 /\ x \notin wanted
                           /\ ~store.durably_close_next_transaction_ /\ ~store.open_txid_
    /\ tpc[t] \in {"tx", "end"} => /\ sqlOpen /\ inDb[x] = 0
                                   /\ x \in wanted => store.durably_close_next_transaction_
    /\ tpc[t] = "end" => inWork[x] = Puts
    /\ tpc[t] = "ended" =>
         IF store.durably_close_next_transaction_
         THEN Missing = {} /\ inDb[x] = Puts /\ inWork[x] = 0
         ELSE x \notin wanted /\ inDb[x] = 0 /\ inWork[x] = Puts

OfDatabase(x) ==
  /\ inDb[x] \in {0, Puts}
  /\ inWork[x] \in {0, Puts} \/ \E t \in Threads : tpc[t] = "tx" /\ txn[t] = x
  /\ inWork[x] # 0 => inDb[x] = 0
  /\ x > begun => inWork[x] = 0 /\ inDb[x] = 0

(* The count bounds what a crash would take, and is itself bounded.        *)
Counted ==
  /\ IF \E t \in Threads : tpc[t] \in {"end", "ended"}
     THEN /\ Cardinality(Missing) + 1 <= store.num_nondurable_transactions_
          /\ store.num_nondurable_transactions_ <= store.max_nondurable_transactions_ + 1
          /\ ~store.durably_close_next_transaction_ =>
               store.num_nondurable_transactions_ <= store.max_nondurable_transactions_
     ELSE /\ Cardinality(Missing) <= store.num_nondurable_transactions_
          /\ store.num_nondurable_transactions_ <= store.max_nondurable_transactions_
  /\ (\A t \in Threads : tpc[t] = "idle") =>
       ~store.open_txid_ /\ ~store.durably_close_next_transaction_

MissingAreLast ==
  \A x \in Missing : x \notin wanted /\ \A y \in done : y > x => y \in Missing

WholeInv ==
  /\ \A t \in Threads : Apart(t) /\ OfTransaction(t)
  /\ \A x \in Txs : OfDatabase(x)
  /\ \A x \in done : inWork[x] + inDb[x] = Puts
  /\ MissingAreLast
  /\ Counted

-----------------------------------------------------------------------------
LEMMA NewStoreType == \A max \in Nat : NewStore(max) \in Stores
BY DEF NewStore, Stores

LEMMA NothingType == Nothing \in [Txs -> Nat] /\ \A x \in Txs : Nothing[x] = 0
BY DEF Nothing

LEMMA BegunIsTx ==
  ASSUME StoreTypeOK
  PROVE  /\ begun \in Nat /\ MaxTx \in Nat /\ begun <= MaxTx /\ 1..begun \subseteq Txs
         /\ done \subseteq Txs
BY DurableStoreAssumption DEF StoreTypeOK, Txs

(* COMMIT moves what was put, and nothing is lost.                         *)
LEMMA CommitFacts ==
  ASSUME StoreTypeOK, Commit
  PROVE  /\ inWork' \in [Txs -> Nat] /\ inDb' \in [Txs -> Nat]
         /\ \A x \in Txs : inWork'[x] = 0 /\ inDb'[x] = inWork[x] + inDb[x]
<1>1. inWork \in [Txs -> Nat] /\ inDb \in [Txs -> Nat]
  BY DEF StoreTypeOK
<1>2. inWork' = Nothing /\ inDb' = [x \in Txs |-> inDb[x] + inWork[x]]
  BY DEF Commit
<1>3. \A x \in Txs : inDb[x] \in Nat /\ inWork[x] \in Nat /\ inDb[x] + inWork[x] = inWork[x] + inDb[x]
  BY <1>1
<1> QED
  BY <1>2, <1>3, NothingType

(* What a call that ends or begins does to the database.                   *)
Kept ==
  /\ inWork' \in [Txs -> Nat] /\ inDb' \in [Txs -> Nat]
  /\ \A x \in Txs : inWork'[x] + inDb'[x] = inWork[x] + inDb[x] /\ inDb'[x] >= inDb[x]

LEMMA CommitKeeps == ASSUME StoreTypeOK, Commit PROVE Kept
<1>1. /\ inWork' \in [Txs -> Nat] /\ inDb' \in [Txs -> Nat]
      /\ \A x \in Txs : inWork'[x] = 0 /\ inDb'[x] = inWork[x] + inDb[x]
  BY CommitFacts
<1>2. \A x \in Txs : inWork[x] \in Nat /\ inDb[x] \in Nat
  BY DEF StoreTypeOK
<1>3. \A a, b \in Nat : 0 + (a + b) = a + b /\ a + b >= b
  OBVIOUS
<1> QED
  BY <1>1, <1>2, <1>3 DEF Kept

LEMMA SameKeeps == ASSUME StoreTypeOK, UNCHANGED <<inWork, inDb>> PROVE Kept
<1>1. \A x \in Txs : inWork[x] \in Nat /\ inDb[x] \in Nat
  BY DEF StoreTypeOK
<1> QED
  BY <1>1 DEF StoreTypeOK, Kept

LEMMA EndKeeps ==
  ASSUME StoreTypeOK, NEW be_durable \in BOOLEAN, impl_end_transaction(be_durable)
  PROVE  Kept /\ sqlOpen' \in BOOLEAN
<1>1. CASE Commit /\ sqlOpen' = FALSE
  BY <1>1, CommitKeeps
<1>2. CASE UNCHANGED dbVars
  BY <1>2, SameKeeps DEF dbVars, StoreTypeOK
<1> QED
  BY <1>1, <1>2 DEF impl_end_transaction

(* Once all is committed nothing that was ended is missing.                *)
LEMMA CommitLeavesNone ==
  ASSUME StoreTypeOK, DoneIsThere, Commit, UNCHANGED done
  PROVE  Missing' = {}
<1>1. \A x \in Txs : inDb'[x] = inWork[x] + inDb[x]
  BY CommitFacts
<1>2. done \subseteq Txs
  BY BegunIsTx
<1>3. \A x \in done : inWork[x] + inDb[x] > 0
  BY DEF DoneIsThere
<1>4. \A x \in done : inDb'[x] # 0
  <2> SUFFICES ASSUME NEW x \in done PROVE inDb'[x] # 0
    OBVIOUS
  <2>1. inDb'[x] = inWork[x] + inDb[x] /\ inWork[x] + inDb[x] > 0 /\ inWork[x] + inDb[x] \in Nat
    BY <1>1, <1>2, <1>3 DEF StoreTypeOK
  <2> QED
    BY <2>1
<1> QED
  BY <1>4 DEF Missing

(* A step that lets the threads be, and the database keep what it has.     *)
LEMMA OthersKept ==
  ASSUME BaseInv, Kept, UNCHANGED <<session, begun, done>>, NEW t \in Threads,
         \A u \in Threads \ {t} : tpc'[u] = tpc[u] /\ txn'[u] = txn[u],
         tpc'[t] = "idle" \/ (tpc[t] # "idle" /\ txn'[t] = txn[t])
  PROVE  \A u \in Threads \ {t} : InTransaction(u)'
<1>1. \A x \in 1..begun : inWork'[x] + inDb'[x] = inWork[x] + inDb[x]
  BY BegunIsTx DEF BaseInv, Kept
<1>2. \A u \in Threads : InTransaction(u)
  BY DEF BaseInv
<1> QED
  BY <1>1, <1>2 DEF InTransaction

-----------------------------------------------------------------------------
(* The session: create_store(), the file, the destructor, the end.         *)
LEMMA SessionBase ==
  ASSUME BaseInv,
         \/ \E max \in Limits : create_store(max)
         \/ \E init_ \in BOOLEAN : CheckCleanFile(init_)
         \/ LeaveCleanFile
  PROVE  BaseInv'
<1>0. StoreTypeOK /\ DoneIsThere /\ \A t \in Threads : InTransaction(t)
  BY DEF BaseInv
<1>1. /\ UNCHANGED <<driver, tpc, txn, begun, done, wanted, sqlOpen, inWork, inDb>>
      /\ session \in {"none", "down", "create", "open", "closing"}
      /\ session' \in {"create", "open", "up", "closing"}
  BY DEF create_store, CheckCleanFile, LeaveCleanFile, dbVars
<1>2. store' \in Stores /\ cleanFile' \in BOOLEAN /\ clean_shutdown' \in BOOLEAN
  BY <1>0, NewStoreType, DurableStoreAssumption
     DEF create_store, CheckCleanFile, LeaveCleanFile, StoreTypeOK
<1>3. StoreTypeOK'
  BY <1>0, <1>1, <1>2 DEF StoreTypeOK, Sessions
<1>4. \A t \in Threads : InTransaction(t)'
  BY <1>0, <1>1 DEF InTransaction
<1>5. DoneIsThere'
  BY <1>0, <1>1 DEF DoneIsThere, Missing
<1> QED
  BY <1>3, <1>4, <1>5 DEF BaseInv

LEMMA DeleteBase ==
  ASSUME BaseInv, DeleteImpl, "commit" \notin Risks
  PROVE  BaseInv' /\ Commit /\ Missing' = {}
<1>0. StoreTypeOK /\ DoneIsThere
  BY DEF BaseInv
<1>1. /\ Commit /\ sqlOpen' = FALSE /\ session' = "closing" /\ \A t \in Threads : tpc[t] = "idle"
      /\ UNCHANGED <<driver, cleanFile, clean_shutdown, store, tpc, txn, begun, done, wanted>>
  BY DEF DeleteImpl, impl_end_transaction
<1>2. Missing' = {} /\ Kept
  BY <1>0, <1>1, CommitLeavesNone, CommitKeeps
<1>3. StoreTypeOK'
  BY <1>0, <1>1, <1>2 DEF StoreTypeOK, Sessions, Kept
<1>4. \A t \in Threads : InTransaction(t)'
  BY <1>1 DEF InTransaction
<1>5. DoneIsThere'
  BY <1>0, <1>1, <1>2, BegunIsTx DEF DoneIsThere, Kept
<1> QED
  BY <1>1, <1>2, <1>3, <1>4, <1>5 DEF BaseInv

LEMMA ProcessEndsBase == ASSUME BaseInv, ProcessEnds PROVE BaseInv' /\ Missing' = {}
<1>0. StoreTypeOK /\ DoneIsThere
  BY DEF BaseInv
<1>1. /\ session' = "down" /\ done' = done \ Missing /\ sqlOpen' = FALSE /\ inWork' = Nothing
      /\ tpc' = [t \in Threads |-> "idle"] /\ txn' = [t \in Threads |-> 0]
      /\ store' = NewStore(0) /\ clean_shutdown' = FALSE
      /\ UNCHANGED <<driver, cleanFile, begun, wanted, inDb>>
  BY DEF ProcessEnds
<1>2. StoreTypeOK'
  <2>1. 0 \in 0..MaxTx /\ store' \in Stores /\ inWork' \in [Txs -> Nat]
    BY <1>1, NewStoreType, NothingType, DurableStoreAssumption
  <2>2. txn' \in [Threads -> 0..MaxTx]
    BY <1>1, <2>1
  <2> QED
    BY <1>0, <1>1, <2>1, <2>2 DEF StoreTypeOK, Sessions
<1>3. \A t \in Threads : InTransaction(t)'
  BY <1>1 DEF InTransaction
<1>4. Missing' = {}
  BY <1>1 DEF Missing
<1>5. \A x \in done' : inWork'[x] + inDb'[x] > 0
  <2> SUFFICES ASSUME NEW x \in done' PROVE inWork'[x] + inDb'[x] > 0
    OBVIOUS
  <2>1. inWork'[x] = 0 /\ inDb'[x] = inDb[x] /\ inDb[x] # 0 /\ inDb[x] \in Nat
    BY <1>0, <1>1, NothingType, BegunIsTx DEF Missing, StoreTypeOK
  <2> QED
    BY <2>1
<1> QED
  BY <1>2, <1>3, <1>4, <1>5 DEF BaseInv, DoneIsThere

-----------------------------------------------------------------------------
(* A transaction.                                                          *)
LEMMA BeginBase ==
  ASSUME BaseInv, NEW t \in Threads, begin_transaction(t)
  PROVE  BaseInv'
<1>0. StoreTypeOK /\ DoneIsThere /\ \A u \in Threads : InTransaction(u)
  BY DEF BaseInv
<1>1. /\ tpc[t] = "idle" /\ begun' = begun + 1 /\ txn' = [txn EXCEPT ![t] = begun + 1]
      /\ session = "up" /\ begun < MaxTx
      /\ \E to \in {"tx", "begin"} : tpc' = [tpc EXCEPT ![t] = to]
      /\ UNCHANGED <<driver, session, cleanFile, clean_shutdown, store, done, wanted,
                     sqlOpen, inWork, inDb>>
  BY DEF begin_transaction, TGoto, dbVars
<1>2. /\ begun \in Nat /\ MaxTx \in Nat /\ begun + 1 \in 0..MaxTx /\ 1..begun \subseteq 1..(begun + 1)
      /\ begun + 1 \in 1..(begun + 1) /\ begun + 1 \notin 1..begun
  BY <1>0, <1>1, BegunIsTx
<1>3. StoreTypeOK'
  BY <1>0, <1>1, <1>2 DEF StoreTypeOK
<1>4. \A u \in Threads : InTransaction(u)'
  <2>1. tpc \in [Threads -> {"idle", "begin", "tx", "end", "ended"}] /\ txn \in [Threads -> 0..MaxTx]
    BY <1>0 DEF StoreTypeOK
  <2>2. begun + 1 \notin done
    BY <1>0, <1>2 DEF StoreTypeOK
  <2>3. InTransaction(t)'
    BY <1>0, <1>1, <1>2, <2>1, <2>2 DEF InTransaction
  <2>4. \A u \in Threads \ {t} : InTransaction(u)'
    BY <1>0, <1>1, <1>2, <2>1 DEF InTransaction
  <2> QED
    BY <2>3, <2>4
<1>5. DoneIsThere'
  BY <1>0, <1>1 DEF DoneIsThere
<1> QED
  BY <1>3, <1>4, <1>5 DEF BaseInv

LEMMA ImplBeginBase ==
  ASSUME BaseInv, NEW t \in Threads, ImplBegin(t) \/ ImplBeginFails(t)
  PROVE  BaseInv'
<1>0. StoreTypeOK /\ DoneIsThere /\ \A u \in Threads : InTransaction(u)
  BY DEF BaseInv
<1>1. /\ Kept /\ sqlOpen' \in BOOLEAN /\ store' \in Stores
      /\ UNCHANGED <<driver, session, cleanFile, clean_shutdown, begun, done, wanted>>
  <2>1. CASE ImplBegin(t)
    <3>1. Commit \/ UNCHANGED <<inWork, inDb>>
      BY <2>1 DEF ImplBegin
    <3>2. store' \in Stores /\ sqlOpen' \in BOOLEAN
      BY <1>0, <2>1 DEF ImplBegin, StoreTypeOK, Stores
    <3> QED
      BY <1>0, <2>1, <3>1, <3>2, CommitKeeps, SameKeeps DEF ImplBegin
  <2>2. CASE ImplBeginFails(t)
    BY <1>0, <2>2, SameKeeps DEF ImplBeginFails, dbVars, StoreTypeOK
  <2> QED
    BY <2>1, <2>2
<1>2. /\ tpc[t] = "begin"
      /\ \/ tpc' = [tpc EXCEPT ![t] = "tx"] /\ txn' = txn
         \/ tpc' = [tpc EXCEPT ![t] = "idle"] /\ txn' = [txn EXCEPT ![t] = 0]
  BY DEF ImplBegin, ImplBeginFails, TGoto
<1>3. tpc \in [Threads -> {"idle", "begin", "tx", "end", "ended"}] /\ txn \in [Threads -> 0..MaxTx]
      /\ 0 \in 0..MaxTx
  BY <1>0, DurableStoreAssumption DEF StoreTypeOK
<1>4. StoreTypeOK'
  BY <1>0, <1>1, <1>2, <1>3 DEF StoreTypeOK, Kept
<1>5. \A u \in Threads \ {t} : InTransaction(u)'
  BY <1>1, <1>2, <1>3, OthersKept
<1>6. InTransaction(t)'
  BY <1>0, <1>1, <1>2, <1>3 DEF InTransaction
<1>7. DoneIsThere'
  BY <1>0, <1>1, <1>2, BegunIsTx DEF DoneIsThere, InTransaction, Kept
<1> QED
  BY <1>4, <1>5, <1>6, <1>7 DEF BaseInv

LEMMA PutBase == ASSUME BaseInv, NEW t \in Threads, put(t) PROVE BaseInv'
<1> DEFINE x == txn[t]
<1>0. StoreTypeOK /\ DoneIsThere /\ \A u \in Threads : InTransaction(u)
  BY DEF BaseInv
<1>1. /\ tpc[t] = "tx" /\ session = "up"
      /\ UNCHANGED <<driver, session, cleanFile, clean_shutdown, store, tpc, txn, begun, done, wanted>>
      /\ \/ inWork' = [inWork EXCEPT ![x] = inWork[x] + 1] /\ inDb' = inDb
         \/ inDb' = [inDb EXCEPT ![x] = inDb[x] + 1] /\ inWork' = inWork
      /\ sqlOpen' \in BOOLEAN
  BY <1>0 DEF put, InTransaction, StoreTypeOK
<1>2. x \in Txs /\ x \notin done
  BY <1>0, <1>1, BegunIsTx DEF InTransaction
<1>3. inWork \in [Txs -> Nat] /\ inDb \in [Txs -> Nat]
  BY <1>0 DEF StoreTypeOK
<1> HIDE DEF x
<1>4. /\ inWork' \in [Txs -> Nat] /\ inDb' \in [Txs -> Nat]
      /\ \A y \in Txs : y # x => inWork'[y] = inWork[y] /\ inDb'[y] = inDb[y]
  BY <1>1, <1>2, <1>3
<1>5. StoreTypeOK'
  BY <1>0, <1>1, <1>4 DEF StoreTypeOK
<1>6. \A u \in Threads : InTransaction(u)'
  <2> SUFFICES ASSUME NEW u \in Threads PROVE InTransaction(u)'
    OBVIOUS
  <2>1. CASE u = t
    BY <1>0, <1>1, <2>1 DEF InTransaction
  <2>2. CASE u # t
    <3>1. tpc[u] # "idle" => txn[u] \in Txs /\ txn[u] # x
      BY <1>0, <1>1, <2>2, BegunIsTx DEF InTransaction, x
    <3> QED
      BY <1>0, <1>1, <1>4, <3>1 DEF InTransaction
  <2> QED
    BY <2>1, <2>2
<1>7. DoneIsThere'
  <2>1. \A y \in done : inWork'[y] = inWork[y] /\ inDb'[y] = inDb[y]
    BY <1>0, <1>2, <1>4, BegunIsTx
  <2> QED
    BY <1>0, <1>1, <2>1 DEF DoneIsThere
<1> QED
  BY <1>5, <1>6, <1>7 DEF BaseInv

LEMMA MarkBase == ASSUME BaseInv, NEW t \in Threads, make_transaction_durable(t) PROVE BaseInv'
<1>0. StoreTypeOK /\ DoneIsThere /\ \A u \in Threads : InTransaction(u)
  BY DEF BaseInv
<1>1. /\ tpc[t] = "tx" /\ wanted' = wanted \cup {txn[t]}
      /\ store' = [store EXCEPT !.durably_close_next_transaction_ = TRUE]
      /\ UNCHANGED <<driver, session, cleanFile, clean_shutdown, tpc, txn, begun, done,
                     sqlOpen, inWork, inDb>>
  BY DEF make_transaction_durable, dbVars
<1>2. store' \in Stores /\ txn[t] \in 1..begun
  BY <1>0, <1>1 DEF StoreTypeOK, Stores, InTransaction
<1>3. StoreTypeOK'
  BY <1>0, <1>1, <1>2 DEF StoreTypeOK
<1>4. \A u \in Threads : InTransaction(u)'
  BY <1>0, <1>1 DEF InTransaction
<1>5. DoneIsThere'
  BY <1>0, <1>1 DEF DoneIsThere, Missing
<1> QED
  BY <1>3, <1>4, <1>5 DEF BaseInv

LEMMA EndBase == ASSUME BaseInv, NEW t \in Threads, end_transaction(t) PROVE BaseInv'
<1>0. StoreTypeOK /\ DoneIsThere /\ \A u \in Threads : InTransaction(u)
  BY DEF BaseInv
<1>1. /\ tpc[t] = "tx" /\ tpc' = [tpc EXCEPT ![t] = "end"]
      /\ inWork[txn[t]] + inDb[txn[t]] = Puts
      /\ UNCHANGED <<driver, session, cleanFile, clean_shutdown, txn, begun, done, wanted,
                     sqlOpen, inWork, inDb>>
  BY DEF end_transaction, dbVars, TGoto
<1>2. store' \in Stores
  <2>1. (store.num_nondurable_transactions_ + 1) \in Nat
    BY <1>0 DEF StoreTypeOK, Stores
  <2>2. (store.durably_close_next_transaction_ \/ TooMany(store)) \in BOOLEAN
    BY <1>0 DEF StoreTypeOK, Stores
  <2>3. store' = [store EXCEPT !.num_nondurable_transactions_ = store.num_nondurable_transactions_ + 1,
                               !.durably_close_next_transaction_ =
                                   (store.durably_close_next_transaction_ \/ TooMany(store))]
    BY DEF end_transaction
  <2> QED
    BY <1>0, <2>1, <2>2, <2>3 DEF StoreTypeOK, Stores
<1>3. tpc \in [Threads -> {"idle", "begin", "tx", "end", "ended"}]
  BY <1>0 DEF StoreTypeOK
<1>4. StoreTypeOK'
  BY <1>0, <1>1, <1>2, <1>3 DEF StoreTypeOK
<1>5. \A u \in Threads : InTransaction(u)'
  <2>1. Puts > 0
    BY DurableStoreAssumption
  <2> QED
    BY <1>0, <1>1, <1>3, <2>1 DEF InTransaction
<1>6. DoneIsThere'
  BY <1>0, <1>1 DEF DoneIsThere, Missing
<1> QED
  BY <1>4, <1>5, <1>6 DEF BaseInv

LEMMA ImplEndBase == ASSUME BaseInv, NEW t \in Threads, ImplEnd(t) PROVE BaseInv'
<1>0. StoreTypeOK /\ DoneIsThere /\ \A u \in Threads : InTransaction(u)
  BY DEF BaseInv
<1>1. /\ tpc[t] = "end" /\ tpc' = [tpc EXCEPT ![t] = "ended"]
      /\ UNCHANGED <<driver, session, cleanFile, clean_shutdown, store, txn, begun, done, wanted>>
      /\ Kept /\ sqlOpen' \in BOOLEAN
  BY <1>0, EndKeeps DEF ImplEnd, TGoto, StoreTypeOK, Stores
<1>2. tpc \in [Threads -> {"idle", "begin", "tx", "end", "ended"}]
  BY <1>0 DEF StoreTypeOK
<1>3. StoreTypeOK'
  BY <1>0, <1>1, <1>2 DEF StoreTypeOK, Kept
<1>4. \A u \in Threads \ {t} : InTransaction(u)'
  BY <1>1, <1>2, OthersKept
<1>5. InTransaction(t)'
  <2>1. txn[t] \in Txs
    BY <1>0, <1>1, BegunIsTx DEF InTransaction
  <2> QED
    BY <1>0, <1>1, <1>2, <2>1 DEF InTransaction, Kept
<1>6. DoneIsThere'
  BY <1>0, <1>1, BegunIsTx DEF DoneIsThere, InTransaction, Kept
<1> QED
  BY <1>3, <1>4, <1>5, <1>6 DEF BaseInv

LEMMA EndReturnsBase == ASSUME BaseInv, NEW t \in Threads, EndReturns(t) PROVE BaseInv'
<1>0. StoreTypeOK /\ DoneIsThere /\ \A u \in Threads : InTransaction(u)
  BY DEF BaseInv
<1>1. /\ tpc[t] = "ended" /\ tpc' = [tpc EXCEPT ![t] = "idle"]
      /\ done' = done \cup {txn[t]} /\ txn' = [txn EXCEPT ![t] = 0]
      /\ UNCHANGED <<driver, session, cleanFile, clean_shutdown, begun, wanted, sqlOpen, inWork, inDb>>
  BY DEF EndReturns, TGoto, dbVars
<1>2. store' \in Stores
  BY <1>0, NewStoreType DEF EndReturns, StoreTypeOK, Stores
<1>3. /\ tpc \in [Threads -> {"idle", "begin", "tx", "end", "ended"}] /\ txn \in [Threads -> 0..MaxTx]
      /\ 0 \in 0..MaxTx
  BY <1>0, DurableStoreAssumption DEF StoreTypeOK
<1>4. txn[t] \in 1..begun /\ session = "up" /\ inWork[txn[t]] + inDb[txn[t]] > 0
  BY <1>0, <1>1 DEF InTransaction
<1>5. StoreTypeOK'
  BY <1>0, <1>1, <1>2, <1>3, <1>4 DEF StoreTypeOK
<1>6. \A u \in Threads : InTransaction(u)'
  BY <1>0, <1>1, <1>3 DEF InTransaction
<1>7. DoneIsThere'
  BY <1>0, <1>1, <1>4 DEF DoneIsThere
<1> QED
  BY <1>5, <1>6, <1>7 DEF BaseInv

LEMMA BaseInit == ASSUME StoreInit PROVE BaseInv
<1>1. 0 \in 0..MaxTx /\ NewStore(0) \in Stores
  BY NewStoreType, DurableStoreAssumption
<1>2. Missing = {}
  BY DEF StoreInit, Missing
<1>3. txn \in [Threads -> 0..MaxTx] /\ tpc \in [Threads -> {"idle", "begin", "tx", "end", "ended"}]
  BY <1>1 DEF StoreInit
<1>4. StoreTypeOK
  BY <1>1, <1>3, NothingType, DurableStoreAssumption DEF StoreInit, StoreTypeOK, Sessions
<1> QED
  BY <1>2, <1>4 DEF StoreInit, BaseInv, InTransaction, DoneIsThere

LEMMA BaseNext ==
  ASSUME BaseInv, [StoreNext]_storeVars, "commit" \notin Risks
  PROVE  BaseInv'
<1>1. CASE UNCHANGED storeVars
  <2>1. Missing' = Missing
    BY <1>1 DEF Missing, storeVars
  <2> QED
    BY <1>1, <2>1 DEF BaseInv, StoreTypeOK, InTransaction, DoneIsThere, storeVars
<1>2. ASSUME NEW t \in Threads,
             \/ begin_transaction(t) \/ ImplBegin(t) \/ ImplBeginFails(t)
             \/ put(t) \/ make_transaction_durable(t)
             \/ end_transaction(t) \/ ImplEnd(t) \/ EndReturns(t)
      PROVE  BaseInv'
  BY <1>2, BeginBase, ImplBeginBase, PutBase, MarkBase, EndBase, ImplEndBase, EndReturnsBase
<1> QED
  BY <1>1, <1>2, SessionBase, DeleteBase, ProcessEndsBase DEF StoreNext

-----------------------------------------------------------------------------
(* The file .ds_clean.                                                     *)
LEMMA CleanNext ==
  ASSUME BaseInv, CleanInv, [StoreNext]_storeVars, "commit" \notin Risks, "reinit" \notin Risks
  PROVE  CleanInv'
<1>0. session \in Sessions /\ (session # "up" => Missing = {})
  BY DEF BaseInv, StoreTypeOK, DoneIsThere
<1>1. ASSUME NEW t \in Threads,
             \/ begin_transaction(t) \/ ImplBegin(t) \/ ImplBeginFails(t)
             \/ put(t) \/ make_transaction_durable(t)
             \/ end_transaction(t) \/ ImplEnd(t) \/ EndReturns(t)
      PROVE  UNCHANGED <<session, cleanFile, clean_shutdown, lastLost>>
  BY <1>1 DEF begin_transaction, ImplBegin, ImplBeginFails, put, make_transaction_durable,
              end_transaction, ImplEnd, EndReturns
<1>2. CASE UNCHANGED <<session, cleanFile, clean_shutdown, lastLost>>
  BY <1>2 DEF CleanInv
<1>3. ASSUME NEW max \in Limits, create_store(max) PROVE CleanInv'
  BY <1>3 DEF create_store, CleanInv
<1>4. ASSUME NEW init_ \in BOOLEAN, CheckCleanFile(init_) PROVE CleanInv'
  BY <1>4 DEF CheckCleanFile, CleanInv
<1>5. CASE DeleteImpl
  BY <1>5 DEF DeleteImpl, CleanInv
<1>6. CASE LeaveCleanFile
  BY <1>6 DEF LeaveCleanFile, CleanInv
<1>7. CASE ProcessEnds
  BY <1>0, <1>7 DEF ProcessEnds, CleanInv
<1> QED
  BY <1>1, <1>2, <1>3, <1>4, <1>5, <1>6, <1>7 DEF StoreNext, storeVars

(* create_store() says that the shutdown was clean only if the session     *)
(* before lost nothing that was ended, even when threads share an open     *)
(* transaction, provided that COMMIT does not fail and init_ is off once   *)
(* there is a database.                                                    *)
THEOREM StoreCleanMeansNothingLost ==
  ASSUME "commit" \notin Risks, "reinit" \notin Risks
  PROVE  StoreSpec => []CleanMeansNothingLost
<1>1. StoreInit => BaseInv /\ CleanInv
  BY BaseInit DEF StoreInit, CleanInv
<1>2. BaseInv /\ CleanInv /\ [StoreNext]_storeVars => (BaseInv /\ CleanInv)'
  BY BaseNext, CleanNext
<1>3. CleanInv => CleanMeansNothingLost
  BY DEF CleanInv, CleanMeansNothingLost
<1> QED
  BY <1>1, <1>2, <1>3, PTL DEF StoreSpec

-----------------------------------------------------------------------------
(* One transaction at a time.                                              *)
LEMMA WholeFacts ==
  ASSUME BaseInv
  PROVE  /\ Puts \in Nat /\ Puts > 0 /\ done \subseteq Txs /\ begun \in Nat
         /\ \A x \in Txs : inWork[x] \in Nat /\ inDb[x] \in Nat /\ x \in Nat
         /\ IsFiniteSet(Missing) /\ Cardinality(Missing) \in Nat /\ Cardinality({}) = 0
         /\ store.num_nondurable_transactions_ \in Nat /\ store.max_nondurable_transactions_ \in Nat
<1>1. Puts \in Nat /\ Puts > 0 /\ done \subseteq Txs /\ begun \in Nat
  BY BegunIsTx, DurableStoreAssumption DEF BaseInv
<1>2. IsFiniteSet(Missing)
  <2>1. IsFiniteSet(Txs)
    BY FS_Interval, DurableStoreAssumption DEF Txs
  <2>2. Missing \subseteq Txs
    BY <1>1 DEF Missing
  <2> QED
    BY <2>1, <2>2, FS_Subset
<1>3. Cardinality(Missing) \in Nat /\ Cardinality({}) = 0
  BY <1>2, FS_CardinalityType, FS_EmptySet
<1>4. \A x \in Txs : inWork[x] \in Nat /\ inDb[x] \in Nat /\ x \in Nat
  BY DurableStoreAssumption DEF BaseInv, StoreTypeOK, Txs
<1> QED
  BY <1>1, <1>2, <1>3, <1>4 DEF BaseInv, StoreTypeOK, Stores

LEMMA CommitWhole ==
  ASSUME BaseInv, WholeInv, Commit, \A t \in Threads : tpc[t] # "tx", UNCHANGED <<begun, done>>
  PROVE  /\ \A x \in Txs : /\ inWork'[x] = 0 /\ inDb'[x] = inWork[x] + inDb[x]
                            /\ inDb'[x] \in {0, Puts} /\ (x > begun => inDb'[x] = 0)
         /\ \A x \in Txs : OfDatabase(x)'
         /\ \A x \in done : inWork'[x] + inDb'[x] = Puts
         /\ Missing' = {}
<1>1. \A x \in Txs : inWork'[x] = 0 /\ inDb'[x] = inWork[x] + inDb[x]
  BY CommitFacts DEF BaseInv
<1>2. /\ Puts \in Nat /\ done \subseteq Txs
      /\ \A x \in Txs : inWork[x] \in Nat /\ inDb[x] \in Nat
  BY WholeFacts
<1>3. \A x \in Txs : inDb'[x] \in {0, Puts} /\ (x > begun => inDb'[x] = 0)
  <2> SUFFICES ASSUME NEW x \in Txs PROVE inDb'[x] \in {0, Puts} /\ (x > begun => inDb'[x] = 0)
    OBVIOUS
  <2>1. /\ inDb[x] \in {0, Puts} /\ inWork[x] \in {0, Puts}
        /\ inWork[x] # 0 => inDb[x] = 0
        /\ x > begun => inWork[x] = 0 /\ inDb[x] = 0
    BY DEF WholeInv, OfDatabase
  <2> QED
    BY <1>1, <1>2, <2>1
<1>4. \A x \in Txs : OfDatabase(x)'
  BY <1>1, <1>3 DEF OfDatabase
<1>5. \A x \in done : inWork'[x] + inDb'[x] = Puts
  <2> SUFFICES ASSUME NEW x \in done PROVE inWork'[x] + inDb'[x] = Puts
    OBVIOUS
  <2>1. inWork'[x] = 0 /\ inDb'[x] = inWork[x] + inDb[x] /\ inWork[x] + inDb[x] = Puts
    BY <1>1, <1>2 DEF WholeInv
  <2> QED
    BY <1>2, <2>1
<1>6. Missing' = {}
  BY CommitLeavesNone DEF BaseInv
<1> QED
  BY <1>1, <1>3, <1>4, <1>5, <1>6

(* The session.                                                            *)
LEMMA SessionWhole ==
  ASSUME BaseInv, WholeInv,
         \/ \E max \in Limits : create_store(max)
         \/ \E init_ \in BOOLEAN : CheckCleanFile(init_)
         \/ LeaveCleanFile
  PROVE  WholeInv'
<1>1. /\ UNCHANGED <<tpc, txn, begun, done, wanted, sqlOpen, inWork, inDb>>
      /\ session # "up" /\ Missing' = Missing
  BY DEF create_store, CheckCleanFile, LeaveCleanFile, dbVars, Missing
<1>2. Missing = {} /\ \A t \in Threads : tpc[t] = "idle"
  BY <1>1 DEF BaseInv, DoneIsThere, InTransaction
<1>3. \A t \in Threads : Apart(t)' /\ OfTransaction(t)'
  BY <1>1, <1>2 DEF Apart, OfTransaction
<1>4. Counted'
  <2>1. CASE store' = store
    BY <1>1, <2>1 DEF WholeInv, Counted
  <2>2. ASSUME NEW max \in Limits, store' = NewStore(max) PROVE Counted'
    <3>1. /\ store'.num_nondurable_transactions_ = 0 /\ store'.max_nondurable_transactions_ = max
          /\ ~store'.open_txid_ /\ ~store'.durably_close_next_transaction_ /\ max \in Nat
      BY <2>2, DurableStoreAssumption DEF NewStore
    <3>2. Cardinality(Missing') = 0
      BY <1>1, <1>2, WholeFacts
    <3> QED
      BY <1>1, <1>2, <3>1, <3>2 DEF Counted
  <2> QED
    BY <2>1, <2>2 DEF create_store, CheckCleanFile, LeaveCleanFile
<1>5. \A x \in Txs : OfDatabase(x)'
  BY <1>1 DEF WholeInv, OfDatabase
<1>6. MissingAreLast' /\ \A x \in done' : inWork'[x] + inDb'[x] = Puts
  BY <1>1, <1>2 DEF WholeInv, MissingAreLast
<1> QED
  BY <1>3, <1>4, <1>5, <1>6 DEF WholeInv

LEMMA DeleteWhole ==
  ASSUME BaseInv, WholeInv, DeleteImpl, "commit" \notin Risks
  PROVE  WholeInv'
<1>1. /\ Commit /\ \A t \in Threads : tpc[t] = "idle"
      /\ UNCHANGED <<store, tpc, txn, begun, done, wanted>>
  BY DEF DeleteImpl, impl_end_transaction
<1>2. /\ \A x \in Txs : OfDatabase(x)'
      /\ \A x \in done : inWork'[x] + inDb'[x] = Puts
      /\ Missing' = {}
  BY <1>1, CommitWhole
<1>3. \A t \in Threads : Apart(t)' /\ OfTransaction(t)'
  BY <1>1 DEF Apart, OfTransaction
<1>4. Counted'
  <2>1. /\ Cardinality(Missing') = 0 /\ store.num_nondurable_transactions_ \in Nat
    BY <1>2, WholeFacts
  <2>2. Counted
    BY DEF WholeInv
  <2> QED
    BY <1>1, <2>1, <2>2 DEF Counted
<1> QED
  BY <1>1, <1>2, <1>3, <1>4 DEF WholeInv, MissingAreLast

LEMMA ProcessEndsWhole == ASSUME BaseInv, WholeInv, ProcessEnds PROVE WholeInv'
<1>1. /\ done' = done \ Missing /\ inWork' = Nothing
      /\ tpc' = [t \in Threads |-> "idle"] /\ store' = NewStore(0)
      /\ UNCHANGED <<begun, wanted, inDb>>
  BY DEF ProcessEnds
<1>2. Missing' = {}
  BY ProcessEndsBase
<1>3. \A x \in Txs : inWork'[x] = 0
  BY <1>1, NothingType
<1>4. \A t \in Threads : Apart(t)' /\ OfTransaction(t)'
  BY <1>1 DEF Apart, OfTransaction
<1>5. \A x \in Txs : OfDatabase(x)'
  BY <1>1, <1>3 DEF WholeInv, OfDatabase
<1>6. \A x \in done' : inWork'[x] + inDb'[x] = Puts
  <2> SUFFICES ASSUME NEW x \in done' PROVE inWork'[x] + inDb'[x] = Puts
    OBVIOUS
  <2>1. x \in Txs /\ inDb[x] # 0
    BY <1>1, WholeFacts DEF Missing
  <2>2. inWork'[x] = 0 /\ inDb'[x] = Puts /\ Puts \in Nat
    BY <1>1, <1>3, <2>1, WholeFacts DEF WholeInv, OfDatabase
  <2> QED
    BY <2>2
<1>7. Counted'
  <2>1. /\ store'.num_nondurable_transactions_ = 0 /\ store'.max_nondurable_transactions_ = 0
        /\ ~store'.open_txid_ /\ ~store'.durably_close_next_transaction_
    BY <1>1 DEF NewStore
  <2>2. Cardinality(Missing') = 0
    BY <1>2, WholeFacts
  <2> QED
    BY <1>1, <2>1, <2>2 DEF Counted
<1> QED
  BY <1>2, <1>4, <1>5, <1>6, <1>7 DEF WholeInv, MissingAreLast

-----------------------------------------------------------------------------
(* The thread that is inside a transaction is alone there.                 *)
LEMMA AloneInTransaction ==
  ASSUME BaseInv, WholeInv, NEW t \in Threads, tpc[t] # "idle"
  PROVE  /\ \A u \in Threads \ {t} : tpc[u] = "idle"
         /\ txn[t] = begun /\ txn[t] \in Txs /\ txn[t] \notin done /\ txn[t] \in 1..begun
BY BegunIsTx DEF WholeInv, Apart, BaseInv, InTransaction

LEMMA BeginWhole ==
  ASSUME BaseInv, WholeInv, "join" \notin Risks, NEW t \in Threads, begin_transaction(t)
  PROVE  WholeInv'
<1>1. /\ \A u \in Threads : tpc[u] = "idle"
      /\ begun' = begun + 1 /\ txn' = [txn EXCEPT ![t] = begun + 1] /\ begun < MaxTx
      /\ tpc' = [tpc EXCEPT ![t] = IF store.open_txid_ THEN "tx" ELSE "begin"]
      /\ UNCHANGED <<store, done, wanted, sqlOpen, inWork, inDb>>
  BY DEF begin_transaction, TGoto, dbVars
<1>2. ~store.open_txid_ /\ ~store.durably_close_next_transaction_
  BY <1>1 DEF WholeInv, Counted
<1>3. /\ tpc \in [Threads -> {"idle", "begin", "tx", "end", "ended"}] /\ txn \in [Threads -> 0..MaxTx]
      /\ begun \in Nat /\ begun + 1 \in Txs /\ begun + 1 > begun /\ begun + 1 \notin 1..begun
      /\ wanted \subseteq 1..begun
  BY <1>1, BegunIsTx DEF BaseInv, StoreTypeOK, Txs
<1>4. tpc' = [tpc EXCEPT ![t] = "begin"] /\ Missing' = Missing
  BY <1>1, <1>2 DEF Missing
<1>5. inWork[begun + 1] = 0 /\ inDb[begun + 1] = 0 /\ begun + 1 \notin wanted
  BY <1>3 DEF WholeInv, OfDatabase
<1>6. \A u \in Threads : Apart(u)' /\ OfTransaction(u)'
  <2>1. Apart(t)' /\ OfTransaction(t)'
    BY <1>1, <1>2, <1>3, <1>4, <1>5 DEF Apart, OfTransaction
  <2>2. \A u \in Threads \ {t} : Apart(u)' /\ OfTransaction(u)'
    BY <1>1, <1>3, <1>4 DEF Apart, OfTransaction
  <2> QED
    BY <2>1, <2>2
<1>7. \A x \in Txs : OfDatabase(x)'
  <2> SUFFICES ASSUME NEW x \in Txs PROVE OfDatabase(x)'
    OBVIOUS
  <2>1. x \in Nat /\ (x > begun + 1 => x > begun)
    BY <1>3, WholeFacts
  <2> QED
    BY <1>1, <2>1 DEF WholeInv, OfDatabase
<1>8. Counted'
  BY <1>1, <1>3, <1>4 DEF WholeInv, Counted
<1> QED
  BY <1>1, <1>4, <1>6, <1>7, <1>8 DEF WholeInv, MissingAreLast

LEMMA ImplBeginWhole ==
  ASSUME BaseInv, WholeInv, NEW t \in Threads, ImplBegin(t)
  PROVE  WholeInv'
<1> DEFINE x == txn[t]
<1>1. /\ tpc[t] = "begin" /\ tpc' = [tpc EXCEPT ![t] = "tx"] /\ sqlOpen'
      /\ Commit \/ UNCHANGED <<inWork, inDb>>
      /\ store' = [store EXCEPT !.open_txid_ = TRUE]
      /\ UNCHANGED <<txn, begun, done, wanted>>
  BY DEF ImplBegin, TGoto
<1>2. /\ \A u \in Threads \ {t} : tpc[u] = "idle"
      /\ x = begun /\ x \in Txs /\ x \notin done
  BY <1>1, AloneInTransaction
<1>3. /\ tpc \in [Threads -> {"idle", "begin", "tx", "end", "ended"}]
      /\ inWork[x] = 0 /\ inDb[x] = 0 /\ x \notin wanted
      /\ ~store.durably_close_next_transaction_
  BY <1>1 DEF BaseInv, StoreTypeOK, WholeInv, OfTransaction
<1>4. /\ store'.num_nondurable_transactions_ = store.num_nondurable_transactions_
      /\ store'.max_nondurable_transactions_ = store.max_nondurable_transactions_
      /\ store'.durably_close_next_transaction_ = store.durably_close_next_transaction_
  BY <1>1 DEF BaseInv, StoreTypeOK, Stores
<1>5. /\ \A y \in Txs : OfDatabase(y)'
      /\ \A y \in done : inWork'[y] + inDb'[y] = Puts
      /\ inDb'[x] = 0 /\ (Missing' = {} \/ Missing' = Missing)
  <2>1. CASE Commit
    <3>1. \A u \in Threads : tpc[u] # "tx"
      BY <1>1, <1>2
    <3>2. inDb'[x] = inWork[x] + inDb[x]
      BY <1>1, <1>2, <2>1, <3>1, CommitWhole
    <3> QED
      BY <1>1, <1>3, <2>1, <3>1, <3>2, CommitWhole
  <2>2. CASE UNCHANGED <<inWork, inDb>>
    <3>1. Missing' = Missing
      BY <1>1, <2>2 DEF Missing
    <3>2. \A u \in Threads : tpc[u] = "tx" => tpc'[u] = "tx" /\ txn'[u] = txn[u]
      BY <1>1, <1>3
    <3> QED
      BY <1>1, <1>3, <2>2, <3>1, <3>2 DEF WholeInv, OfDatabase
  <2> QED
    BY <1>1, <2>1, <2>2
<1> HIDE DEF x
<1>6. \A u \in Threads : Apart(u)' /\ OfTransaction(u)'
  <2>1. Apart(t)' /\ OfTransaction(t)'
    BY <1>1, <1>2, <1>3, <1>5 DEF Apart, OfTransaction, x
  <2>2. \A u \in Threads \ {t} : Apart(u)' /\ OfTransaction(u)'
    BY <1>1, <1>2, <1>3 DEF Apart, OfTransaction
  <2> QED
    BY <2>1, <2>2
<1>7. Counted'
  <2>1. /\ Cardinality(Missing') <= Cardinality(Missing)
        /\ Cardinality(Missing') \in Nat /\ Cardinality(Missing) \in Nat
        /\ store.num_nondurable_transactions_ \in Nat
    BY <1>5, WholeFacts
  <2>2. Counted
    BY DEF WholeInv
  <2>3. ~\E u \in Threads : tpc[u] \in {"end", "ended"}
    BY <1>1, <1>2
  <2>4. tpc'[t] = "tx" /\ \A u \in Threads \ {t} : tpc'[u] = tpc[u]
    BY <1>1, <1>3
  <2>5. ~\E u \in Threads : tpc'[u] \in {"end", "ended"}
    BY <2>3, <2>4
  <2> QED
    BY <1>4, <2>1, <2>2, <2>3, <2>4, <2>5 DEF Counted
<1>8. MissingAreLast'
  BY <1>1, <1>5 DEF WholeInv, MissingAreLast
<1> QED
  BY <1>1, <1>5, <1>6, <1>7, <1>8 DEF WholeInv

LEMMA ImplBeginFailsWhole ==
  ASSUME BaseInv, WholeInv, NEW t \in Threads, ImplBeginFails(t)
  PROVE  WholeInv'
<1>1. /\ sqlOpen /\ tpc[t] = "begin"
      /\ \/ tpc' = [tpc EXCEPT ![t] = "tx"] /\ txn' = txn
         \/ tpc' = [tpc EXCEPT ![t] = "idle"] /\ txn' = [txn EXCEPT ![t] = 0]
      /\ UNCHANGED <<store, begun, done, wanted, sqlOpen, inWork, inDb>> /\ Missing' = Missing
  BY DEF ImplBeginFails, TGoto, dbVars, Missing
<1>2. /\ \A u \in Threads \ {t} : tpc[u] = "idle"
      /\ tpc \in [Threads -> {"idle", "begin", "tx", "end", "ended"}] /\ txn \in [Threads -> 0..MaxTx]
  BY <1>1, AloneInTransaction DEF BaseInv, StoreTypeOK
<1>3. /\ \A u \in Threads : Apart(u) /\ OfTransaction(u)
      /\ \A y \in Txs : OfDatabase(y)
      /\ Counted
  BY DEF WholeInv
<1>4. \A u \in Threads : Apart(u)' /\ OfTransaction(u)'
  <2>1. Apart(t)' /\ OfTransaction(t)'
    BY <1>1, <1>2, <1>3 DEF Apart, OfTransaction
  <2>2. \A u \in Threads \ {t} : Apart(u)' /\ OfTransaction(u)'
    BY <1>1, <1>2 DEF Apart, OfTransaction
  <2> QED
    BY <2>1, <2>2
<1>5. \A y \in Txs : OfDatabase(y)'
  <2>1. \A u \in Threads : tpc[u] # "tx"
    BY <1>1, <1>2
  <2> QED
    BY <1>1, <1>3, <2>1 DEF OfDatabase
<1>6. Counted'
  <2>1. ~store.open_txid_ /\ ~store.durably_close_next_transaction_
    BY <1>1, <1>3 DEF OfTransaction
  <2>2. /\ ~\E u \in Threads : tpc[u] \in {"end", "ended"}
        /\ ~\E u \in Threads : tpc'[u] \in {"end", "ended"}
    BY <1>1, <1>2
  <2> QED
    BY <1>1, <1>3, <2>1, <2>2 DEF Counted
<1> QED
  BY <1>1, <1>4, <1>5, <1>6 DEF WholeInv, MissingAreLast

LEMMA PutWhole == ASSUME BaseInv, WholeInv, NEW t \in Threads, put(t) PROVE WholeInv'
<1> DEFINE x == txn[t]
<1>0. tpc[t] = "tx" /\ sqlOpen
  BY DEF put, WholeInv, OfTransaction
<1>1. /\ UNCHANGED <<store, tpc, txn, begun, done, wanted, inDb>> /\ sqlOpen'
      /\ inWork' = [inWork EXCEPT ![x] = inWork[x] + 1] /\ Missing' = Missing
  BY <1>0 DEF put, Missing
<1>2. /\ \A u \in Threads \ {t} : tpc[u] = "idle"
      /\ x = begun /\ x \in Txs /\ x \notin done
  BY <1>0, AloneInTransaction
<1>3. \A y \in Txs : y # x => inWork'[y] = inWork[y]
  BY <1>1 DEF BaseInv, StoreTypeOK
<1>4. inDb[x] = 0 /\ begun \in Nat
  BY <1>0, WholeFacts DEF WholeInv, OfTransaction
<1> HIDE DEF x
<1>5. \A u \in Threads : Apart(u)' /\ OfTransaction(u)'
  <2>1. Apart(t)' /\ OfTransaction(t)'
    BY <1>0, <1>1 DEF WholeInv, Apart, OfTransaction
  <2>2. \A u \in Threads \ {t} : Apart(u)' /\ OfTransaction(u)'
    BY <1>1, <1>2 DEF WholeInv, Apart, OfTransaction
  <2> QED
    BY <2>1, <2>2
<1>6. \A y \in Txs : OfDatabase(y)'
  <2> SUFFICES ASSUME NEW y \in Txs PROVE OfDatabase(y)'
    OBVIOUS
  <2>0. OfDatabase(y)
    BY DEF WholeInv
  <2>1. CASE y = x
    BY <1>0, <1>1, <1>2, <1>4, <2>0, <2>1 DEF OfDatabase, x
  <2>2. CASE y # x
    BY <1>1, <1>3, <2>0, <2>2 DEF OfDatabase
  <2> QED
    BY <2>1, <2>2
<1>7. \A y \in done : inWork'[y] + inDb'[y] = Puts
  BY <1>1, <1>2, <1>3, WholeFacts DEF WholeInv
<1>8. Counted' /\ MissingAreLast'
  BY <1>1 DEF WholeInv, Counted, MissingAreLast
<1> QED
  BY <1>1, <1>5, <1>6, <1>7, <1>8 DEF WholeInv

LEMMA MarkWhole ==
  ASSUME BaseInv, WholeInv, NEW t \in Threads, make_transaction_durable(t)
  PROVE  WholeInv'
<1>1. /\ tpc[t] = "tx" /\ wanted' = wanted \cup {txn[t]}
      /\ store' = [store EXCEPT !.durably_close_next_transaction_ = TRUE]
      /\ UNCHANGED <<tpc, txn, begun, done, sqlOpen, inWork, inDb>> /\ Missing' = Missing
  BY DEF make_transaction_durable, dbVars, Missing
<1>2. /\ \A u \in Threads \ {t} : tpc[u] = "idle"
      /\ txn[t] \notin done
  BY <1>1, AloneInTransaction
<1>3. /\ store'.num_nondurable_transactions_ = store.num_nondurable_transactions_
      /\ store'.max_nondurable_transactions_ = store.max_nondurable_transactions_
      /\ store'.durably_close_next_transaction_
  BY <1>1 DEF BaseInv, StoreTypeOK, Stores
<1>4. \A u \in Threads : Apart(u)' /\ OfTransaction(u)'
  <2>1. Apart(t)' /\ OfTransaction(t)'
    BY <1>1, <1>3 DEF WholeInv, Apart, OfTransaction
  <2>2. \A u \in Threads \ {t} : Apart(u)' /\ OfTransaction(u)'
    BY <1>1, <1>2 DEF WholeInv, Apart, OfTransaction
  <2> QED
    BY <2>1, <2>2
<1>5. \A y \in Txs : OfDatabase(y)'
  BY <1>1 DEF WholeInv, OfDatabase
<1>6. MissingAreLast'
  BY <1>1, <1>2 DEF WholeInv, MissingAreLast, Missing
<1>7. Counted'
  <2>1. ~\E u \in Threads : tpc[u] \in {"end", "ended"}
    BY <1>1, <1>2
  <2> QED
    BY <1>1, <1>3, <2>1 DEF WholeInv, Counted
<1> QED
  BY <1>1, <1>4, <1>5, <1>6, <1>7 DEF WholeInv

LEMMA EndWhole == ASSUME BaseInv, WholeInv, NEW t \in Threads, end_transaction(t) PROVE WholeInv'
<1> DEFINE x == txn[t]
<1>1. /\ tpc[t] = "tx" /\ tpc' = [tpc EXCEPT ![t] = "end"] /\ inWork[x] + inDb[x] = Puts
      /\ UNCHANGED <<txn, begun, done, wanted, sqlOpen, inWork, inDb>> /\ Missing' = Missing
  BY DEF end_transaction, dbVars, TGoto, Missing
<1>2. /\ \A u \in Threads \ {t} : tpc[u] = "idle"
      /\ x = begun /\ x \in Txs /\ x \notin done
      /\ tpc \in [Threads -> {"idle", "begin", "tx", "end", "ended"}]
  BY <1>1, AloneInTransaction DEF BaseInv, StoreTypeOK
<1>3. /\ store'.num_nondurable_transactions_ = store.num_nondurable_transactions_ + 1
      /\ store'.max_nondurable_transactions_ = store.max_nondurable_transactions_
      /\ store'.durably_close_next_transaction_ =
           (store.durably_close_next_transaction_
              \/ store.num_nondurable_transactions_ + 1 > store.max_nondurable_transactions_)
  BY DEF end_transaction, TooMany, BaseInv, StoreTypeOK, Stores
<1>4. sqlOpen /\ inDb[x] = 0 /\ (x \in wanted => store.durably_close_next_transaction_)
  BY <1>1 DEF WholeInv, OfTransaction
<1>5. inWork[x] = Puts
  BY <1>1, <1>2, <1>4, WholeFacts
<1> HIDE DEF x
<1>6. \A u \in Threads : Apart(u)' /\ OfTransaction(u)'
  <2>1. Apart(t)' /\ OfTransaction(t)'
    BY <1>1, <1>2, <1>3, <1>4, <1>5 DEF Apart, OfTransaction, x
  <2>2. \A u \in Threads \ {t} : Apart(u)' /\ OfTransaction(u)'
    BY <1>1, <1>2 DEF Apart, OfTransaction
  <2> QED
    BY <2>1, <2>2
<1>7. \A y \in Txs : OfDatabase(y)'
  <2> SUFFICES ASSUME NEW y \in Txs PROVE OfDatabase(y)'
    OBVIOUS
  <2>1. inWork[y] \in {0, Puts}
    BY <1>2, <1>5 DEF WholeInv, OfDatabase, x
  <2> QED
    BY <1>1, <2>1 DEF WholeInv, OfDatabase
<1>8. Counted'
  <2>1. ~\E u \in Threads : tpc[u] \in {"end", "ended"}
    BY <1>1, <1>2
  <2>2. tpc'[t] = "end"
    BY <1>1, <1>2
  <2>3. /\ Cardinality(Missing) \in Nat /\ store.num_nondurable_transactions_ \in Nat
        /\ store.max_nondurable_transactions_ \in Nat
    BY WholeFacts
  <2>4. /\ Cardinality(Missing) <= store.num_nondurable_transactions_
        /\ store.num_nondurable_transactions_ <= store.max_nondurable_transactions_
    BY <2>1 DEF WholeInv, Counted
  <2>5. /\ Cardinality(Missing') + 1 <= store'.num_nondurable_transactions_
        /\ store'.num_nondurable_transactions_ <= store'.max_nondurable_transactions_ + 1
    BY <1>1, <1>3, <2>3, <2>4
  <2>6. ~store'.durably_close_next_transaction_ =>
          store'.num_nondurable_transactions_ <= store'.max_nondurable_transactions_
    <3>1. ~store'.durably_close_next_transaction_ =>
            ~(store.num_nondurable_transactions_ + 1 > store.max_nondurable_transactions_)
      BY <1>3, Zenon
    <3> QED
      BY <1>3, <2>3, <3>1
  <2> QED
    BY <2>2, <2>5, <2>6 DEF Counted
<1> QED
  BY <1>1, <1>6, <1>7, <1>8 DEF WholeInv, MissingAreLast

LEMMA ImplEndWhole ==
  ASSUME BaseInv, WholeInv, "commit" \notin Risks, NEW t \in Threads, ImplEnd(t)
  PROVE  WholeInv'
<1> DEFINE x == txn[t]
           durably == store.durably_close_next_transaction_
<1>1. /\ tpc[t] = "end" /\ tpc' = [tpc EXCEPT ![t] = "ended"]
      /\ UNCHANGED <<store, txn, begun, done, wanted>>
      /\ IF durably THEN Commit ELSE UNCHANGED <<inWork, inDb>>
  BY DEF ImplEnd, impl_end_transaction, dbVars, TGoto
<1>2. /\ \A u \in Threads \ {t} : tpc[u] = "idle"
      /\ x = begun /\ x \in Txs /\ x \notin done
      /\ tpc \in [Threads -> {"idle", "begin", "tx", "end", "ended"}]
  BY <1>1, AloneInTransaction DEF BaseInv, StoreTypeOK
<1>3. inDb[x] = 0 /\ inWork[x] = Puts /\ (x \in wanted => durably)
  BY <1>1 DEF WholeInv, OfTransaction
<1>4. \A u \in Threads : tpc[u] # "tx"
  BY <1>1, <1>2
<1>5. /\ \A y \in Txs : OfDatabase(y)'
      /\ \A y \in done : inWork'[y] + inDb'[y] = Puts
      /\ durably => inDb'[x] = Puts /\ inWork'[x] = 0 /\ Missing' = {}
      /\ ~durably => inDb'[x] = 0 /\ inWork'[x] = Puts /\ Missing' = Missing
  <2>1. CASE durably
    <3>1. /\ inWork'[x] = 0 /\ inDb'[x] = inWork[x] + inDb[x] /\ Missing' = {}
          /\ \A y \in Txs : OfDatabase(y)'
          /\ \A y \in done : inWork'[y] + inDb'[y] = Puts
      BY <1>1, <1>2, <1>4, <2>1, CommitWhole
    <3>2. inDb'[x] = Puts
      BY <1>3, <3>1, WholeFacts
    <3> QED
      BY <2>1, <3>1, <3>2
  <2>2. CASE ~durably
    <3>1. Missing' = Missing
      BY <1>1, <2>2 DEF Missing
    <3> QED
      BY <1>1, <1>3, <1>4, <2>2, <3>1 DEF WholeInv, OfDatabase
  <2> QED
    BY <2>1, <2>2
<1>6. store'.durably_close_next_transaction_ = durably
  BY <1>1
<1> HIDE DEF x, durably
<1>7. \A u \in Threads : Apart(u)' /\ OfTransaction(u)'
  <2>1. Apart(t)' /\ OfTransaction(t)'
    BY <1>1, <1>2, <1>3, <1>5, <1>6 DEF Apart, OfTransaction, x
  <2>2. \A u \in Threads \ {t} : Apart(u)' /\ OfTransaction(u)'
    BY <1>1, <1>2 DEF Apart, OfTransaction
  <2> QED
    BY <2>1, <2>2
<1>8. MissingAreLast'
  BY <1>1, <1>5 DEF WholeInv, MissingAreLast
<1>9. Counted'
  <2>1. tpc'[t] = "ended"
    BY <1>1, <1>2
  <2>2. /\ Cardinality(Missing) + 1 <= store.num_nondurable_transactions_
        /\ store.num_nondurable_transactions_ <= store.max_nondurable_transactions_ + 1
        /\ ~store.durably_close_next_transaction_ =>
             store.num_nondurable_transactions_ <= store.max_nondurable_transactions_
    BY <1>1 DEF WholeInv, Counted
  <2>3. /\ Cardinality(Missing) \in Nat /\ store.num_nondurable_transactions_ \in Nat
        /\ Missing' = {} => Cardinality(Missing') = 0
    BY WholeFacts
  <2>4. Cardinality(Missing') + 1 <= store.num_nondurable_transactions_
    BY <1>5, <2>2, <2>3
  <2> QED
    BY <1>1, <2>1, <2>2, <2>4 DEF Counted
<1> QED
  BY <1>1, <1>5, <1>7, <1>8, <1>9 DEF WholeInv

LEMMA EndReturnsWhole ==
  ASSUME BaseInv, WholeInv, NEW t \in Threads, EndReturns(t)
  PROVE  WholeInv'
<1> DEFINE x == txn[t]
           durably == store.durably_close_next_transaction_
<1>1. /\ tpc[t] = "ended" /\ tpc' = [tpc EXCEPT ![t] = "idle"]
      /\ done' = done \cup {x}
      /\ UNCHANGED <<begun, wanted, inWork, inDb>>
  BY DEF EndReturns, TGoto, dbVars
<1>2. /\ \A u \in Threads \ {t} : tpc[u] = "idle"
      /\ x = begun /\ x \in Txs /\ x \notin done
      /\ tpc \in [Threads -> {"idle", "begin", "tx", "end", "ended"}]
      /\ done \subseteq 1..begun /\ begun \in Nat
  BY <1>1, AloneInTransaction, WholeFacts DEF BaseInv, StoreTypeOK
<1>3. IF durably THEN Missing = {} /\ inDb[x] = Puts /\ inWork[x] = 0
      ELSE x \notin wanted /\ inDb[x] = 0 /\ inWork[x] = Puts
  BY <1>1 DEF WholeInv, OfTransaction
<1>4. \A u \in Threads : tpc[u] # "tx" /\ tpc'[u] = "idle"
  BY <1>1, <1>2
<1>5. /\ store'.max_nondurable_transactions_ = store.max_nondurable_transactions_
      /\ ~store'.open_txid_ /\ ~store'.durably_close_next_transaction_
      /\ store'.num_nondurable_transactions_ = IF durably THEN 0 ELSE store.num_nondurable_transactions_
  BY DEF EndReturns, NewStore, BaseInv, StoreTypeOK, Stores
<1> HIDE DEF x, durably
<1>6. Missing' = IF durably THEN {} ELSE Missing \cup {x}
  <2>1. Puts # 0
    BY WholeFacts
  <2>2. CASE durably
    BY <1>1, <1>3, <2>1, <2>2 DEF Missing
  <2>3. CASE ~durably
    BY <1>1, <1>3, <2>3 DEF Missing
  <2> QED
    BY <2>2, <2>3
<1>7. \A u \in Threads : Apart(u)' /\ OfTransaction(u)'
  BY <1>4 DEF Apart, OfTransaction
<1>8. \A y \in Txs : OfDatabase(y)'
  BY <1>1, <1>4 DEF WholeInv, OfDatabase
<1>9. \A y \in done' : inWork'[y] + inDb'[y] = Puts
  <2>1. inWork[x] + inDb[x] = Puts
    BY <1>3, WholeFacts
  <2> QED
    BY <1>1, <2>1 DEF WholeInv
<1>10. MissingAreLast'
  <2>1. CASE durably
    BY <1>6, <2>1 DEF MissingAreLast
  <2>2. CASE ~durably
    <3>1. \A y \in done' : ~(y > x)
      BY <1>1, <1>2
    <3>2. MissingAreLast
      BY DEF WholeInv
    <3>3. x \notin wanted
      BY <1>3, <2>2
    <3> QED
      BY <1>1, <1>6, <2>2, <3>1, <3>2, <3>3 DEF MissingAreLast
  <2> QED
    BY <2>1, <2>2
<1>11. Counted'
  <2>1. /\ Cardinality(Missing) + 1 <= store.num_nondurable_transactions_
        /\ ~durably => store.num_nondurable_transactions_ <= store.max_nondurable_transactions_
    BY <1>1 DEF WholeInv, Counted, durably
  <2>2. /\ Cardinality(Missing) \in Nat /\ store.num_nondurable_transactions_ \in Nat
        /\ store.max_nondurable_transactions_ \in Nat /\ Cardinality({}) = 0
        /\ IsFiniteSet(Missing)
    BY WholeFacts
  <2>3. Cardinality(Missing \cup {x}) = Cardinality(Missing) + 1
    <3>1. x \notin Missing
      BY <1>2 DEF Missing
    <3> QED
      BY <2>2, <3>1, FS_AddElement
  <2>4. /\ Cardinality(Missing') <= store'.num_nondurable_transactions_
        /\ store'.num_nondurable_transactions_ <= store'.max_nondurable_transactions_
    BY <1>5, <1>6, <2>1, <2>2, <2>3
  <2> QED
    BY <1>4, <1>5, <2>4 DEF Counted
<1> QED
  BY <1>7, <1>8, <1>9, <1>10, <1>11 DEF WholeInv

-----------------------------------------------------------------------------
LEMMA WholeInit == ASSUME StoreInit PROVE WholeInv
<1>1. Missing = {} /\ Cardinality(Missing) = 0
  BY FS_EmptySet DEF StoreInit, Missing
<1>2. store.num_nondurable_transactions_ = 0 /\ store.max_nondurable_transactions_ = 0
      /\ ~store.open_txid_ /\ ~store.durably_close_next_transaction_
  BY DEF StoreInit, NewStore
<1>3. \A x \in Txs : OfDatabase(x)
  BY NothingType DEF StoreInit, OfDatabase
<1>4. Counted
  BY <1>1, <1>2 DEF StoreInit, Counted
<1> QED
  BY <1>1, <1>3, <1>4 DEF StoreInit, WholeInv, Apart, OfTransaction, MissingAreLast

LEMMA WholeNext ==
  ASSUME BaseInv, WholeInv, [StoreNext]_storeVars, "commit" \notin Risks, "join" \notin Risks
  PROVE  WholeInv'
<1>1. CASE UNCHANGED storeVars
  <2>1. Missing' = Missing
    BY <1>1 DEF Missing, storeVars
  <2> QED
    BY <1>1, <2>1
       DEF WholeInv, Apart, OfTransaction, OfDatabase, MissingAreLast, Counted, storeVars
<1>2. ASSUME NEW t \in Threads,
             \/ begin_transaction(t) \/ ImplBegin(t) \/ ImplBeginFails(t)
             \/ put(t) \/ make_transaction_durable(t)
             \/ end_transaction(t) \/ ImplEnd(t) \/ EndReturns(t)
      PROVE  WholeInv'
  BY <1>2, BeginWhole, ImplBeginWhole, ImplBeginFailsWhole, PutWhole, MarkWhole, EndWhole,
     ImplEndWhole, EndReturnsWhole
<1> QED
  BY <1>1, <1>2, SessionWhole, DeleteWhole, ProcessEndsWhole DEF StoreNext

(* A crash at any time leaves whole transactions, the first so many of     *)
(* those that were ended, and all that were to be durable, with either     *)
(* database and any limit, when threads take turns at transactions and     *)
(* COMMIT does not fail.                                                   *)
THEOREM StoreCrashLeavesPrefix ==
  ASSUME "commit" \notin Risks, "join" \notin Risks
  PROVE  StoreSpec => []CrashLeavesPrefix
<1>1. StoreInit => BaseInv /\ WholeInv
  BY BaseInit, WholeInit
<1>2. BaseInv /\ WholeInv /\ [StoreNext]_storeVars => (BaseInv /\ WholeInv)'
  BY BaseNext, WholeNext
<1>3. BaseInv /\ WholeInv => CrashLeavesPrefix
  <2> SUFFICES ASSUME BaseInv, WholeInv PROVE CrashLeavesPrefix
    OBVIOUS
  <2>1. Cardinality(Missing) <= store.max_nondurable_transactions_
    <3>1. /\ Cardinality(Missing) \in Nat /\ store.num_nondurable_transactions_ \in Nat
          /\ store.max_nondurable_transactions_ \in Nat /\ Cardinality({}) = 0
      BY WholeFacts
    <3>2. CASE \E t \in Threads : tpc[t] \in {"end", "ended"}
      <4>1. /\ Cardinality(Missing) + 1 <= store.num_nondurable_transactions_
            /\ store.num_nondurable_transactions_ <= store.max_nondurable_transactions_ + 1
        BY <3>2 DEF WholeInv, Counted
      <4> QED
        BY <3>1, <4>1
    <3>3. CASE ~\E t \in Threads : tpc[t] \in {"end", "ended"}
      BY <3>1, <3>3 DEF WholeInv, Counted
    <3> QED
      BY <3>2, <3>3
  <2> QED
    BY <2>1 DEF WholeInv, OfDatabase, MissingAreLast, CrashLeavesPrefix
<1> QED
  BY <1>1, <1>2, <1>3, PTL DEF StoreSpec

-----------------------------------------------------------------------------
(* A FileBackedObject and its transaction.                                 *)
Calls == {NoCall} \cup [pc : {"seek", "set", "write"}, o : Objects, off : Int]
           \cup [pc : {"link"}, o : {"main"}]

FileTypeOK ==
  /\ dir \in [Objects -> Inodes \cup {NoInode}]
  /\ data \in [Inodes -> Contents]
  /\ disk \in Inodes \cup {NoInode} /\ dirty \subseteq Inodes
  /\ object \in [Objects -> FileObjects \cup {NoObject}]
  /\ call \in Calls
  /\ txpc \in {"none", "copy", "active", "synced", "renamed"}

(* The transaction's file is its own, and is there until it is renamed; an *)
(* object has a file but for the moment that replace_with_file() is        *)
(* between two names.                                                      *)
NamesInv ==
  /\ dir["tx"] # NoInode => dir["tx"] # dir["main"] /\ dir["tx"] # disk
  /\ object["main"] # NoObject /\ call.pc # "link" => dir["main"] # NoInode
  /\ call.pc = "link" => /\ dir["main"] = NoInode /\ txpc = "none"
                         /\ object["main"] # NoObject /\ object["main"].fd = NoInode
                         /\ object["main"].offset = object["main"].cur_offset_
  /\ object["tx"] # NoObject <=> txpc \in {"active", "synced", "renamed"}
  /\ txpc # "none" => object["main"] # NoObject
  /\ txpc \in {"copy", "active", "synced"} => dir["tx"] # NoInode
  /\ txpc = "renamed" => dir["tx"] = NoInode
  /\ txpc \in {"synced", "renamed"} => object["main"].open_count_ = 0
  /\ txpc \in {"copy", "synced", "renamed"} => call = NoCall

DescriptorInv(o) ==
  object[o] # NoObject =>
    /\ object[o].fd # NoInode /\ txpc # "renamed" => object[o].fd = dir[o]
    /\ ~Calling(o) => object[o].offset = object[o].cur_offset_

(* append_bytes(): the end that it found is still the end of the file.     *)
AppendInv ==
  call.pc \in {"seek", "set", "write"} =>
    LET o == call.o IN
      /\ object[o] # NoObject /\ object[o].fd = dir[o] /\ dir[o] # NoInode
      /\ Len(data[dir[o]]) < MaxSize
      /\ txpc = IF o = "main" THEN "none" ELSE "active"
      /\ call.pc # "seek" => call.off = Len(data[dir[o]]) /\ object[o].offset = call.off
      /\ call.pc = "write" => object[o].cur_offset_ = call.off

(* The copy so far is how the original begins.                             *)
CopyInv ==
  txpc = "copy" =>
    LET have == data[dir["tx"]]
        all  == data[dir["main"]]
    IN  Len(have) <= Len(all) /\ \A n \in 1..Len(have) : have[n] = all[n]

FileInv ==
  /\ FileTypeOK
  /\ NamesInv
  /\ \A o \in Objects : DescriptorInv(o)
  /\ AppendInv
  /\ CopyInv

-----------------------------------------------------------------------------
(* The cells of a file.                                                    *)
Cells == Bytes \cup {Hole}

(* The values of Contents are the sequences of up to MaxSize cells.        *)
LEMMA ContentsAreSequences ==
  ASSUME NEW c
  PROVE  c \in Contents <=> c \in Seq(Cells) /\ Len(c) <= MaxSize
<1>1. ASSUME c \in Contents
      PROVE  c \in Seq(Cells) /\ Len(c) <= MaxSize
  <2>1. PICK n \in 0..MaxSize : c \in [1..n -> Cells]
    BY <1>1 DEF Contents, Cells
  <2>2. n \in Nat /\ n <= MaxSize
    BY FileBackedObjectAssumption
  <2>3. c \in Seq(Cells)
    BY <2>1, <2>2, SeqDef
  <2>4. Len(c) = n
    BY <2>1, <2>2, <2>3, LenProperties
  <2> QED
    BY <2>2, <2>3, <2>4
<1>2. ASSUME c \in Seq(Cells), Len(c) <= MaxSize
      PROVE  c \in Contents
  <2>1. Len(c) \in Nat /\ c \in [1..Len(c) -> Cells]
    BY <1>2, LenProperties
  <2>2. Len(c) \in 0..MaxSize
    BY <1>2, <2>1, FileBackedObjectAssumption
  <2> QED
    BY <2>1, <2>2 DEF Contents, Cells
<1> QED
  BY <1>1, <1>2

(* What a definition by position writes is a file's cells.                 *)
LEMMA ByPosition ==
  ASSUME NEW n \in 0..MaxSize, NEW f \in [1..n -> Cells]
  PROVE  f \in Contents /\ Len(f) = n
<1>1. n \in Nat /\ n <= MaxSize
  BY FileBackedObjectAssumption
<1>2. f \in Seq(Cells)
  BY <1>1, SeqDef
<1>3. DOMAIN f = 1..n
  OBVIOUS
<1>4. Len(f) = n
  BY <1>1, <1>2, <1>3, LenProperties
<1> QED
  BY <1>1, <1>2, <1>4, ContentsAreSequences

LEMMA CellIsCell ==
  ASSUME NEW c \in Contents, NEW n \in Nat \ {0}
  PROVE  Cell(c, n) \in Cells
<1>1. c \in Seq(Cells) /\ Len(c) \in Nat
  BY ContentsAreSequences, LenProperties
<1>2. CASE n <= Len(c)
  BY <1>1, <1>2, ElementOfSeq DEF Cell, Cells
<1>3. CASE ~(n <= Len(c))
  BY <1>3 DEF Cell, Cells
<1> QED
  BY <1>2, <1>3

(* Writing a cell, truncating and appending make contents of contents.     *)
LEMMA WrittenIsContents ==
  ASSUME NEW c \in Contents, NEW at \in 0..MaxSize - 1, NEW b \in Bytes
  PROVE  Written(c, at, b) \in Contents
<1> DEFINE n == Longer(at + 1, Len(c))
           e(i) == IF i = at + 1 THEN b ELSE Cell(c, i)
<1>1. Len(c) \in Nat /\ Len(c) <= MaxSize
  BY ContentsAreSequences, LenProperties
<1>2. n \in 0..MaxSize
  BY <1>1, FileBackedObjectAssumption DEF Longer
<1>3. \A i \in 1..n : e(i) \in Cells
  BY <1>2, CellIsCell DEF Cells
<1>4. [i \in 1..n |-> e(i)] \in [1..n -> Cells]
  BY <1>3
<1>5. Written(c, at, b) = [i \in 1..n |-> e(i)]
  BY DEF Written
<1> HIDE DEF n, e
<1> QED
  BY <1>2, <1>4, <1>5, ByPosition

LEMMA TruncatedIsContents ==
  ASSUME NEW c \in Contents, NEW size \in 0..MaxSize
  PROVE  Truncated(c, size) \in Contents
<1> DEFINE e(i) == Cell(c, i)
<1>1. \A i \in 1..size : e(i) \in Cells
  BY CellIsCell, FileBackedObjectAssumption
<1>2. Truncated(c, size) \in [1..size -> Cells]
  BY <1>1 DEF Truncated
<1> HIDE DEF e
<1> QED
  BY <1>2, ByPosition

LEMMA EmptyIsContents == <<>> \in Contents /\ Len(<<>>) = 0
<1>1. <<>> \in Seq(Cells) /\ Len(<<>>) = 0
  BY EmptySeq
<1>2. 0 <= MaxSize
  BY FileBackedObjectAssumption
<1> QED
  BY <1>1, <1>2, ContentsAreSequences

(* The copy of one more cell.                                              *)
LEMMA CopiedMore ==
  ASSUME NEW have \in Contents, NEW all \in Contents, Len(have) < Len(all),
         \A n \in 1..Len(have) : have[n] = all[n]
  PROVE  LET more == Append(have, all[Len(have) + 1]) IN
           /\ more \in Contents
           /\ Len(more) <= Len(all)
           /\ \A n \in 1..Len(more) : more[n] = all[n]
<1>1. /\ have \in Seq(Cells) /\ Len(have) \in Nat
      /\ all \in Seq(Cells) /\ Len(all) \in Nat /\ Len(all) <= MaxSize
  BY ContentsAreSequences, LenProperties
<1>2. all[Len(have) + 1] \in Cells
  BY <1>1, ElementOfSeq
<1> DEFINE more == Append(have, all[Len(have) + 1])
<1>3. /\ more \in Seq(Cells) /\ Len(more) = Len(have) + 1
      /\ \A i \in 1..Len(have) : more[i] = have[i]
      /\ more[Len(have) + 1] = all[Len(have) + 1]
  BY <1>1, <1>2, AppendProperties
<1> HIDE DEF more
<1>4. more \in Contents
  BY <1>1, <1>3, ContentsAreSequences, FileBackedObjectAssumption
<1> QED
  BY <1>1, <1>3, <1>4 DEF more

(* A copy of all cells is the original.                                    *)
LEMMA CopiedAll ==
  ASSUME NEW have \in Contents, NEW all \in Contents,
         ~(Len(have) < Len(all)), Len(have) <= Len(all),
         \A n \in 1..Len(have) : have[n] = all[n]
  PROVE  have = all
<1>1. /\ have \in Seq(Cells) /\ Len(have) \in Nat
      /\ all \in Seq(Cells) /\ Len(all) \in Nat
  BY ContentsAreSequences, LenProperties
<1> QED
  BY <1>1, SeqEqual

-----------------------------------------------------------------------------
(* The operators on the state of an object.                                *)
(* What an object may be between two calls.                                *)
Fit(o, s) ==
  /\ s \in FileObjects
  /\ s.fd # NoInode /\ txpc # "renamed" => s.fd = dir[o]
  /\ s.offset = s.cur_offset_

LEMMA ObjectIsFit ==
  ASSUME FileInv, NEW o \in Objects, object[o] # NoObject, ~Calling(o)
  PROVE  Fit(o, object[o])
BY DEF FileInv, FileTypeOK, DescriptorInv, Fit

LEMMA OpenedIsFit ==
  ASSUME FileTypeOK, NEW o \in Objects, NEW s, Fit(o, s)
  PROVE  /\ Fit(o, Opened(o, s))
         /\ Opened(o, s).fd = IF s.fd = NoInode THEN dir[o] ELSE s.fd
         /\ Opened(o, s).open_count_ = s.open_count_
<1>1. s \in FileObjects /\ dir[o] \in Inodes \cup {NoInode}
  BY DEF FileTypeOK, Fit
<1>2. CASE s.fd = NoInode
  <2>1. Opened(o, s) = [s EXCEPT !.fd = dir[o], !.offset = 0, !.cur_offset_ = 0]
    BY <1>2 DEF Opened
  <2>2. Opened(o, s) = [fd |-> dir[o], offset |-> 0, cur_offset_ |-> 0,
                        open_count_ |-> s.open_count_]
    BY <1>1, <2>1 DEF FileObjects
  <2>3. s.open_count_ \in Nat
    BY <1>1 DEF FileObjects
  <2>4. Opened(o, s) \in FileObjects
    BY <1>1, <2>2, <2>3 DEF FileObjects
  <2>5. /\ Opened(o, s).fd = dir[o]
        /\ Opened(o, s).offset = 0 /\ Opened(o, s).cur_offset_ = 0
        /\ Opened(o, s).open_count_ = s.open_count_
    BY <2>2
  <2> QED
    BY <1>2, <2>4, <2>5 DEF Fit
<1>3. CASE s.fd # NoInode
  BY <1>3 DEF Fit, Opened
<1> QED
  BY <1>2, <1>3

LEMMA ClosedIsFit ==
  ASSUME NEW o, NEW s, Fit(o, s)
  PROVE  /\ Fit(o, Closed(s))
         /\ Closed(s).open_count_ = s.open_count_
         /\ Closed(s).fd \in {NoInode, s.fd}
<1>1. /\ s \in FileObjects /\ s.offset = s.cur_offset_
      /\ s.open_count_ \in Nat
  BY DEF Fit, FileObjects
<1>2. CASE s.open_count_ > 0
  BY <1>2 DEF Closed
<1>3. CASE ~(s.open_count_ > 0)
  <2>1. Closed(s) = [fd |-> NoInode, offset |-> 0, cur_offset_ |-> 0,
                     open_count_ |-> s.open_count_]
    BY <1>1, <1>3 DEF Closed, AsClosed, FileObjects
  <2>2. Closed(s) \in FileObjects
    BY <1>1, <2>1 DEF FileObjects
  <2> QED
    BY <2>1, <2>2 DEF Fit
<1> QED
  BY <1>2, <1>3

(* A seek that is left out was not needed.                                 *)
LEMMA SoughtIsFit ==
  ASSUME NEW o, NEW s, Fit(o, s), NEW at \in 0..MaxSize - 1
  PROVE  /\ Fit(o, Sought(s, at))
         /\ Sought(s, at).offset = at
         /\ Sought(s, at).fd = s.fd
         /\ Sought(s, at).open_count_ = s.open_count_
<1>1. /\ s \in FileObjects /\ s.offset = s.cur_offset_
      /\ s.fd \in Inodes \cup {NoInode}
      /\ s.open_count_ \in Nat
  BY DEF Fit, FileObjects
<1>2. at \in Int /\ at # -1
  BY FileBackedObjectAssumption
<1>3. CASE s.cur_offset_ = at
  BY <1>1, <1>3 DEF Sought
<1>4. CASE s.cur_offset_ # at
  <2>1. Sought(s, at) = [fd |-> s.fd, offset |-> at, cur_offset_ |-> at,
                         open_count_ |-> s.open_count_]
    BY <1>1, <1>2, <1>4 DEF Sought, FileObjects
  <2>2. Sought(s, at) \in FileObjects
    BY <1>1, <1>2, <2>1 DEF FileObjects
  <2> QED
    BY <2>1, <2>2 DEF Fit
<1> QED
  BY <1>3, <1>4

LEMMA MovedIsFit ==
  ASSUME NEW o, NEW s, Fit(o, s), NEW cc \in {0, 1}
  PROVE  /\ Fit(o, Moved(s, cc))
         /\ Moved(s, cc).fd = s.fd
         /\ Moved(s, cc).open_count_ = s.open_count_
<1>1. /\ s \in FileObjects /\ s.offset = s.cur_offset_
      /\ s.fd \in Inodes \cup {NoInode} /\ s.offset \in Int
      /\ s.open_count_ \in Nat
  BY DEF Fit, FileObjects
<1>2. Moved(s, cc) = [fd |-> s.fd, offset |-> s.offset + cc,
                      cur_offset_ |-> s.cur_offset_ + cc, open_count_ |-> s.open_count_]
  <2> DEFINE x == s.offset + cc
             y == s.cur_offset_ + cc
  <2>1. Moved(s, cc) = [s EXCEPT !.offset = x, !.cur_offset_ = y]
    BY Zenon DEF Moved
  <2>2. x \in Int /\ y \in Int
    BY <1>1
  <2>3. DOMAIN Moved(s, cc) = {"fd", "offset", "cur_offset_", "open_count_"}
    BY <1>1, <2>1 DEF FileObjects
  <2>4. /\ Moved(s, cc).fd = s.fd
        /\ Moved(s, cc).offset = x /\ Moved(s, cc).cur_offset_ = y
        /\ Moved(s, cc).open_count_ = s.open_count_
    BY <1>1, <2>1 DEF FileObjects
  <2>5. Moved(s, cc) = [f \in DOMAIN Moved(s, cc) |-> Moved(s, cc)[f]]
    BY <1>1, <2>1 DEF FileObjects
  <2> HIDE DEF x, y
  <2>6. Moved(s, cc) = [fd |-> s.fd, offset |-> x, cur_offset_ |-> y,
                        open_count_ |-> s.open_count_]
    BY <2>3, <2>4, <2>5
  <2> QED
    BY <2>6 DEF x, y
<1>3. Moved(s, cc) \in FileObjects
  BY <1>1, <1>2 DEF FileObjects
<1> QED
  BY <1>1, <1>2, <1>3 DEF Fit

(* A call that leaves an object fit for the next.                          *)
LEMMA FitCall ==
  ASSUME FileInv,
         NEW o \in Objects, object[o] # NoObject, ~Calling(o),
         NEW s, Fit(o, s), SetObject(o, s),
         s.open_count_ = object[o].open_count_ \/ txpc \notin {"synced", "renamed"},
         UNCHANGED <<dir, data, disk, call, txpc>>, dirty' \subseteq Inodes
  PROVE  FileInv'
<1> USE DEF Objects
<1>1. /\ object \in [Objects -> FileObjects \cup {NoObject}]
      /\ s \in FileObjects /\ s # NoObject
      /\ object' = [object EXCEPT ![o] = s]
  BY FileBackedObjectAssumption DEF FileInv, FileTypeOK, Fit, SetObject
<1>2. FileTypeOK'
  BY <1>1 DEF FileInv, FileTypeOK
<1>3. call = NoCall \/ call.o # o
  BY DEF Calling
<1>4. NamesInv'
  BY <1>1, <1>3 DEF FileInv, NamesInv, FileTypeOK, Calls, NoCall
<1>5. \A p \in Objects : DescriptorInv(p)'
  BY <1>1 DEF FileInv, DescriptorInv, Calling, Fit
<1>6. AppendInv'
  BY <1>1, <1>3 DEF FileInv, AppendInv, FileTypeOK, Calls, NoCall
<1>7. CopyInv'
  BY DEF FileInv, CopyInv
<1> QED
  BY <1>2, <1>4, <1>5, <1>6, <1>7 DEF FileInv

(* One that changes the file.                                              *)
LEMMA FitChange ==
  ASSUME FileInv,
         NEW o \in Objects, object[o] # NoObject,
         txpc = IF o = "main" THEN "none" ELSE "active",
         NEW s, Fit(o, s), SetObject(o, s),
         NEW c \in Contents, SetData(dir[o], c), dir[o] \in Inodes,
         call' = NoCall, UNCHANGED <<dir, disk, txpc>>
  PROVE  FileInv'
<1> USE DEF Objects
<1>1. /\ object \in [Objects -> FileObjects \cup {NoObject}]
      /\ s \in FileObjects /\ s # NoObject
      /\ object' = [object EXCEPT ![o] = s]
      /\ data' = [data EXCEPT ![dir[o]] = c] /\ dirty' = dirty \cup {dir[o]}
  BY FileBackedObjectAssumption DEF FileInv, FileTypeOK, Fit, SetObject, SetData
<1>2. FileTypeOK'
  BY <1>1 DEF FileInv, FileTypeOK, Calls
<1>4. NamesInv'
  <2>1. call'.pc = "none"
    BY DEF NoCall
  <2>2. call.pc = "link" => txpc = "none"
    BY DEF FileInv, NamesInv
  <2>3. dir["main"] # NoInode \/ o = "tx"
    BY FileBackedObjectAssumption
  <2> QED
    BY <1>1, <2>1, <2>2, <2>3 DEF FileInv, NamesInv, FileTypeOK
<1>5. \A p \in Objects : DescriptorInv(p)'
  <2> SUFFICES ASSUME NEW p \in Objects, object'[p] # NoObject
               PROVE  /\ object'[p].fd # NoInode /\ txpc' # "renamed" => object'[p].fd = dir'[p]
                      /\ ~Calling(p)' => object'[p].offset = object'[p].cur_offset_
    BY DEF DescriptorInv
  <2>1. CASE p = o
    BY <1>1, <2>1 DEF Fit
  <2>2. CASE p # o
    <3>1. ~Calling(p)
      BY <2>2 DEF FileInv, NamesInv, AppendInv, FileTypeOK, Calls, Calling, NoCall
    <3> QED
      BY <1>1, <2>2, <3>1 DEF FileInv, DescriptorInv
  <2> QED
    BY <2>1, <2>2
<1>6. AppendInv'
  BY DEF AppendInv, NoCall
<1>7. CopyInv'
  BY DEF CopyInv
<1> QED
  BY <1>2, <1>4, <1>5, <1>6, <1>7 DEF FileInv

-----------------------------------------------------------------------------
(* The steps of an object.  Nothing is done against the advice.            *)
LEMMA ScopedIsFit ==
  ASSUME NEW o, NEW s, Fit(o, s), NEW n \in Nat
  PROVE  Fit(o, [s EXCEPT !.open_count_ = n])
<1>1. /\ s \in FileObjects /\ s.offset = s.cur_offset_
      /\ s.fd \in Inodes \cup {NoInode} /\ s.offset \in Int
  BY DEF Fit, FileObjects
<1>2. [s EXCEPT !.open_count_ = n] =
        [fd |-> s.fd, offset |-> s.offset, cur_offset_ |-> s.cur_offset_, open_count_ |-> n]
  BY <1>1 DEF FileObjects
<1>3. [s EXCEPT !.open_count_ = n] \in FileObjects
  BY <1>1, <1>2 DEF FileObjects
<1> QED
  BY <1>1, <1>2, <1>3 DEF Fit

LEMMA UsableIsFit ==
  ASSUME Careless = {}, FileInv, NEW o \in Objects, Usable(o)
  PROVE  object[o] # NoObject /\ ~Calling(o) /\ Fit(o, object[o])
<1>1. object[o] # NoObject /\ ~Calling(o)
  BY DEF Usable
<1> QED
  BY <1>1, ObjectIsFit

(* An object that may be changed has a file, and no call is under way.     *)
LEMMA WritableHasFile ==
  ASSUME Careless = {}, FileInv, NEW o \in Objects, Writable(o)
  PROVE  /\ object[o] # NoObject /\ Fit(o, object[o])
         /\ call = NoCall /\ dir[o] \in Inodes
         /\ txpc = IF o = "main" THEN "none" ELSE "active"
<1>1. object[o] # NoObject /\ ~Calling(o) /\ Fit(o, object[o])
  BY UsableIsFit DEF Writable
<1>2. txpc = IF o = "main" THEN "none" ELSE "active"
  BY DEF Writable, Usable, Objects
<1>3. call \in Calls /\ dir[o] \in Inodes \cup {NoInode}
  BY DEF FileInv, FileTypeOK
<1>4. call = NoCall
  <2>1. CASE call \in [pc : {"seek", "set", "write"}, o : Objects, off : Int]
    BY <1>1, <1>2, <2>1 DEF FileInv, AppendInv, Calling, Objects, NoCall
  <2>2. CASE call \in [pc : {"link"}, o : {"main"}]
    BY <1>1, <1>2, <2>2 DEF FileInv, NamesInv, Calling, Objects, NoCall
  <2> QED
    BY <1>3, <2>1, <2>2 DEF Calls
<1>5. dir[o] # NoInode
  BY <1>1, <1>2, <1>4 DEF FileInv, NamesInv, Objects, NoCall
<1> QED
  BY <1>1, <1>2, <1>3, <1>4, <1>5

(* write_bytes() of one cell, at a place in the file.                      *)
LEMMA WriteAtKeepsInv ==
  ASSUME FileInv, NEW o \in Objects, NEW at \in 0..MaxSize - 1, NEW b \in Bytes,
         object[o] # NoObject, Fit(o, object[o]), dir[o] \in Inodes,
         txpc = IF o = "main" THEN "none" ELSE "active",
         WriteAt(o, at, b), call' = NoCall, UNCHANGED <<dir, disk, txpc>>
  PROVE  /\ FileInv'
         /\ \E c \in Contents : SetData(dir[o], c)
<1> DEFINE r == Opened(o, object[o])
           s == Sought(r, at)
<1>1. FileTypeOK
  BY DEF FileInv
<1>2. /\ Fit(o, r)
      /\ r.fd = IF object[o].fd = NoInode THEN dir[o] ELSE object[o].fd
  BY <1>1, OpenedIsFit
<1>3. r.fd = dir[o]
  BY <1>2, FileBackedObjectAssumption DEF Fit, Objects
<1> HIDE DEF r
<1>4. Fit(o, s) /\ s.offset = at /\ s.fd = dir[o]
  BY <1>2, <1>3, SoughtIsFit
<1> HIDE DEF s
<1>5. Fit(o, Closed(Moved(s, 1)))
  BY <1>4, MovedIsFit, ClosedIsFit
<1>6. /\ SetObject(o, Closed(Moved(s, 1)))
      /\ SetData(dir[o], Written(data[dir[o]], at, b))
  BY <1>4 DEF WriteAt, s, r
<1>7. Written(data[dir[o]], at, b) \in Contents
  BY <1>1, WrittenIsContents DEF FileTypeOK
<1> QED
  BY <1>5, <1>6, <1>7, FitChange

LEMMA ReadKeepsInv ==
  ASSUME Careless = {}, FileInv, NEW o \in Objects, NEW at \in 0..MaxSize - 1,
         read_bytes(o, at)
  PROVE  FileInv'
<1> DEFINE r  == Opened(o, object[o])
           s  == Sought(r, at)
           cc == IF s.offset < Len(data[s.fd]) THEN 1 ELSE 0
<1>1. object[o] # NoObject /\ ~Calling(o) /\ Fit(o, object[o]) /\ FileTypeOK
  BY UsableIsFit DEF read_bytes, FileInv
<1>2. Fit(o, r) /\ r.open_count_ = object[o].open_count_
  BY <1>1, OpenedIsFit
<1> HIDE DEF r
<1>3. Fit(o, s) /\ s.open_count_ = object[o].open_count_
  BY <1>2, SoughtIsFit
<1>4. cc \in {0, 1}
  OBVIOUS
<1>5. SetObject(o, Closed(Moved(s, cc)))
  BY DEF read_bytes, r
<1> HIDE DEF s, cc
<1>6. Fit(o, Moved(s, cc)) /\ Moved(s, cc).open_count_ = object[o].open_count_
  BY <1>3, <1>4, MovedIsFit
<1>7. /\ Fit(o, Closed(Moved(s, cc)))
      /\ Closed(Moved(s, cc)).open_count_ = object[o].open_count_
  BY <1>6, ClosedIsFit
<1>8. dirty' \subseteq Inodes
  BY <1>1 DEF read_bytes, FileTypeOK
<1> QED
  BY <1>1, <1>5, <1>7, <1>8, FitCall DEF read_bytes

LEMMA WriteKeepsInv ==
  ASSUME Careless = {}, FileInv, NEW o \in Objects, NEW at \in 0..MaxSize - 1,
         NEW b \in Bytes, write_bytes(o, at, b)
  PROVE  FileInv' /\ \E c \in Contents : SetData(dir[o], c)
BY WritableHasFile, WriteAtKeepsInv DEF write_bytes

LEMMA SerializeKeepsInv ==
  ASSUME Careless = {}, FileInv, NEW o \in Objects, NEW b \in Bytes, serialize(o, b)
  PROVE  FileInv' /\ \E c \in Contents : SetData(dir[o], c)
<1>1. /\ object[o] # NoObject /\ Fit(o, object[o])
      /\ call = NoCall /\ dir[o] \in Inodes
      /\ txpc = IF o = "main" THEN "none" ELSE "active"
  BY WritableHasFile DEF serialize
<1>2. data[dir[o]] \in Contents
  BY <1>1 DEF FileInv, FileTypeOK
<1>3. Len(data[dir[o]]) \in Nat
  BY <1>2, ContentsAreSequences, LenProperties
<1>4. Len(data[dir[o]]) \in 0..MaxSize - 1
  BY <1>3, FileBackedObjectAssumption DEF serialize
<1> QED
  BY <1>1, <1>4, WriteAtKeepsInv DEF serialize

LEMMA TruncateKeepsInv ==
  ASSUME Careless = {}, FileInv, NEW o \in Objects, NEW size \in 0..MaxSize,
         truncate(o, size)
  PROVE  FileInv' /\ \E c \in Contents : SetData(dir[o], c)
<1> DEFINE s == Opened(o, object[o])
<1>1. /\ object[o] # NoObject /\ Fit(o, object[o])
      /\ call = NoCall /\ dir[o] \in Inodes
      /\ txpc = IF o = "main" THEN "none" ELSE "active"
  BY WritableHasFile DEF truncate
<1>2. Fit(o, s) /\ s.fd = IF object[o].fd = NoInode THEN dir[o] ELSE object[o].fd
  BY <1>1, OpenedIsFit DEF FileInv
<1>3. s.fd = dir[o]
  BY <1>1, <1>2, FileBackedObjectAssumption DEF Fit, Objects
<1>4. SetObject(o, Closed(s)) /\ SetData(dir[o], Truncated(data[dir[o]], size))
  BY <1>3 DEF truncate
<1> HIDE DEF s
<1>5. Fit(o, Closed(s))
  BY <1>2, ClosedIsFit
<1>6. Truncated(data[dir[o]], size) \in Contents
  BY <1>1, TruncatedIsContents DEF FileInv, FileTypeOK
<1> QED
  BY <1>1, <1>4, <1>5, <1>6, FitChange DEF truncate

LEMMA FsyncKeepsInv ==
  ASSUME Careless = {}, FileInv, NEW o \in Objects, fsync_data(o)
  PROVE  FileInv'
<1>1. object[o] # NoObject /\ ~Calling(o) /\ Fit(o, object[o])
  BY UsableIsFit DEF fsync_data
<1>2. SetObject(o, object[o]) /\ dirty' \subseteq Inodes
  BY DEF fsync_data, SetObject, FileInv, FileTypeOK
<1> QED
  BY <1>1, <1>2, FitCall DEF fsync_data

LEMMA SetFlagsKeepsInv ==
  ASSUME Careless = {}, FileInv, NEW o \in Objects, set_flags(o)
  PROVE  FileInv'
<1>1. object[o] # NoObject /\ ~Calling(o) /\ Fit(o, object[o])
  BY UsableIsFit DEF set_flags
<1>2. /\ Fit(o, Closed(object[o]))
      /\ Closed(object[o]).open_count_ = object[o].open_count_
  BY <1>1, ClosedIsFit
<1>3. dirty' \subseteq Inodes
  BY DEF set_flags, FileInv, FileTypeOK
<1> QED
  BY <1>1, <1>2, <1>3, FitCall DEF set_flags

LEMMA OpenScopeKeepsInv ==
  ASSUME Careless = {}, FileInv, NEW o \in Objects, OpenScope(o)
  PROVE  FileInv'
<1> DEFINE s == [object[o] EXCEPT !.open_count_ = @ + 1]
<1>1. object[o] # NoObject /\ ~Calling(o) /\ Fit(o, object[o])
  BY UsableIsFit DEF OpenScope
<1>2. object[o].open_count_ + 1 \in Nat
  BY <1>1 DEF Fit, FileObjects
<1>3. Fit(o, s)
  BY <1>1, <1>2, ScopedIsFit
<1> HIDE DEF s
<1>4. Fit(o, Opened(o, s))
  BY <1>3, OpenedIsFit DEF FileInv
<1>5. txpc \notin {"synced", "renamed"}
  BY DEF OpenScope, Usable, Committing, Objects
<1>6. SetObject(o, Opened(o, s)) /\ dirty' \subseteq Inodes
  BY DEF OpenScope, s, FileInv, FileTypeOK
<1> QED
  BY <1>1, <1>4, <1>5, <1>6, FitCall DEF OpenScope

LEMMA EndOpenScopeKeepsInv ==
  ASSUME Careless = {}, FileInv, NEW o \in Objects, EndOpenScope(o)
  PROVE  FileInv'
<1> DEFINE s == [object[o] EXCEPT !.open_count_ = @ - 1]
<1>1. object[o] # NoObject /\ ~Calling(o) /\ Fit(o, object[o])
  BY UsableIsFit DEF EndOpenScope
<1>2. object[o].open_count_ - 1 \in Nat
  BY <1>1 DEF EndOpenScope, Fit, FileObjects
<1>3. Fit(o, s)
  BY <1>1, <1>2, ScopedIsFit
<1> HIDE DEF s
<1>4. Fit(o, Closed(s))
  BY <1>3, ClosedIsFit
<1>5. txpc \notin {"synced", "renamed"}
  BY DEF EndOpenScope, Usable, FileInv, NamesInv, Objects
<1>6. SetObject(o, Closed(s)) /\ dirty' \subseteq Inodes
  BY DEF EndOpenScope, s, FileInv, FileTypeOK
<1> QED
  BY <1>1, <1>4, <1>5, <1>6, FitCall DEF EndOpenScope

(* append_bytes().                                                         *)
LEMMA AppendOpenKeepsInv ==
  ASSUME Careless = {}, FileInv, NEW o \in Objects, AppendOpen(o)
  PROVE  FileInv'
<1> DEFINE s == Opened(o, object[o])
<1> USE DEF Objects
<1>1. /\ object[o] # NoObject /\ Fit(o, object[o])
      /\ call = NoCall /\ dir[o] \in Inodes
      /\ txpc = IF o = "main" THEN "none" ELSE "active"
  BY WritableHasFile DEF AppendOpen
<1>2. Fit(o, s) /\ s.fd = dir[o]
  BY <1>1, OpenedIsFit, FileBackedObjectAssumption DEF FileInv, Fit
<1>3. /\ object \in [Objects -> FileObjects \cup {NoObject}]
      /\ s \in FileObjects /\ s # NoObject
      /\ object' = [object EXCEPT ![o] = s]
      /\ call' = [pc |-> "seek", o |-> o, off |-> 0]
      /\ UNCHANGED <<dir, data, disk, dirty, txpc>>
  BY <1>2, FileBackedObjectAssumption DEF AppendOpen, SetObject, FileInv, FileTypeOK, Fit
<1> HIDE DEF s
<1>4. FileTypeOK'
  <2>1. call' \in Calls
    BY <1>3 DEF Calls
  <2> QED
    BY <1>3, <2>1 DEF FileInv, FileTypeOK
<1>5. NamesInv'
  BY <1>1, <1>2, <1>3, FileBackedObjectAssumption DEF FileInv, NamesInv, NoCall
<1>6. \A p \in Objects : DescriptorInv(p)'
  BY <1>1, <1>2, <1>3 DEF FileInv, DescriptorInv, Calling, Fit, NoCall
<1>7. AppendInv'
  BY <1>1, <1>2, <1>3, FileBackedObjectAssumption DEF AppendInv, AppendOpen
<1>8. CopyInv'
  BY <1>3 DEF FileInv, CopyInv
<1> QED
  BY <1>4, <1>5, <1>6, <1>7, <1>8 DEF FileInv

(* What is known of append_bytes() between its steps.                      *)
LEMMA Appending ==
  ASSUME FileInv, call.pc \in {"seek", "set", "write"}
  PROVE  /\ call \in [pc : {"seek", "set", "write"}, o : Objects, off : Int]
         /\ object[call.o] \in FileObjects /\ object[call.o] # NoObject
         /\ object[call.o].fd = dir[call.o] /\ dir[call.o] \in Inodes
         /\ dir[call.o] # NoInode
         /\ Len(data[dir[call.o]]) \in 0..MaxSize - 1
         /\ txpc = IF call.o = "main" THEN "none" ELSE "active"
<1>1. call \in [pc : {"seek", "set", "write"}, o : Objects, off : Int]
  BY DEF FileInv, FileTypeOK, Calls, NoCall
<1>2. /\ object[call.o] # NoObject /\ object[call.o].fd = dir[call.o]
      /\ dir[call.o] # NoInode
      /\ Len(data[dir[call.o]]) < MaxSize
      /\ txpc = IF call.o = "main" THEN "none" ELSE "active"
  BY DEF FileInv, AppendInv
<1>3. object[call.o] \in FileObjects /\ dir[call.o] \in Inodes
  BY <1>1, <1>2 DEF FileInv, FileTypeOK
<1>4. Len(data[dir[call.o]]) \in Nat
  BY <1>3, ContentsAreSequences, LenProperties DEF FileInv, FileTypeOK
<1>5. Len(data[dir[call.o]]) \in 0..MaxSize - 1
  BY <1>2, <1>4, FileBackedObjectAssumption
<1> QED
  BY <1>1, <1>2, <1>3, <1>5

(* A step of append_bytes() that leaves the file alone.                    *)
LEMMA AppendStep ==
  ASSUME FileInv, call.pc \in {"seek", "set"},
         NEW s \in FileObjects, s.fd = object[call.o].fd,
         s.open_count_ = object[call.o].open_count_,
         s.offset = Len(data[dir[call.o]]),
         object' = [object EXCEPT ![call.o] = s],
         NEW pc \in {"set", "write"},
         call' = [pc |-> pc, o |-> call.o, off |-> Len(data[dir[call.o]])],
         pc = "write" => s.cur_offset_ = s.offset,
         UNCHANGED <<dir, data, disk, dirty, txpc>>
  PROVE  FileInv'
<1> DEFINE o == call.o
<1>1. /\ o \in Objects
      /\ object[o] \in FileObjects /\ object[o] # NoObject
      /\ object[o].fd = dir[o] /\ dir[o] \in Inodes /\ dir[o] # NoInode
      /\ Len(data[dir[o]]) \in 0..MaxSize - 1
      /\ txpc = IF o = "main" THEN "none" ELSE "active"
  BY Appending
<1>2. s # NoObject /\ object \in [Objects -> FileObjects \cup {NoObject}]
  BY FileBackedObjectAssumption DEF FileInv, FileTypeOK
<1> HIDE DEF o
<1>3. /\ object' = [object EXCEPT ![o] = s]
      /\ call' = [pc |-> pc, o |-> o, off |-> Len(data[dir[o]])]
      /\ s.fd = object[o].fd /\ s.offset = Len(data[dir[o]])
      /\ s.open_count_ = object[o].open_count_
  BY DEF o
<1>4. FileTypeOK'
  <2>1. call' \in Calls
    BY <1>1, <1>3, FileBackedObjectAssumption DEF Calls
  <2> QED
    BY <1>2, <1>3, <2>1 DEF FileInv, FileTypeOK
<1>5. NamesInv'
  BY <1>1, <1>2, <1>3 DEF FileInv, NamesInv, Objects
<1>6. \A p \in Objects : DescriptorInv(p)'
  <2> SUFFICES ASSUME NEW p \in Objects, object'[p] # NoObject
               PROVE  /\ object'[p].fd # NoInode /\ txpc' # "renamed" => object'[p].fd = dir'[p]
                      /\ ~Calling(p)' => object'[p].offset = object'[p].cur_offset_
    BY DEF DescriptorInv
  <2>1. CASE p = o
    BY <1>1, <1>2, <1>3, <2>1 DEF Calling, NoCall
  <2>2. CASE p # o
    BY <1>2, <1>3, <2>2 DEF FileInv, DescriptorInv, Calling, o
  <2> QED
    BY <2>1, <2>2
<1>7. AppendInv'
  BY <1>1, <1>2, <1>3, FileBackedObjectAssumption DEF AppendInv
<1>8. CopyInv'
  BY DEF FileInv, CopyInv
<1> QED
  BY <1>4, <1>5, <1>6, <1>7, <1>8 DEF FileInv

LEMMA AppendSeekKeepsInv ==
  ASSUME FileInv, AppendSeek
  PROVE  FileInv'
<1> DEFINE o   == call.o
           end == Len(data[dir[o]])
           s   == [object[o] EXCEPT !.offset = end]
<1>1. /\ call \in [pc : {"seek", "set", "write"}, o : Objects, off : Int]
      /\ object[o] \in FileObjects /\ object[o].fd = dir[o] /\ dir[o] # NoInode
      /\ end \in 0..MaxSize - 1
  BY Appending DEF AppendSeek
<1>2. /\ object' = [object EXCEPT ![o] = s]
      /\ call' = [call EXCEPT !.pc = "set", !.off = end]
  BY <1>1 DEF AppendSeek, SetObject
<1>3. call' = [pc |-> "set", o |-> o, off |-> end]
  BY <1>1, <1>2
<1>4. end \in Int
  BY <1>1, FileBackedObjectAssumption
<1> HIDE DEF end
<1>5. s = [fd |-> object[o].fd, offset |-> end, cur_offset_ |-> object[o].cur_offset_,
           open_count_ |-> object[o].open_count_]
  BY <1>1 DEF FileObjects
<1>6. s \in FileObjects
  BY <1>1, <1>4, <1>5 DEF FileObjects
<1> QED
  BY <1>2, <1>3, <1>5, <1>6, AppendStep DEF AppendSeek, end

LEMMA AppendSetKeepsInv ==
  ASSUME FileInv, AppendSet
  PROVE  FileInv'
<1> DEFINE o   == call.o
           off == call.off
           s   == [object[o] EXCEPT !.cur_offset_ = off]
<1>1. /\ call \in [pc : {"seek", "set", "write"}, o : Objects, off : Int]
      /\ object[o] \in FileObjects
  BY Appending DEF AppendSet
<1>2. off = Len(data[dir[o]]) /\ object[o].offset = off
  BY DEF FileInv, AppendInv, AppendSet
<1>3. /\ object' = [object EXCEPT ![o] = s]
      /\ call' = [call EXCEPT !.pc = "write"]
  BY DEF AppendSet
<1>4. call' = [pc |-> "write", o |-> o, off |-> off]
  BY <1>1, <1>3
<1>5. off \in Int
  BY <1>1
<1> HIDE DEF off
<1>6. s = [fd |-> object[o].fd, offset |-> object[o].offset, cur_offset_ |-> off,
           open_count_ |-> object[o].open_count_]
  BY <1>1 DEF FileObjects
<1>7. s \in FileObjects
  BY <1>1, <1>5, <1>6 DEF FileObjects
<1> HIDE DEF s
<1>8. /\ s.fd = object[o].fd /\ s.open_count_ = object[o].open_count_
      /\ s.offset = off /\ s.cur_offset_ = s.offset
  BY <1>2, <1>6
<1>9. call.pc = "set" /\ UNCHANGED <<dir, data, disk, dirty, txpc>>
  BY DEF AppendSet
<1> QED
  BY <1>2, <1>3, <1>4, <1>7, <1>8, <1>9, AppendStep

LEMMA AppendWriteKeepsInv ==
  ASSUME FileInv, NEW b \in Bytes, AppendWrite(b)
  PROVE  FileInv' /\ call.o \in Objects /\ \E c \in Contents : SetData(dir[call.o], c)
<1>1. /\ call.o \in Objects
      /\ object[call.o] \in FileObjects /\ object[call.o] # NoObject
      /\ object[call.o].fd = dir[call.o] /\ dir[call.o] \in Inodes
      /\ Len(data[dir[call.o]]) \in 0..MaxSize - 1
      /\ txpc = IF call.o = "main" THEN "none" ELSE "active"
  BY Appending DEF AppendWrite
<1>2. /\ call.off = Len(data[dir[call.o]])
      /\ object[call.o].offset = call.off /\ object[call.o].cur_offset_ = call.off
  BY DEF FileInv, AppendInv, AppendWrite
<1>3. Fit(call.o, object[call.o])
  BY <1>1, <1>2 DEF Fit
<1> QED
  BY <1>1, <1>2, <1>3, WriteAtKeepsInv DEF AppendWrite

-----------------------------------------------------------------------------
(* The steps that make names or take them away.                            *)

(* What has a name or a descriptor stays as it is.                         *)
LEMMA FreedKeepsUsed ==
  ASSUME FileTypeOK, FreeUnused
  PROVE  /\ data' \in [Inodes -> Contents] /\ dirty' \subseteq Inodes
         /\ \A i \in Inodes \cap InUse' : data'[i] = data[i] /\ (i \in dirty' <=> i \in dirty)
         /\ \A o \in Objects : dir'[o] \in InUse'
         /\ disk' \in InUse'
<1>1. data' = [i \in Inodes |-> IF i \in InUse' THEN data[i] ELSE <<>>]
      /\ dirty' = dirty \cap InUse'
  BY DEF FreeUnused
<1>2. (\A o \in Objects : dir'[o] \in InUse') /\ disk' \in InUse'
  BY DEF InUse
<1> DEFINE used == InUse'
<1>3. data' = [i \in Inodes |-> IF i \in used THEN data[i] ELSE <<>>]
      /\ dirty' = dirty \cap used
  BY <1>1
<1> HIDE DEF used
<1>4. data' \in [Inodes -> Contents] /\ dirty' \subseteq Inodes
  BY <1>3, EmptyIsContents DEF FileTypeOK
<1>5. \A i \in Inodes \cap used : data'[i] = data[i] /\ (i \in dirty' <=> i \in dirty)
  BY <1>3
<1> QED
  BY <1>2, <1>4, <1>5 DEF used

LEMMA CreatedIsNew ==
  ASSUME FileTypeOK, NEW o \in Objects, NEW cells \in Contents, Create(o, cells)
  PROVE  /\ dir[o] = NoInode
         /\ \E i \in Inodes :
              /\ dir' = [dir EXCEPT ![o] = i] /\ SetData(i, cells)
              /\ i # disk /\ i # NoInode /\ \A p \in Objects : i # dir[p]
         /\ data' \in [Inodes -> Contents] /\ dirty' \subseteq Inodes
         /\ dir' \in [Objects -> Inodes \cup {NoInode}]
<1>1. PICK i \in Unused : dir' = [dir EXCEPT ![o] = i] /\ SetData(i, cells)
  BY DEF Create
<1>2. i \in Inodes /\ i # disk /\ (\A p \in Objects : i # dir[p])
  BY DEF Unused, InUse
<1>3. i # NoInode
  BY <1>2, FileBackedObjectAssumption
<1>4. data' = [data EXCEPT ![i] = cells] /\ dirty' = dirty \cup {i}
  BY <1>1 DEF SetData
<1>5. data' \in [Inodes -> Contents] /\ dirty' \subseteq Inodes
  BY <1>2, <1>4 DEF FileTypeOK
<1>6. dir' \in [Objects -> Inodes \cup {NoInode}]
  BY <1>1, <1>2 DEF FileTypeOK
<1> QED
  BY <1>1, <1>2, <1>3, <1>5, <1>6 DEF Create

LEMMA NewObjectIsObject == NewObject \in FileObjects /\ NewObject # NoObject
BY FileBackedObjectAssumption DEF NewObject, FileObjects

LEMMA ClosedObjectIsObject ==
  ASSUME NEW s \in FileObjects
  PROVE  /\ AsClosed(s) \in FileObjects
         /\ AsClosed(s).fd = NoInode
         /\ AsClosed(s).offset = AsClosed(s).cur_offset_
         /\ AsClosed(s).open_count_ = s.open_count_
<1> DEFINE r == AsClosed(s)
<1>1. s.open_count_ \in Nat
  BY DEF FileObjects
<1>2. /\ DOMAIN r = {"fd", "offset", "cur_offset_", "open_count_"}
      /\ r.fd = NoInode /\ r.offset = 0 /\ r.cur_offset_ = 0
      /\ r.open_count_ = s.open_count_
      /\ r = [f \in DOMAIN r |-> r[f]]
  BY DEF AsClosed, FileObjects
<1> HIDE DEF r
<1>3. r = [fd |-> NoInode, offset |-> 0, cur_offset_ |-> 0,
           open_count_ |-> s.open_count_]
  BY <1>2
<1>4. r \in FileObjects
  BY <1>1, <1>3 DEF FileObjects
<1> QED
  BY <1>2, <1>4 DEF r

(* No call is under way at the object that nobody has a handle of, or in a *)
(* transaction that is none.                                               *)
LEMMA NobodyCalls ==
  ASSUME FileInv, object["main"] = NoObject
  PROVE  call = NoCall /\ txpc = "none" /\ object["tx"] = NoObject
<1>1. call \in Calls /\ txpc = "none" /\ object["tx"] = NoObject
  BY DEF FileInv, NamesInv, FileTypeOK
<1>2. call.pc \notin {"seek", "set", "write"}
  <2> SUFFICES ASSUME call.pc \in {"seek", "set", "write"}
               PROVE  FALSE
    OBVIOUS
  <2> QED
    BY <1>1, Appending DEF Objects
<1>3. call.pc # "link"
  BY DEF FileInv, NamesInv
<1> QED
  BY <1>1, <1>2, <1>3 DEF Calls, NoCall

LEMMA ReplaceUnlinkKeepsInv ==
  ASSUME Careless = {}, FileInv, ReplaceUnlink
  PROVE  FileInv'
<1> USE DEF Objects
<1> DEFINE s == AsClosed(object["main"])
<1>1. /\ object["main"] # NoObject /\ txpc = "none"
      /\ object["main"] \in FileObjects
  BY WritableHasFile DEF ReplaceUnlink, Fit
<1>2. s \in FileObjects /\ s.fd = NoInode /\ s.offset = s.cur_offset_ /\ s # NoObject
  BY <1>1, ClosedObjectIsObject, FileBackedObjectAssumption
<1>3. /\ object' = [object EXCEPT !["main"] = s]
      /\ dir' = [dir EXCEPT !["main"] = NoInode]
      /\ call' = [pc |-> "link", o |-> "main"]
      /\ UNCHANGED <<disk, txpc>>
  BY DEF ReplaceUnlink, SetObject
<1> HIDE DEF s
<1>4. data' \in [Inodes -> Contents] /\ dirty' \subseteq Inodes
  BY FreedKeepsUsed DEF ReplaceUnlink, FileInv
<1>5. FileTypeOK'
  BY <1>2, <1>3, <1>4 DEF FileInv, FileTypeOK, Calls
<1>6. NamesInv'
  BY <1>1, <1>2, <1>3 DEF FileInv, NamesInv, FileTypeOK
<1>7. \A p \in Objects : DescriptorInv(p)'
  <2>1. DescriptorInv("main")'
    BY <1>2, <1>3 DEF FileInv, FileTypeOK, DescriptorInv
  <2>2. DescriptorInv("tx")'
    BY <1>1, <1>3 DEF FileInv, NamesInv, FileTypeOK, DescriptorInv
  <2> QED
    BY <2>1, <2>2
<1>8. AppendInv' /\ CopyInv'
  BY <1>1, <1>3 DEF AppendInv, CopyInv
<1> QED
  BY <1>5, <1>6, <1>7, <1>8 DEF FileInv

LEMMA ReplaceLinkKeepsInv ==
  ASSUME FileInv, NEW cells \in Contents, ReplaceLink(cells)
  PROVE  FileInv'
<1> USE DEF Objects
<1>1. /\ txpc = "none" /\ object["main"] # NoObject /\ object["main"].fd = NoInode
      /\ object["tx"] = NoObject /\ call.pc = "link"
  BY DEF ReplaceLink, FileInv, NamesInv
<1>2. PICK i \in Inodes :
        /\ dir' = [dir EXCEPT !["main"] = i] /\ SetData(i, cells)
        /\ i # disk /\ i # NoInode /\ \A p \in Objects : i # dir[p]
  BY CreatedIsNew DEF ReplaceLink, FileInv
<1>3. /\ data' \in [Inodes -> Contents] /\ dirty' \subseteq Inodes
      /\ dir' \in [Objects -> Inodes \cup {NoInode}]
  BY CreatedIsNew DEF ReplaceLink, FileInv
<1>4. call' = NoCall /\ UNCHANGED <<disk, object, txpc>>
  BY DEF ReplaceLink
<1>5. FileTypeOK'
  BY <1>3, <1>4 DEF FileInv, FileTypeOK, Calls
<1>6. NamesInv'
  BY <1>1, <1>2, <1>4 DEF FileInv, NamesInv, FileTypeOK, NoCall
<1>7. \A p \in Objects : DescriptorInv(p)'
  <2>1. object["main"].offset = object["main"].cur_offset_
    BY <1>1 DEF FileInv, NamesInv
  <2> QED
    BY <1>1, <1>4, <2>1 DEF DescriptorInv
<1>8. AppendInv' /\ CopyInv'
  BY <1>1, <1>4 DEF AppendInv, CopyInv, NoCall
<1> QED
  BY <1>5, <1>6, <1>7, <1>8 DEF FileInv

LEMMA ReplaceFailsKeepsInv ==
  ASSUME FileInv, ReplaceFails
  PROVE  FileInv'
<1> USE DEF Objects
<1>1. /\ txpc = "none" /\ object["tx"] = NoObject /\ call.pc = "link"
      /\ dir["main"] = NoInode
  BY DEF ReplaceFails, FileInv, NamesInv
<1>2. /\ object' = [object EXCEPT !["main"] = NoObject]
      /\ call' = NoCall /\ UNCHANGED <<dir, data, disk, dirty, txpc>>
  BY DEF ReplaceFails, SetObject
<1>3. FileTypeOK'
  BY <1>2 DEF FileInv, FileTypeOK, Calls
<1>4. object'["main"] = NoObject /\ object'["tx"] = NoObject
  BY <1>1, <1>2 DEF FileInv, FileTypeOK
<1>5. NamesInv'
  BY <1>1, <1>2, <1>4 DEF FileInv, NamesInv, NoCall
<1>6. (\A p \in Objects : DescriptorInv(p)') /\ AppendInv' /\ CopyInv'
  BY <1>1, <1>2, <1>4 DEF DescriptorInv, AppendInv, CopyInv, NoCall
<1> QED
  BY <1>3, <1>5, <1>6 DEF FileInv

LEMMA NewObjectKeepsInv ==
  ASSUME FileInv, new_object
  PROVE  FileInv'
<1> USE DEF Objects
<1>1. object["main"] = NoObject /\ call = NoCall /\ txpc = "none" /\ object["tx"] = NoObject
  BY NobodyCalls DEF new_object
<1>2. PICK i \in Inodes :
        /\ dir' = [dir EXCEPT !["main"] = i] /\ SetData(i, <<>>)
        /\ i # disk /\ i # NoInode /\ \A p \in Objects : i # dir[p]
  BY CreatedIsNew, EmptyIsContents DEF new_object, FileInv
<1>3. /\ data' \in [Inodes -> Contents] /\ dirty' \subseteq Inodes
      /\ dir' \in [Objects -> Inodes \cup {NoInode}]
  BY CreatedIsNew, EmptyIsContents DEF new_object, FileInv
<1>4. UNCHANGED <<disk, object, call, txpc>>
  BY DEF new_object
<1>5. FileTypeOK'
  BY <1>3, <1>4 DEF FileInv, FileTypeOK
<1>6. NamesInv'
  BY <1>1, <1>2, <1>4 DEF FileInv, NamesInv, FileTypeOK, NoCall
<1>7. (\A p \in Objects : DescriptorInv(p)') /\ AppendInv' /\ CopyInv'
  BY <1>1, <1>4 DEF DescriptorInv, AppendInv, CopyInv, NoCall
<1> QED
  BY <1>5, <1>6, <1>7 DEF FileInv

LEMMA GetHandleKeepsInv ==
  ASSUME FileInv, get_handle
  PROVE  FileInv'
<1> USE DEF Objects
<1>1. object["main"] = NoObject /\ call = NoCall /\ txpc = "none" /\ object["tx"] = NoObject
  BY NobodyCalls DEF get_handle
<1>2. /\ object' = [object EXCEPT !["main"] = NewObject] /\ dir["main"] # NoInode
      /\ UNCHANGED <<dir, data, disk, dirty, call, txpc>>
  BY DEF get_handle, SetObject
<1>3. FileTypeOK'
  BY <1>2, NewObjectIsObject DEF FileInv, FileTypeOK
<1>4. object'["main"] = NewObject /\ object'["tx"] = NoObject
  BY <1>1, <1>2 DEF FileInv, FileTypeOK
<1>5. NamesInv'
  BY <1>1, <1>2, <1>4, NewObjectIsObject DEF FileInv, NamesInv, NoCall
<1>6. (\A p \in Objects : DescriptorInv(p)') /\ AppendInv' /\ CopyInv'
  BY <1>1, <1>2, <1>4 DEF DescriptorInv, AppendInv, CopyInv, NoCall, NewObject
<1> QED
  BY <1>3, <1>5, <1>6 DEF FileInv

LEMMA DelObjectKeepsInv ==
  ASSUME FileInv, NEW o \in Objects, del_object(o)
  PROVE  FileInv'
<1> USE DEF Objects
<1>1. /\ dir' = [dir EXCEPT ![o] = NoInode] /\ UNCHANGED <<disk, object, call, txpc>>
      /\ object[o] = NoObject /\ txpc = "none" /\ FreeUnused
  BY DEF del_object
<1>2. /\ data' \in [Inodes -> Contents] /\ dirty' \subseteq Inodes
      /\ \A i \in Inodes \cap InUse' : data'[i] = data[i] /\ (i \in dirty' <=> i \in dirty)
      /\ \A p \in Objects : dir'[p] \in InUse'
  BY <1>1, FreedKeepsUsed DEF FileInv
<1>3. FileTypeOK'
  BY <1>1, <1>2 DEF FileInv, FileTypeOK
<1>4. o = "main" => call = NoCall
  BY <1>1, NobodyCalls
<1>5. object["tx"] = NoObject
  BY <1>1 DEF FileInv, NamesInv
<1>6. NamesInv'
  BY <1>1, <1>4, <1>5 DEF FileInv, NamesInv, FileTypeOK, NoCall
<1>7. \A p \in Objects : DescriptorInv(p)'
  BY <1>1, <1>5 DEF FileInv, FileTypeOK, DescriptorInv, Calling
<1>8. AppendInv'
  <2> SUFFICES ASSUME call.pc \in {"seek", "set", "write"}
               PROVE  AppendInv'
    BY <1>1 DEF AppendInv
  <2>1. /\ call.o \in Objects /\ call.o # o /\ dir[call.o] \in Inodes
        /\ object[call.o] # NoObject
    BY <1>1, Appending
  <2>2. dir'[call.o] = dir[call.o]
    BY <1>1, <2>1 DEF FileInv, FileTypeOK
  <2>3. data'[dir[call.o]] = data[dir[call.o]]
    BY <1>2, <2>1, <2>2
  <2> QED
    BY <1>1, <2>2, <2>3 DEF FileInv, AppendInv
<1>9. CopyInv'
  BY <1>1 DEF CopyInv
<1> QED
  BY <1>3, <1>6, <1>7, <1>8, <1>9 DEF FileInv

-----------------------------------------------------------------------------
(* The steps of a transaction.                                             *)
LEMMA TxBlankKeepsInv ==
  ASSUME Careless = {}, FileInv, TxBlank
  PROVE  FileInv'
<1> USE DEF Objects
<1>1. /\ txpc = "none" /\ call = NoCall /\ object["main"] # NoObject
      /\ Create("tx", <<>>)
      /\ object' = [object EXCEPT !["tx"] = NewObject]
      /\ txpc' = "active" /\ UNCHANGED <<disk, call>>
  BY DEF TxBlank, SetObject
<1>2. PICK i \in Inodes :
        /\ dir' = [dir EXCEPT !["tx"] = i] /\ SetData(i, <<>>)
        /\ i # disk /\ i # NoInode /\ \A p \in Objects : i # dir[p]
  BY <1>1, CreatedIsNew, EmptyIsContents DEF FileInv
<1>3. /\ data' \in [Inodes -> Contents] /\ dirty' \subseteq Inodes
      /\ dir' \in [Objects -> Inodes \cup {NoInode}]
  BY <1>1, CreatedIsNew, EmptyIsContents DEF FileInv
<1>4. FileTypeOK'
  BY <1>1, <1>3, NewObjectIsObject DEF FileInv, FileTypeOK
<1>5. /\ dir'["tx"] = i /\ dir'["main"] = dir["main"]
      /\ object'["tx"] = NewObject /\ object'["main"] = object["main"]
  BY <1>1, <1>2 DEF FileInv, FileTypeOK
<1>6. NamesInv'
  BY <1>1, <1>2, <1>5, NewObjectIsObject DEF FileInv, NamesInv, NoCall
<1>7. \A p \in Objects : DescriptorInv(p)'
  BY <1>1, <1>5 DEF FileInv, DescriptorInv, Calling, NewObject
<1>8. AppendInv' /\ CopyInv'
  BY <1>1 DEF AppendInv, CopyInv, NoCall
<1> QED
  BY <1>4, <1>6, <1>7, <1>8 DEF FileInv

LEMMA TxCopyKeepsInv ==
  ASSUME FileInv, TxCopy
  PROVE  FileInv'
<1> USE DEF Objects
<1>1. /\ txpc = "none" /\ call = NoCall /\ object["main"] # NoObject
      /\ Create("tx", <<>>) /\ object["tx"] = NoObject
      /\ txpc' = "copy" /\ UNCHANGED <<disk, call, object>>
  BY DEF TxCopy, FileInv, NamesInv
<1>2. PICK i \in Inodes :
        /\ dir' = [dir EXCEPT !["tx"] = i] /\ SetData(i, <<>>)
        /\ i # disk /\ i # NoInode /\ \A p \in Objects : i # dir[p]
  BY <1>1, CreatedIsNew, EmptyIsContents DEF FileInv
<1>3. /\ data' \in [Inodes -> Contents] /\ dirty' \subseteq Inodes
      /\ dir' \in [Objects -> Inodes \cup {NoInode}]
  BY <1>1, CreatedIsNew, EmptyIsContents DEF FileInv
<1>4. FileTypeOK'
  BY <1>1, <1>3 DEF FileInv, FileTypeOK
<1>5. dir'["tx"] = i /\ dir'["main"] = dir["main"]
  BY <1>2 DEF FileInv, FileTypeOK
<1>6. NamesInv'
  BY <1>1, <1>2, <1>5 DEF FileInv, NamesInv, NoCall
<1>7. \A p \in Objects : DescriptorInv(p)'
  BY <1>1, <1>5 DEF FileInv, DescriptorInv, Calling
<1>8. AppendInv'
  BY <1>1 DEF AppendInv, NoCall
<1>9. CopyInv'
  <2>1. data'[i] = <<>>
    BY <1>2 DEF SetData, FileInv, FileTypeOK
  <2>2. dir["main"] \in Inodes
    BY <1>1 DEF FileInv, NamesInv, FileTypeOK, NoCall
  <2>3. data'[dir["main"]] \in Contents
    BY <1>3, <2>2
  <2>4. Len(data'[dir["main"]]) \in Nat
    BY <2>3, ContentsAreSequences, LenProperties
  <2> QED
    BY <1>5, <2>1, <2>4, EmptyIsContents DEF CopyInv
<1> QED
  BY <1>4, <1>6, <1>7, <1>8, <1>9 DEF FileInv

(* While the original is copied both have files.                           *)
LEMMA Copying ==
  ASSUME FileInv, txpc = "copy"
  PROVE  /\ dir["tx"] \in Inodes /\ dir["main"] \in Inodes /\ dir["tx"] # dir["main"]
         /\ data[dir["tx"]] \in Contents /\ data[dir["main"]] \in Contents
         /\ dir["tx"] # NoInode /\ dir["tx"] # disk /\ dir["main"] # NoInode
         /\ object["main"] # NoObject /\ object["tx"] = NoObject /\ call = NoCall
<1> USE DEF Objects
<1>1. /\ dir["tx"] # NoInode /\ dir["main"] # NoInode /\ dir["tx"] # disk
      /\ dir["tx"] # dir["main"]
      /\ object["main"] # NoObject /\ object["tx"] = NoObject /\ call = NoCall
  BY DEF FileInv, NamesInv, NoCall
<1> QED
  BY <1>1 DEF FileInv, FileTypeOK

LEMMA CopyMoreKeepsInv ==
  ASSUME FileInv, CopyMore
  PROVE  FileInv'
<1> USE DEF Objects
<1> DEFINE have == data[dir["tx"]]
           all  == data[dir["main"]]
           more == Append(have, all[Len(have) + 1])
<1>1. /\ dir["tx"] \in Inodes /\ dir["main"] \in Inodes /\ dir["tx"] # dir["main"]
      /\ have \in Contents /\ all \in Contents
      /\ dir["tx"] # NoInode /\ dir["tx"] # disk /\ dir["main"] # NoInode
      /\ object["main"] # NoObject /\ object["tx"] = NoObject
      /\ call = NoCall /\ txpc = "copy"
      /\ UNCHANGED <<dir, disk, call>>
  BY Copying DEF CopyMore
<1>2. Len(have) <= Len(all) /\ \A n \in 1..Len(have) : have[n] = all[n]
  BY <1>1 DEF FileInv, CopyInv
<1>3. AppendInv'
  BY <1>1 DEF AppendInv, NoCall
<1>4. CASE Len(have) < Len(all)
  <2>1. SetData(dir["tx"], more) /\ UNCHANGED <<object, txpc>>
    BY <1>4 DEF CopyMore
  <2>2. /\ more \in Contents /\ Len(more) <= Len(all)
        /\ \A n \in 1..Len(more) : more[n] = all[n]
    BY <1>1, <1>2, <1>4, CopiedMore
  <2> HIDE DEF more
  <2>3. /\ data' = [data EXCEPT ![dir["tx"]] = more]
        /\ dirty' = dirty \cup {dir["tx"]}
    BY <2>1 DEF SetData
  <2>4. FileTypeOK'
    BY <1>1, <2>1, <2>2, <2>3 DEF FileInv, FileTypeOK
  <2>5. NamesInv'
    BY <1>1, <2>1 DEF FileInv, NamesInv
  <2>6. \A p \in Objects : DescriptorInv(p)'
    BY <1>1, <2>1 DEF FileInv, DescriptorInv, Calling
  <2>7. data'[dir["tx"]] = more /\ data'[dir["main"]] = all
    BY <1>1, <2>3 DEF FileInv, FileTypeOK
  <2>8. CopyInv'
    BY <1>1, <2>2, <2>7 DEF CopyInv
  <2> QED
    BY <1>3, <2>4, <2>5, <2>6, <2>8 DEF FileInv
<1>5. CASE ~(Len(have) < Len(all))
  <2>1. /\ object' = [object EXCEPT !["tx"] = NewObject]
        /\ txpc' = "active" /\ UNCHANGED <<data, dirty>>
    BY <1>5 DEF CopyMore, SetObject
  <2>2. FileTypeOK'
    BY <1>1, <2>1, NewObjectIsObject DEF FileInv, FileTypeOK
  <2>3. object'["tx"] = NewObject /\ object'["main"] = object["main"]
    BY <2>1 DEF FileInv, FileTypeOK
  <2>4. NamesInv'
    BY <1>1, <2>1, <2>3, NewObjectIsObject DEF FileInv, NamesInv, NoCall
  <2>5. \A p \in Objects : DescriptorInv(p)'
    BY <1>1, <2>1, <2>3 DEF FileInv, DescriptorInv, Calling, NewObject
  <2>6. CopyInv'
    BY <2>1 DEF CopyInv
  <2> QED
    BY <1>3, <2>2, <2>4, <2>5, <2>6 DEF FileInv
<1> QED
  BY <1>4, <1>5

LEMMA UsableTxIsQuiet ==
  ASSUME Careless = {}, FileInv, Usable("tx"), ~Calling("tx")
  PROVE  /\ txpc = "active" /\ call = NoCall
         /\ object["tx"] # NoObject /\ object["main"] # NoObject
         /\ dir["tx"] \in Inodes /\ dir["tx"] # NoInode
         /\ dir["main"] \in Inodes /\ dir["main"] # NoInode
<1> USE DEF Objects
<1>1. /\ object["tx"] # NoObject /\ txpc = "active" /\ object["main"] # NoObject
      /\ dir["tx"] # NoInode /\ call.pc # "link"
  BY DEF Usable, FileInv, NamesInv
<1>2. call.pc \notin {"seek", "set", "write"}
  <2> SUFFICES ASSUME call.pc \in {"seek", "set", "write"}
               PROVE  FALSE
    OBVIOUS
  <2> QED
    BY <1>1, Appending DEF Calling, NoCall
<1>3. call = NoCall
  BY <1>1, <1>2 DEF FileInv, FileTypeOK, Calls
<1>4. dir["main"] # NoInode
  BY <1>1 DEF FileInv, NamesInv
<1> QED
  BY <1>1, <1>3, <1>4 DEF FileInv, FileTypeOK

LEMMA TxSyncKeepsInv ==
  ASSUME Careless = {}, FileInv, TxSync
  PROVE  FileInv'
<1> USE DEF Objects
<1>1. /\ txpc = "active" /\ call = NoCall /\ dir["tx"] # NoInode
      /\ object["tx"] # NoObject /\ object["main"] # NoObject
      /\ object["main"].open_count_ = 0
      /\ txpc' = "synced" /\ dirty' \subseteq dirty
      /\ UNCHANGED <<dir, data, disk, object, call>>
  BY UsableTxIsQuiet DEF TxSync
<1>2. FileTypeOK'
  BY <1>1 DEF FileInv, FileTypeOK
<1>3. NamesInv'
  BY <1>1 DEF FileInv, NamesInv, NoCall
<1>4. \A p \in Objects : DescriptorInv(p)'
  BY <1>1 DEF FileInv, DescriptorInv, Calling
<1>5. AppendInv' /\ CopyInv'
  BY <1>1 DEF AppendInv, CopyInv, NoCall
<1> QED
  BY <1>2, <1>3, <1>4, <1>5 DEF FileInv

LEMMA TxRenameKeepsInv ==
  ASSUME FileInv, TxRename
  PROVE  FileInv'
<1> USE DEF Objects
<1>1. /\ txpc = "synced" /\ txpc' = "renamed" /\ call = NoCall
      /\ object["tx"] # NoObject /\ object["main"] # NoObject
      /\ object["main"].open_count_ = 0
      /\ dir["tx"] # NoInode /\ dir["tx"] \in Inodes
      /\ dir' = [main |-> dir["tx"], tx |-> NoInode]
      /\ UNCHANGED <<disk, object, call>>
  BY DEF TxRename, FileInv, NamesInv, FileTypeOK
<1>2. data' \in [Inodes -> Contents] /\ dirty' \subseteq Inodes
  BY FreedKeepsUsed DEF FileInv, TxRename
<1>3. dir' \in [Objects -> Inodes \cup {NoInode}]
  <2>1. dir' = [p \in Objects |-> IF p = "main" THEN dir["tx"] ELSE NoInode]
    BY <1>1
  <2> QED
    BY <1>1, <2>1
<1>4. FileTypeOK'
  BY <1>1, <1>2, <1>3 DEF FileInv, FileTypeOK
<1>5. NamesInv'
  BY <1>1 DEF FileInv, NamesInv, NoCall
<1>6. \A p \in Objects : DescriptorInv(p)'
  BY <1>1 DEF FileInv, DescriptorInv, Calling
<1>7. AppendInv' /\ CopyInv'
  BY <1>1 DEF AppendInv, CopyInv, NoCall
<1> QED
  BY <1>4, <1>5, <1>6, <1>7 DEF FileInv

(* reload() opens the file that the commit has put there.                  *)
LEMMA ReloadedIsObject ==
  ASSUME FileTypeOK, NEW s \in FileObjects, s.open_count_ = 0
  PROVE  /\ Reloaded(s) \in FileObjects
         /\ Reloaded(s).fd = dir["main"]
         /\ Reloaded(s).offset = Reloaded(s).cur_offset_
<1> DEFINE c == AsClosed(s)
<1>1. c \in FileObjects /\ c.fd = NoInode /\ c.offset = c.cur_offset_
  BY ClosedObjectIsObject
<1>2. Closed(s) = c
  BY DEF Closed
<1> HIDE DEF c
<1>3. Fit("main", c)
  BY <1>1 DEF Fit
<1>4. Fit("main", Opened("main", c)) /\ Opened("main", c).fd = dir["main"]
  BY <1>1, <1>3, OpenedIsFit DEF Objects
<1> QED
  BY <1>2, <1>4 DEF Reloaded, Fit

LEMMA TxReloadKeepsInv ==
  ASSUME FileInv, TxReload
  PROVE  FileInv'
<1> USE DEF Objects
<1> DEFINE s == Reloaded(object["main"])
<1>1. /\ txpc = "renamed" /\ txpc' = "none" /\ call = NoCall
      /\ object["main"] \in FileObjects /\ object["main"].open_count_ = 0
      /\ dir["tx"] = NoInode /\ dir["main"] # NoInode
      /\ object' = [main |-> s, tx |-> NoObject]
      /\ UNCHANGED <<dir, disk, call>>
  BY DEF TxReload, FileInv, NamesInv, FileTypeOK, NoCall
<1>2. data' \in [Inodes -> Contents] /\ dirty' \subseteq Inodes
  BY FreedKeepsUsed DEF FileInv, TxReload
<1>3. /\ s \in FileObjects /\ s # NoObject
      /\ s.fd = dir["main"] /\ s.offset = s.cur_offset_
  BY <1>1, ReloadedIsObject, FileBackedObjectAssumption DEF FileInv
<1> HIDE DEF s
<1>4. object' \in [Objects -> FileObjects \cup {NoObject}]
  <2>1. object' = [p \in Objects |-> IF p = "main" THEN s ELSE NoObject]
    BY <1>1
  <2> QED
    BY <1>3, <2>1
<1>5. FileTypeOK'
  BY <1>1, <1>2, <1>4 DEF FileInv, FileTypeOK
<1>6. NamesInv'
  BY <1>1, <1>3 DEF FileInv, NamesInv, NoCall
<1>7. \A p \in Objects : DescriptorInv(p)'
  BY <1>1, <1>3 DEF DescriptorInv
<1>8. AppendInv' /\ CopyInv'
  BY <1>1 DEF AppendInv, CopyInv, NoCall
<1> QED
  BY <1>5, <1>6, <1>7, <1>8 DEF FileInv

LEMMA TxAbortKeepsInv ==
  ASSUME Careless = {}, FileInv, TxAbort
  PROVE  FileInv'
<1> USE DEF Objects
<1>1. /\ txpc = "active" /\ call = NoCall /\ object["main"] # NoObject
      /\ dir["main"] # NoInode
      /\ dir' = [dir EXCEPT !["tx"] = NoInode]
      /\ object' = [object EXCEPT !["tx"] = NoObject]
      /\ txpc' = "none" /\ UNCHANGED <<disk, call>>
  BY UsableTxIsQuiet DEF TxAbort, SetObject
<1>2. data' \in [Inodes -> Contents] /\ dirty' \subseteq Inodes
  BY FreedKeepsUsed DEF FileInv, TxAbort
<1>3. FileTypeOK'
  BY <1>1, <1>2 DEF FileInv, FileTypeOK
<1>4. /\ dir'["tx"] = NoInode /\ dir'["main"] = dir["main"]
      /\ object'["tx"] = NoObject /\ object'["main"] = object["main"]
  BY <1>1 DEF FileInv, FileTypeOK
<1>5. NamesInv'
  BY <1>1, <1>4 DEF FileInv, NamesInv, NoCall
<1>6. \A p \in Objects : DescriptorInv(p)'
  BY <1>1, <1>4 DEF FileInv, DescriptorInv, Calling
<1>7. AppendInv' /\ CopyInv'
  BY <1>1 DEF AppendInv, CopyInv, NoCall
<1> QED
  BY <1>3, <1>5, <1>6, <1>7 DEF FileInv

-----------------------------------------------------------------------------
(* Crashes and the kernel.                                                 *)

(* No process, no descriptors and no calls.                                *)
LEMMA NoProcessKeepsInv ==
  ASSUME NoProcess, FileTypeOK',
         dir'["tx"] # NoInode => dir'["tx"] # dir'["main"] /\ dir'["tx"] # disk'
  PROVE  FileInv'
<1> USE DEF Objects
<1>1. /\ object'["main"] = NoObject /\ object'["tx"] = NoObject
      /\ call' = NoCall /\ txpc' = "none"
  BY DEF NoProcess
<1>2. NamesInv'
  BY <1>1 DEF NamesInv, NoCall
<1>3. (\A p \in Objects : DescriptorInv(p)') /\ AppendInv' /\ CopyInv'
  BY <1>1 DEF DescriptorInv, AppendInv, CopyInv, NoCall
<1> QED
  BY <1>2, <1>3 DEF FileInv

LEMMA ProcessCrashKeepsInv ==
  ASSUME FileInv, ProcessCrash
  PROVE  FileInv'
<1>1. data' \in [Inodes -> Contents] /\ dirty' \subseteq Inodes
  BY FreedKeepsUsed DEF FileInv, ProcessCrash
<1>2. UNCHANGED <<dir, disk>> /\ NoProcess
  BY DEF ProcessCrash
<1>3. FileTypeOK'
  BY <1>1, <1>2 DEF FileInv, FileTypeOK, NoProcess, Calls
<1> QED
  BY <1>2, <1>3, NoProcessKeepsInv DEF FileInv, NamesInv

LEMMA MachineCrashKeepsInv ==
  ASSUME FileInv, MachineCrash
  PROVE  FileInv'
<1> USE DEF Objects
<1>1. PICK left \in {NoInode} \cup (Inodes \ {disk}) : dir' = [main |-> disk, tx |-> left]
  BY DEF MachineCrash
<1>2. PICK cells \in IF disk \in dirty THEN Contents ELSE {<<>>} :
        data' = [i \in Inodes |-> IF i # disk THEN <<>>
                                  ELSE IF i \in dirty THEN cells ELSE data[i]]
  BY DEF MachineCrash
<1>3. NoProcess /\ disk' = disk /\ dirty' = {}
  BY DEF MachineCrash
<1>4. cells \in Contents
  BY EmptyIsContents
<1>5. data' \in [Inodes -> Contents]
  BY <1>2, <1>4, EmptyIsContents DEF FileInv, FileTypeOK
<1>6. dir' \in [Objects -> Inodes \cup {NoInode}]
  <2>1. dir' = [p \in Objects |-> IF p = "main" THEN disk ELSE left]
    BY <1>1
  <2> QED
    BY <2>1 DEF FileInv, FileTypeOK
<1>7. FileTypeOK'
  BY <1>3, <1>5, <1>6 DEF FileInv, FileTypeOK, NoProcess, Calls
<1>8. dir'["tx"] # NoInode => dir'["tx"] # dir'["main"] /\ dir'["tx"] # disk'
  BY <1>1, <1>3
<1> QED
  BY <1>3, <1>7, <1>8, NoProcessKeepsInv

LEMMA WriteNameKeepsInv ==
  ASSUME FileInv, WriteName
  PROVE  FileInv'
<1> USE DEF Objects
<1>1. /\ disk' = dir["main"] /\ UNCHANGED <<dir, object, call, txpc>>
  BY DEF WriteName
<1>2. /\ data' \in [Inodes -> Contents] /\ dirty' \subseteq Inodes
      /\ \A i \in Inodes \cap InUse' : data'[i] = data[i]
      /\ \A p \in Objects : dir'[p] \in InUse'
  BY FreedKeepsUsed DEF FileInv, WriteName
<1>3. FileTypeOK'
  BY <1>1, <1>2 DEF FileInv, FileTypeOK
<1>4. NamesInv'
  BY <1>1 DEF FileInv, NamesInv
<1>5. \A p \in Objects : DescriptorInv(p)'
  BY <1>1 DEF FileInv, DescriptorInv, Calling
<1>6. AppendInv'
  <2> SUFFICES ASSUME call.pc \in {"seek", "set", "write"}
               PROVE  AppendInv'
    BY <1>1 DEF AppendInv
  <2>1. data'[dir[call.o]] = data[dir[call.o]]
    BY <1>1, <1>2, Appending
  <2> QED
    BY <1>1, <2>1 DEF FileInv, AppendInv
<1>7. CopyInv'
  <2> SUFFICES ASSUME txpc = "copy"
               PROVE  CopyInv'
    BY <1>1 DEF CopyInv
  <2>1. data'[dir["tx"]] = data[dir["tx"]] /\ data'[dir["main"]] = data[dir["main"]]
    BY <1>1, <1>2, Copying
  <2> QED
    BY <1>1, <2>1 DEF FileInv, CopyInv
<1> QED
  BY <1>3, <1>4, <1>5, <1>6, <1>7 DEF FileInv

LEMMA WriteCellsKeepsInv ==
  ASSUME FileInv, NEW i \in Inodes, WriteCells(i)
  PROVE  FileInv'
<1>1. dirty' = dirty \ {i} /\ UNCHANGED <<dir, data, disk, object, call, txpc>>
  BY DEF WriteCells
<1>2. FileTypeOK'
  BY <1>1 DEF FileInv, FileTypeOK
<1>3. /\ NamesInv' /\ (\A p \in Objects : DescriptorInv(p)')
      /\ AppendInv' /\ CopyInv'
  BY <1>1 DEF FileInv, NamesInv, DescriptorInv, Calling, AppendInv, CopyInv
<1> QED
  BY <1>2, <1>3 DEF FileInv

-----------------------------------------------------------------------------
LEMMA FileInvInit == ObjectInit => FileInv
<1> SUFFICES ASSUME ObjectInit
             PROVE  FileInv
  OBVIOUS
<1> USE DEF Objects
<1>1. FileTypeOK
  BY EmptyIsContents DEF ObjectInit, FileTypeOK, Calls
<1>2. NamesInv
  BY DEF ObjectInit, NamesInv, NoCall
<1>3. (\A p \in Objects : DescriptorInv(p)) /\ AppendInv /\ CopyInv
  BY DEF ObjectInit, DescriptorInv, AppendInv, CopyInv, NoCall
<1> QED
  BY <1>1, <1>2, <1>3 DEF FileInv

LEMMA FileInvStep ==
  ASSUME Careless = {}, FileInv, [ObjectNext]_objectVars
  PROVE  FileInv'
<1>1. ASSUME NEW o \in Objects, NEW at \in 0..MaxSize - 1, read_bytes(o, at)
      PROVE  FileInv'
  BY <1>1, ReadKeepsInv
<1>2. ASSUME NEW o \in Objects, NEW at \in 0..MaxSize - 1, NEW b \in Bytes, write_bytes(o, at, b)
      PROVE  FileInv'
  BY <1>2, WriteKeepsInv
<1>3. ASSUME NEW o \in Objects, NEW b \in Bytes, serialize(o, b)
      PROVE  FileInv'
  BY <1>3, SerializeKeepsInv
<1>4. ASSUME NEW o \in Objects, NEW size \in 0..MaxSize, truncate(o, size)
      PROVE  FileInv'
  BY <1>4, TruncateKeepsInv
<1>5. ASSUME NEW o \in Objects,
             AppendOpen(o) \/ fsync_data(o) \/ set_flags(o) \/ OpenScope(o)
               \/ EndOpenScope(o) \/ del_object(o)
      PROVE  FileInv'
  BY <1>5, AppendOpenKeepsInv, FsyncKeepsInv, SetFlagsKeepsInv, OpenScopeKeepsInv,
     EndOpenScopeKeepsInv, DelObjectKeepsInv
<1>6. CASE AppendSeek \/ AppendSet \/ \E b \in Bytes : AppendWrite(b)
  BY <1>6, AppendSeekKeepsInv, AppendSetKeepsInv, AppendWriteKeepsInv
<1>7. CASE ReplaceUnlink \/ ReplaceFails \/ \E cells \in Contents : ReplaceLink(cells)
  BY <1>7, ReplaceUnlinkKeepsInv, ReplaceFailsKeepsInv, ReplaceLinkKeepsInv
<1>8. CASE new_object \/ get_handle
  BY <1>8, NewObjectKeepsInv, GetHandleKeepsInv
<1>9. CASE TxBlank \/ TxCopy \/ CopyMore \/ TxSync \/ TxRename \/ TxReload \/ TxAbort
  BY <1>9, TxBlankKeepsInv, TxCopyKeepsInv, CopyMoreKeepsInv, TxSyncKeepsInv,
     TxRenameKeepsInv, TxReloadKeepsInv, TxAbortKeepsInv
<1>10. CASE ProcessCrash \/ WriteName \/ (\E i \in Inodes : WriteCells(i)) \/ MachineCrash
  BY <1>10, ProcessCrashKeepsInv, WriteNameKeepsInv, WriteCellsKeepsInv,
     MachineCrashKeepsInv
<1>11. CASE UNCHANGED objectVars
  BY <1>11 DEF objectVars, FileInv, FileTypeOK, NamesInv, DescriptorInv, Calling,
               AppendInv, CopyInv
<1> QED
  BY <1>1, <1>2, <1>3, <1>4, <1>5, <1>6, <1>7, <1>8, <1>9, <1>10, <1>11 DEF ObjectNext

(* An open object has a descriptor of its file as it is now, at the offset *)
(* that cur_offset_ says, so that no call of FileBackedObject reads or     *)
(* writes a file that a commit or a replacement has done away with.        *)
THEOREM ObjectDescriptorAgrees ==
  ASSUME Careless = {}
  PROVE  ObjectSpec => []DescriptorAgrees
<1>1. ObjectInit => FileInv
  BY FileInvInit
<1>2. FileInv /\ [ObjectNext]_objectVars => FileInv'
  BY FileInvStep
<1>3. FileInv => DescriptorAgrees
  BY DEF FileInv, DescriptorInv, DescriptorAgrees
<1> QED
  BY <1>1, <1>2, <1>3, PTL DEF ObjectSpec

-----------------------------------------------------------------------------
(* What the abstract TxObject sees of a FileBackedObject.                  *)
Value    == IF dir["main"] = NoInode THEN NoInode ELSE data[dir["main"]]
IsSynced == dir["main"] \notin dirty
Work     == IF InTx THEN data[dir["tx"]] ELSE NoInode
WorkIsSynced == InTx => dir["tx"] \notin dirty
Stable   == IF disk = NoInode THEN NoInode
            ELSE IF disk \in dirty THEN NoObject ELSE data[disk]

SameObject == Value' = Value /\ IsSynced' = IsSynced
SameWork   == Work' = Work /\ WorkIsSynced' = WorkIsSynced

AbstractStep == [Abstract!Next]_(Abstract!vars)

(* Its actions in these words.                                             *)
LEMMA AbstractChange ==
  ASSUME Work = NoInode, Value' \in Contents \cup {NoInode},
         IsSynced' = (Value' = NoInode), Stable' \in {Stable, NoObject}, SameWork
  PROVE  AbstractStep
BY DEF AbstractStep, Abstract!Next, Abstract!Change, Abstract!Values,
       Value, IsSynced, Work, WorkIsSynced, Stable, SameWork

LEMMA AbstractSync ==
  ASSUME IsSynced' = TRUE, Stable' \in {Stable, Value}, Value' = Value, SameWork
  PROVE  AbstractStep
BY DEF AbstractStep, Abstract!Next, Abstract!Sync,
       Value, IsSynced, Work, WorkIsSynced, Stable, SameWork

LEMMA AbstractBegin ==
  ASSUME Work = NoInode, Value # NoInode, Work' \in {<<>>, Value},
         Stable' = Stable, SameObject
  PROVE  AbstractStep
<1>1. \E blank \in BOOLEAN : Work' = IF blank THEN <<>> ELSE Value
  <2>1. CASE Work' = <<>>
    BY <2>1
  <2>2. CASE Work' = Value
    BY <2>2
  <2> QED
    BY <2>1, <2>2
<1>2. WorkIsSynced' \in BOOLEAN
  BY DEF WorkIsSynced
<1> QED
  BY <1>1, <1>2 DEF AbstractStep, Abstract!Next, Abstract!Begin,
       Value, IsSynced, Work, WorkIsSynced, Stable, SameObject

LEMMA AbstractChangeWork ==
  ASSUME Work # NoInode, Work' \in Contents, WorkIsSynced' = FALSE,
         Stable' = Stable, SameObject
  PROVE  AbstractStep
BY DEF AbstractStep, Abstract!Next, Abstract!ChangeWork,
       Value, IsSynced, Work, WorkIsSynced, Stable, SameObject

LEMMA AbstractSyncWork ==
  ASSUME WorkIsSynced' = TRUE, Work' = Work, Stable' = Stable, SameObject
  PROVE  AbstractStep
BY DEF AbstractStep, Abstract!Next, Abstract!SyncWork,
       Value, IsSynced, Work, WorkIsSynced, Stable, SameObject

LEMMA AbstractCommit ==
  ASSUME Work # NoInode, Value' = Work, IsSynced' = WorkIsSynced,
         Work' = NoInode, WorkIsSynced' = TRUE, Stable' = Stable
  PROVE  AbstractStep
BY DEF AbstractStep, Abstract!Next, Abstract!Commit,
       Value, IsSynced, Work, WorkIsSynced, Stable

LEMMA AbstractDiscard ==
  ASSUME Work' = NoInode, WorkIsSynced' = TRUE, Stable' = Stable, SameObject
  PROVE  AbstractStep
BY DEF AbstractStep, Abstract!Next, Abstract!Discard,
       Value, IsSynced, Work, WorkIsSynced, Stable, SameObject

LEMMA AbstractSettle ==
  ASSUME \/ Stable' = IF IsSynced THEN Value ELSE NoObject
         \/ Stable = NoObject /\ Stable' \in Contents,
         SameObject, SameWork
  PROVE  AbstractStep
BY DEF AbstractStep, Abstract!Next, Abstract!Settle,
       Value, IsSynced, Work, WorkIsSynced, Stable, SameObject, SameWork

LEMMA AbstractMachineCrash ==
  ASSUME IF Stable = NoObject THEN Value' \in Contents ELSE Value' = Stable,
         Stable' = Value', IsSynced' = TRUE,
         Work' = NoInode, WorkIsSynced' = TRUE
  PROVE  AbstractStep
BY DEF AbstractStep, Abstract!Next, Abstract!MachineCrash,
       Value, IsSynced, Work, WorkIsSynced, Stable

LEMMA AbstractStutter ==
  ASSUME SameObject, SameWork, Stable' = Stable
  PROVE  AbstractStep
BY DEF AbstractStep, Abstract!vars,
       Value, IsSynced, Work, WorkIsSynced, Stable, SameObject, SameWork

-----------------------------------------------------------------------------
(* The steps of a FileBackedObject are steps of a TxObject.                *)
LEMMA NoInodeIsNoContents == NoInode \notin Contents /\ NoObject \notin Contents \cup {NoInode}
BY FileBackedObjectAssumption

LEMMA SeenUnchanged ==
  ASSUME UNCHANGED <<dir, data, disk, dirty>>, InTx' = InTx
  PROVE  AbstractStep
<1>1. SameObject /\ SameWork /\ Stable' = Stable
  BY DEF SameObject, SameWork, Value, IsSynced, Work, WorkIsSynced, Stable
<1> QED
  BY <1>1, AbstractStutter

LEMMA SeenOfFreed ==
  ASSUME FileTypeOK, FreeUnused
  PROVE  /\ dir'["main"] = dir["main"] => SameObject
         /\ disk' = disk => Stable' = Stable
<1> USE DEF Objects
<1>1. /\ \A i \in Inodes \cap InUse' : data'[i] = data[i] /\ (i \in dirty' <=> i \in dirty)
      /\ dir'["main"] \in InUse' /\ disk' \in InUse' /\ dirty' \subseteq Inodes
  BY FreedKeepsUsed
<1>2. /\ dir["main"] \in Inodes \cup {NoInode} /\ disk \in Inodes \cup {NoInode}
      /\ dirty \subseteq Inodes /\ NoInode \notin Inodes
  BY FileBackedObjectAssumption DEF FileTypeOK
<1>3. ASSUME dir'["main"] = dir["main"]
      PROVE  SameObject
  BY <1>1, <1>2, <1>3 DEF SameObject, Value, IsSynced
<1>4. ASSUME disk' = disk
      PROVE  Stable' = Stable
  BY <1>1, <1>2, <1>4 DEF Stable
<1> QED
  BY <1>3, <1>4

LEMMA SeenOfWork ==
  ASSUME FileInv
  PROVE  /\ InTx => Work \in Contents /\ Work # NoInode /\ dir["tx"] \in Inodes
                      /\ dir["tx"] # dir["main"] /\ dir["tx"] # disk
         /\ ~InTx => Work = NoInode /\ WorkIsSynced = TRUE
<1>1. ASSUME InTx
      PROVE  Work \in Contents /\ Work # NoInode /\ dir["tx"] \in Inodes
               /\ dir["tx"] # dir["main"] /\ dir["tx"] # disk
  <2>1. /\ dir["tx"] # NoInode /\ dir["tx"] # dir["main"] /\ dir["tx"] # disk
    BY <1>1 DEF InTx, FileInv, NamesInv
  <2>2. dir["tx"] \in Inodes /\ data[dir["tx"]] \in Contents
    BY <2>1 DEF FileInv, FileTypeOK, Objects
  <2> QED
    BY <1>1, <2>1, <2>2, NoInodeIsNoContents DEF Work
<1>2. ASSUME ~InTx
      PROVE  Work = NoInode /\ WorkIsSynced = TRUE
  BY <1>2 DEF Work, WorkIsSynced
<1> QED
  BY <1>1, <1>2

(* The file of the object, or of the transaction, is changed.              *)
LEMMA SeenOfChange ==
  ASSUME FileInv, NEW o \in Objects, dir[o] \in Inodes,
         txpc = IF o = "main" THEN "none" ELSE "active",
         NEW c \in Contents, SetData(dir[o], c), UNCHANGED <<dir, disk, txpc>>
  PROVE  AbstractStep
<1>1. data' = [data EXCEPT ![dir[o]] = c] /\ dirty' = dirty \cup {dir[o]}
  BY DEF SetData
<1>2. /\ data \in [Inodes -> Contents] /\ disk \in Inodes \cup {NoInode}
      /\ dir["main"] \in Inodes \cup {NoInode} /\ NoInode \notin Inodes
  BY FileBackedObjectAssumption DEF FileInv, FileTypeOK, Objects
<1>3. CASE o = "main"
  <2>1. ~InTx /\ ~InTx'
    BY <1>3 DEF InTx
  <2>2. Work = NoInode /\ SameWork
    BY <2>1 DEF Work, WorkIsSynced, SameWork
  <2>3. Value' = c /\ IsSynced' = FALSE
    BY <1>1, <1>2, <1>3 DEF Value, IsSynced
  <2>4. Stable' \in {Stable, NoObject}
    BY <1>1, <1>2, <1>3 DEF Stable
  <2>5. Value' # NoInode
    BY <2>3, NoInodeIsNoContents
  <2> QED
    BY <2>2, <2>3, <2>4, <2>5, AbstractChange
<1>4. CASE o = "tx"
  <2>1. InTx /\ InTx'
    BY <1>4 DEF InTx
  <2>2. /\ Work # NoInode /\ dir["tx"] \in Inodes
        /\ dir["tx"] # dir["main"] /\ dir["tx"] # disk
    BY <2>1, SeenOfWork
  <2>3. Work' = c /\ WorkIsSynced' = FALSE
    BY <1>1, <1>2, <1>4, <2>1 DEF Work, WorkIsSynced
  <2>4. SameObject /\ Stable' = Stable
    BY <1>1, <1>2, <1>4, <2>2 DEF SameObject, Value, IsSynced, Stable
  <2> QED
    BY <2>2, <2>3, <2>4, AbstractChangeWork
<1> QED
  BY <1>3, <1>4 DEF Objects

(* The cells of a file have reached the disk.                              *)
LEMMA SeenOfSync ==
  ASSUME FileInv, NEW i, dirty' = dirty \ {i}, UNCHANGED <<dir, data, disk>>,
         InTx' = InTx
  PROVE  AbstractStep
<1>1. /\ data \in [Inodes -> Contents] /\ disk \in Inodes \cup {NoInode}
      /\ dir["main"] \in Inodes \cup {NoInode}
      /\ dirty \subseteq Inodes /\ NoInode \notin Inodes
  BY FileBackedObjectAssumption DEF FileInv, FileTypeOK, Objects
<1>2. Value' = Value /\ Work' = Work
  BY DEF Value, Work
<1>3. CASE i = dir["main"]
  <2>1. IsSynced' = TRUE
    BY <1>3 DEF IsSynced
  <2>2. Stable' \in {Stable, Value}
    BY <1>1, <1>3 DEF Stable, Value
  <2>3. SameWork
    BY <1>2, <1>3, SeenOfWork DEF SameWork, WorkIsSynced
  <2> QED
    BY <1>2, <2>1, <2>2, <2>3, AbstractSync
<1>4. CASE i # dir["main"] /\ InTx /\ i = dir["tx"]
  <2>1. WorkIsSynced' = TRUE
    BY <1>4 DEF WorkIsSynced
  <2>2. SameObject /\ Stable' = Stable
    BY <1>2, <1>4, SeenOfWork DEF SameObject, IsSynced, Stable
  <2> QED
    BY <1>2, <2>1, <2>2, AbstractSyncWork
<1>5. CASE i # dir["main"] /\ ~(InTx /\ i = dir["tx"])
  <2>1. SameObject /\ SameWork
    BY <1>2, <1>5 DEF SameObject, SameWork, IsSynced, WorkIsSynced
  <2>2. CASE i = disk /\ i \in dirty
    <3>1. Stable = NoObject /\ Stable' \in Contents
      BY <1>1, <2>2 DEF Stable
    <3> QED
      BY <2>1, <3>1, AbstractSettle
  <2>3. CASE ~(i = disk /\ i \in dirty)
    <3>1. Stable' = Stable
      BY <2>3 DEF Stable
    <3> QED
      BY <2>1, <3>1, AbstractStutter
  <2> QED
    BY <2>2, <2>3
<1> QED
  BY <1>3, <1>4, <1>5

(* The object is created, or its name is linked again.                     *)
LEMMA SeenOfCreated ==
  ASSUME FileInv, txpc = "none", NEW cells \in Contents, Create("main", cells),
         UNCHANGED <<disk, txpc>>
  PROVE  AbstractStep
<1> USE DEF Objects
<1>1. PICK i \in Inodes :
        /\ dir' = [dir EXCEPT !["main"] = i] /\ SetData(i, cells)
        /\ i # disk /\ i # NoInode
  BY CreatedIsNew DEF FileInv
<1>2. /\ data' = [data EXCEPT ![i] = cells] /\ dirty' = dirty \cup {i}
      /\ dir'["main"] = i
  BY <1>1 DEF SetData, FileInv, FileTypeOK
<1>3. Value' = cells /\ IsSynced' = FALSE
  BY <1>1, <1>2 DEF Value, IsSynced, FileInv, FileTypeOK
<1>4. Stable' = Stable
  BY <1>1, <1>2 DEF Stable, FileInv, FileTypeOK
<1>5. Work = NoInode /\ SameWork
  BY DEF InTx, Work, WorkIsSynced, SameWork
<1>6. Value' # NoInode
  BY <1>3, NoInodeIsNoContents
<1> QED
  BY <1>3, <1>4, <1>5, <1>6, AbstractChange

(* The object loses its name.                                              *)
LEMMA SeenOfGone ==
  ASSUME FileInv, txpc = "none", dir' = [dir EXCEPT !["main"] = NoInode], FreeUnused,
         UNCHANGED <<disk, txpc>>
  PROVE  AbstractStep
<1> USE DEF Objects
<1>1. dir'["main"] = NoInode
  BY DEF FileInv, FileTypeOK
<1>2. dirty' \subseteq Inodes /\ NoInode \notin Inodes
  BY FreedKeepsUsed, FileBackedObjectAssumption DEF FileInv
<1>3. Value' = NoInode /\ IsSynced' = TRUE
  BY <1>1, <1>2 DEF Value, IsSynced
<1>4. Stable' = Stable
  BY SeenOfFreed DEF FileInv
<1>5. Work = NoInode /\ SameWork
  BY DEF InTx, Work, WorkIsSynced, SameWork
<1> QED
  BY <1>3, <1>4, <1>5, AbstractChange

(* The file of a transaction is created, which is its beginning if the     *)
(* transaction is to work on a blank one.                                  *)
LEMMA SeenOfTxCreated ==
  ASSUME FileInv, txpc = "none", dir["main"] # NoInode, Create("tx", <<>>),
         txpc' \in {"copy", "active"}, UNCHANGED disk
  PROVE  AbstractStep
<1> USE DEF Objects
<1>1. PICK i \in Inodes :
        /\ dir' = [dir EXCEPT !["tx"] = i] /\ SetData(i, <<>>)
        /\ i # disk /\ i # NoInode /\ \A p \in Objects : i # dir[p]
  BY CreatedIsNew, EmptyIsContents DEF FileInv
<1>2. /\ data' = [data EXCEPT ![i] = <<>>] /\ dirty' = dirty \cup {i}
      /\ dir'["tx"] = i /\ dir'["main"] = dir["main"]
  BY <1>1 DEF SetData, FileInv, FileTypeOK
<1>3. SameObject /\ Stable' = Stable
  BY <1>1, <1>2 DEF SameObject, Value, IsSynced, Stable, FileInv, FileTypeOK
<1>4. Work = NoInode /\ WorkIsSynced = TRUE
  BY DEF InTx, Work, WorkIsSynced
<1>5. CASE txpc' = "copy"
  <2>1. SameWork
    BY <1>4, <1>5 DEF SameWork, InTx, Work, WorkIsSynced
  <2> QED
    BY <1>3, <2>1, AbstractStutter
<1>6. CASE txpc' = "active"
  <2>1. Work' = <<>>
    BY <1>2, <1>6 DEF Work, InTx, FileInv, FileTypeOK
  <2>2. data[dir["main"]] \in Contents
    BY DEF FileInv, FileTypeOK
  <2>3. Value # NoInode
    BY <2>2, NoInodeIsNoContents DEF Value
  <2> QED
    BY <1>3, <1>4, <2>1, <2>3, AbstractBegin
<1> QED
  BY <1>5, <1>6

LEMMA SeenOfCopyMore ==
  ASSUME FileInv, CopyMore
  PROVE  AbstractStep
<1> DEFINE have == data[dir["tx"]]
           all  == data[dir["main"]]
           more == Append(have, all[Len(have) + 1])
<1>1. /\ dir["tx"] \in Inodes /\ dir["main"] \in Inodes /\ dir["tx"] # dir["main"]
      /\ have \in Contents /\ all \in Contents
      /\ dir["tx"] # disk /\ dir["main"] # NoInode /\ txpc = "copy"
      /\ UNCHANGED <<dir, disk>>
  BY Copying DEF CopyMore
<1>2. Len(have) <= Len(all) /\ \A n \in 1..Len(have) : have[n] = all[n]
  BY <1>1 DEF FileInv, CopyInv
<1>3. ~InTx /\ Work = NoInode
  BY <1>1 DEF InTx, Work
<1>4. CASE Len(have) < Len(all)
  <2>1. SetData(dir["tx"], more) /\ UNCHANGED txpc
    BY <1>4 DEF CopyMore
  <2> HIDE DEF more
  <2>2. /\ data' = [data EXCEPT ![dir["tx"]] = more]
        /\ dirty' = dirty \cup {dir["tx"]}
    BY <2>1 DEF SetData
  <2>3. SameObject /\ Stable' = Stable
    BY <1>1, <2>2 DEF SameObject, Value, IsSynced, Stable, FileInv, FileTypeOK
  <2>4. SameWork
    BY <1>1, <2>1 DEF SameWork, InTx, Work, WorkIsSynced
  <2> QED
    BY <2>3, <2>4, AbstractStutter
<1>5. CASE ~(Len(have) < Len(all))
  <2>1. txpc' = "active" /\ UNCHANGED <<data, dirty>>
    BY <1>5 DEF CopyMore
  <2>2. have = all
    BY <1>1, <1>2, <1>5, CopiedAll
  <2>3. Work' = Value
    BY <1>1, <2>1, <2>2 DEF Work, InTx, Value
  <2>4. SameObject /\ Stable' = Stable
    BY <1>1, <2>1 DEF SameObject, Value, IsSynced, Stable
  <2>5. Value # NoInode
    BY <1>1, NoInodeIsNoContents DEF Value
  <2> QED
    BY <1>3, <2>3, <2>4, <2>5, AbstractBegin
<1> QED
  BY <1>4, <1>5

(* The rename is the commit.                                               *)
LEMMA SeenOfTxRename ==
  ASSUME FileInv, TxRename
  PROVE  AbstractStep
<1> USE DEF Objects
<1>1. /\ txpc = "synced" /\ txpc' = "renamed"
      /\ dir' = [main |-> dir["tx"], tx |-> NoInode] /\ FreeUnused
      /\ UNCHANGED disk
  BY DEF TxRename
<1>2. /\ \A i \in Inodes \cap InUse' : data'[i] = data[i] /\ (i \in dirty' <=> i \in dirty)
      /\ \A p \in Objects : dir'[p] \in InUse'
  BY <1>1, FreedKeepsUsed DEF FileInv
<1>3. InTx /\ ~InTx'
  BY <1>1 DEF InTx
<1>4. Work # NoInode /\ dir["tx"] \in Inodes /\ NoInode \notin Inodes
  BY <1>3, SeenOfWork, FileBackedObjectAssumption
<1>5. dir'["main"] = dir["tx"]
  BY <1>1
<1>6. Value' = Work /\ IsSynced' = WorkIsSynced
  BY <1>2, <1>3, <1>4, <1>5 DEF Value, Work, IsSynced, WorkIsSynced
<1>7. Work' = NoInode /\ WorkIsSynced' = TRUE
  BY <1>3 DEF Work, WorkIsSynced
<1>8. Stable' = Stable
  BY <1>1, SeenOfFreed DEF FileInv
<1> QED
  BY <1>4, <1>6, <1>7, <1>8, AbstractCommit

(* The names stay, but for that of the transaction's file.                 *)
LEMMA SeenOfFreedTx ==
  ASSUME FileInv, FreeUnused, dir'["main"] = dir["main"], disk' = disk, ~InTx'
  PROVE  AbstractStep
<1>1. SameObject /\ Stable' = Stable
  BY SeenOfFreed DEF FileInv
<1>2. Work' = NoInode /\ WorkIsSynced' = TRUE
  BY DEF Work, WorkIsSynced
<1> QED
  BY <1>1, <1>2, AbstractDiscard

LEMMA SeenOfWriteName ==
  ASSUME FileInv, WriteName
  PROVE  AbstractStep
<1> USE DEF Objects
<1>1. disk' = dir["main"] /\ UNCHANGED <<dir, txpc>> /\ FreeUnused
  BY DEF WriteName
<1>2. /\ \A i \in Inodes \cap InUse' : data'[i] = data[i] /\ (i \in dirty' <=> i \in dirty)
      /\ (\A p \in Objects : dir'[p] \in InUse') /\ dirty' \subseteq Inodes
  BY <1>1, FreedKeepsUsed DEF FileInv
<1>3. /\ dir["main"] \in Inodes \cup {NoInode} /\ dirty \subseteq Inodes
      /\ NoInode \notin Inodes
  BY FileBackedObjectAssumption DEF FileInv, FileTypeOK
<1>4. SameObject
  BY <1>1, SeenOfFreed DEF FileInv
<1>5. SameWork
  <2>1. CASE InTx
    BY <1>1, <1>2, <2>1, SeenOfWork DEF SameWork, Work, WorkIsSynced, InTx
  <2>2. CASE ~InTx
    BY <1>1, <2>2 DEF SameWork, Work, WorkIsSynced, InTx
  <2> QED
    BY <2>1, <2>2
<1>6. Stable' = IF IsSynced THEN Value ELSE NoObject
  BY <1>1, <1>2, <1>3 DEF Stable, IsSynced, Value
<1> QED
  BY <1>4, <1>5, <1>6, AbstractSettle

LEMMA SeenOfMachineCrash ==
  ASSUME FileInv, MachineCrash
  PROVE  AbstractStep
<1>1. PICK left \in {NoInode} \cup (Inodes \ {disk}) : dir' = [main |-> disk, tx |-> left]
  BY DEF MachineCrash
<1>2. PICK cells \in IF disk \in dirty THEN Contents ELSE {<<>>} :
        data' = [i \in Inodes |-> IF i # disk THEN <<>>
                                  ELSE IF i \in dirty THEN cells ELSE data[i]]
  BY DEF MachineCrash
<1>3. txpc' = "none" /\ disk' = disk /\ dirty' = {}
  BY DEF MachineCrash, NoProcess
<1>4. /\ data \in [Inodes -> Contents] /\ disk \in Inodes \cup {NoInode}
      /\ dirty \subseteq Inodes /\ NoInode \notin Inodes
  BY FileBackedObjectAssumption DEF FileInv, FileTypeOK
<1>5. dir'["main"] = disk
  BY <1>1
<1>6. Stable' = Value' /\ IsSynced' = TRUE
  BY <1>3, <1>5 DEF Stable, Value, IsSynced
<1>7. Work' = NoInode /\ WorkIsSynced' = TRUE
  BY <1>3 DEF Work, WorkIsSynced, InTx
<1>8. Stable = NoObject <=> disk \in dirty
  BY <1>4, NoInodeIsNoContents DEF Stable
<1>9. CASE disk \in dirty
  <2>1. Value' = cells /\ cells \in Contents
    BY <1>2, <1>4, <1>5, <1>9 DEF Value
  <2> QED
    BY <1>6, <1>7, <1>8, <1>9, <2>1, AbstractMachineCrash
<1>10. CASE disk \notin dirty
  <2>1. Value' = Stable
    BY <1>2, <1>4, <1>5, <1>10 DEF Value, Stable
  <2> QED
    BY <1>6, <1>7, <1>8, <1>10, <2>1, AbstractMachineCrash
<1> QED
  BY <1>9, <1>10

-----------------------------------------------------------------------------
LEMMA SeenInit == ObjectInit => Abstract!Init
BY DEF ObjectInit, Abstract!Init, Objects, InTx

LEMMA SeenStep ==
  ASSUME Careless = {}, FileInv, [ObjectNext]_objectVars
  PROVE  AbstractStep
<1> USE DEF Objects
<1>1. ASSUME NEW o \in Objects, NEW at \in 0..MaxSize - 1, read_bytes(o, at)
      PROVE  AbstractStep
  BY <1>1, SeenUnchanged DEF read_bytes, InTx
<1>2. ASSUME NEW o \in Objects, NEW at \in 0..MaxSize - 1, NEW b \in Bytes, write_bytes(o, at, b)
      PROVE  AbstractStep
  BY <1>2, WriteKeepsInv, WritableHasFile, SeenOfChange DEF write_bytes
<1>3. ASSUME NEW o \in Objects, NEW b \in Bytes, serialize(o, b)
      PROVE  AbstractStep
  BY <1>3, SerializeKeepsInv, WritableHasFile, SeenOfChange DEF serialize
<1>4. ASSUME NEW o \in Objects, NEW size \in 0..MaxSize, truncate(o, size)
      PROVE  AbstractStep
  BY <1>4, TruncateKeepsInv, WritableHasFile, SeenOfChange DEF truncate
<1>5. ASSUME NEW o \in Objects,
             AppendOpen(o) \/ set_flags(o) \/ OpenScope(o) \/ EndOpenScope(o)
      PROVE  AbstractStep
  BY <1>5, SeenUnchanged DEF AppendOpen, set_flags, OpenScope, EndOpenScope, InTx
<1>6. ASSUME NEW o \in Objects, fsync_data(o)
      PROVE  AbstractStep
  BY <1>6, SeenOfSync DEF fsync_data, InTx
<1>7. ASSUME NEW o \in Objects, del_object(o)
      PROVE  AbstractStep
  <2>1. /\ dir' = [dir EXCEPT ![o] = NoInode] /\ UNCHANGED <<disk, txpc>>
        /\ txpc = "none" /\ FreeUnused
    BY <1>7 DEF del_object
  <2>2. CASE o = "main"
    BY <2>1, <2>2, SeenOfGone
  <2>3. CASE o = "tx"
    <3>1. dir'["main"] = dir["main"]
      BY <2>1, <2>3 DEF FileInv, FileTypeOK
    <3> QED
      BY <2>1, <3>1, SeenOfFreedTx DEF InTx
  <2> QED
    BY <2>2, <2>3
<1>8. CASE AppendSeek \/ AppendSet
  BY <1>8, SeenUnchanged DEF AppendSeek, AppendSet, InTx
<1>9. ASSUME NEW b \in Bytes, AppendWrite(b)
      PROVE  AbstractStep
  <2>1. call.o \in Objects /\ \E c \in Contents : SetData(dir[call.o], c)
    BY <1>9, AppendWriteKeepsInv
  <2>2. /\ dir[call.o] \in Inodes
        /\ txpc = IF call.o = "main" THEN "none" ELSE "active"
    BY <1>9, Appending DEF AppendWrite
  <2>3. UNCHANGED <<dir, disk, txpc>>
    BY <1>9 DEF AppendWrite
  <2> QED
    BY <2>1, <2>2, <2>3, SeenOfChange
<1>10. CASE ReplaceUnlink
  BY <1>10, WritableHasFile, SeenOfGone DEF ReplaceUnlink
<1>11. CASE ReplaceFails \/ get_handle
  BY <1>11, SeenUnchanged DEF ReplaceFails, get_handle, InTx
<1>12. ASSUME NEW cells \in Contents, ReplaceLink(cells)
       PROVE  AbstractStep
  BY <1>12, SeenOfCreated DEF ReplaceLink, FileInv, NamesInv
<1>13. CASE new_object
  BY <1>13, NobodyCalls, EmptyIsContents, SeenOfCreated DEF new_object
<1>14. CASE TxBlank \/ TxCopy
  <2>1. /\ txpc = "none" /\ Create("tx", <<>>)
        /\ txpc' \in {"copy", "active"} /\ UNCHANGED disk
        /\ object["main"] # NoObject /\ call = NoCall
    BY <1>14 DEF TxBlank, TxCopy
  <2>2. dir["main"] # NoInode
    BY <2>1 DEF FileInv, NamesInv, NoCall
  <2> QED
    BY <2>1, <2>2, SeenOfTxCreated
<1>15. CASE CopyMore
  BY <1>15, SeenOfCopyMore
<1>16. CASE TxSync
  <2>1. txpc = "active" /\ txpc' = "synced"
    BY <1>16 DEF TxSync, Usable
  <2>2. InTx' = InTx
    BY <2>1 DEF InTx
  <2>3. /\ dirty' = dirty \ {object["tx"].fd}
        /\ UNCHANGED <<dir, data, disk>>
    BY <1>16 DEF TxSync
  <2> QED
    BY <2>2, <2>3, SeenOfSync
<1>17. CASE TxRename
  BY <1>17, SeenOfTxRename
<1>18. CASE TxReload
  BY <1>18, SeenOfFreedTx DEF TxReload, InTx
<1>19. CASE TxAbort
  <2>1. dir'["main"] = dir["main"]
    BY <1>19 DEF TxAbort, FileInv, FileTypeOK
  <2> QED
    BY <1>19, <2>1, SeenOfFreedTx DEF TxAbort, InTx
<1>20. CASE ProcessCrash
  BY <1>20, SeenOfFreedTx DEF ProcessCrash, NoProcess, InTx
<1>21. CASE WriteName
  BY <1>21, SeenOfWriteName
<1>22. ASSUME NEW i \in Inodes, WriteCells(i)
       PROVE  AbstractStep
  BY <1>22, SeenOfSync DEF WriteCells, InTx
<1>23. CASE MachineCrash
  BY <1>23, SeenOfMachineCrash
<1>24. CASE UNCHANGED objectVars
  BY <1>24, SeenUnchanged DEF objectVars, InTx
<1> QED
  BY <1>1, <1>2, <1>3, <1>4, <1>5, <1>6, <1>7, <1>8, <1>9, <1>10, <1>11, <1>12,
     <1>13, <1>14, <1>15, <1>16, <1>17, <1>18, <1>19, <1>20, <1>21, <1>22, <1>23,
     <1>24 DEF ObjectNext

(* A commit is one step to everybody who looks at the object's file, and   *)
(* crashes of the process and of the machine leave a whole value of what   *)
(* was synced: a FileBackedObject with its transaction, Tx::commit() and   *)
(* the kernel implement TxObject.                                          *)
THEOREM ObjectCommitIsAtomic ==
  ASSUME Careless = {}
  PROVE  ObjectSpec => CommitIsAtomic
<1>1. ObjectInit => FileInv /\ Abstract!Init
  BY FileInvInit, SeenInit
<1>2. FileInv /\ [ObjectNext]_objectVars => FileInv' /\ [Abstract!Next]_(Abstract!vars)
  BY FileInvStep, SeenStep DEF AbstractStep
<1> QED
  BY <1>1, <1>2, PTL DEF ObjectSpec, CommitIsAtomic, Abstract!Spec
=============================================================================
