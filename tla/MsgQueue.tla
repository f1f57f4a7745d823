------------------------------ MODULE MsgQueue ------------------------------
(***************************************************************************)
(* thread/MsgQueue.tcc over thread/Notifier.cc: a deque guarded by a lock, *)
(* and a pipe that carries one byte for each message (or, after            *)
(* notify_when_empty, one byte while the deque is not empty).  The lock is *)
(* the recursive lock that SpinLock implements, taken once by each caller. *)
(*                                                                         *)
(* A step is what a thread does between two points where others can act:   *)
(* the consumer's poll sees the byte before the producer that wrote it has *)
(* put the message on the deque, and a full pipe makes notify give up the  *)
(* lock in the middle of push.                                             *)
(***************************************************************************)
EXTENDS Integers, Sequences, FiniteSets

CONSTANTS
  Producers, Consumers,
  NoThread,
  MaxMsgs,      \* bound: pushes by each producer
  PipeCap,      \* bytes the pipe holds
  ToBack        \* the producers that always push with at_back

ASSUME MsgQueueAssumption ==
  /\ Producers \cap Consumers = {}
  /\ NoThread \notin Producers \cup Consumers
  /\ MaxMsgs \in Nat
  /\ PipeCap \in Nat \ {0}
  /\ ToBack \subseteq Producers

VARIABLES
  notify_when_empty_,
  mode,      \* how each consumer uses the queue, see ConsumerModes
  lock,      \* the thread that has lock_
  queue,     \* queue_
  pipe,      \* bytes in the pipe
  waiter_,   \* a thread is in Notifier::wait
  pc,
  sent,      \* messages each producer has begun to push
  popped     \* history: the messages popped, in order

setup == <<notify_when_empty_, mode>>
vars == <<setup, lock, queue, pipe, waiter_, pc, sent, popped>>

(* "pop": pop_blocking each time; "drain": pop_blocking, then try_pop until *)
(* it fails; "poll": poll read_fd, then try_pop until it fails, as the      *)
(* worker of DataStoreProxy does; "none": not at all.                       *)
ConsumerModes == {"pop", "drain", "poll", "none"}
Blocking == {"pop", "drain"}

(* What the header asks of the users.  After notify_when_empty nobody       *)
(* blocks in pop_blocking; otherwise one thread may, and then it is alone.  *)
Usage ==
  /\ notify_when_empty_ => \A c \in Consumers : mode[c] \notin Blocking
  /\ \A c, d \in Consumers : c # d /\ mode[c] \in Blocking => mode[d] = "none"

Threads == Producers \cup Consumers
Messages == Producers \X Nat
Labels == {"idle", "push", "notify", "relock", "enqueue",
           "pop", "wait", "poll", "wake", "take", "try", "panic"}

Init ==
  /\ notify_when_empty_ \in BOOLEAN /\ mode \in [Consumers -> ConsumerModes] /\ Usage
  /\ lock = NoThread
  /\ queue = <<>>
  /\ pipe = 0
  /\ waiter_ = FALSE
  /\ pc = [t \in Threads |-> "idle"]
  /\ sent = [p \in Producers |-> 0]
  /\ popped = <<>>

Goto(t, from, to) == pc[t] = from /\ pc' = [pc EXCEPT ![t] = to]
Lock(t) == lock = NoThread /\ lock' = t
Unlock(t) == lock' = NoThread

(* Mutants of the definitions below.                                       *)
PushLockNotifiesWhenEmptyOnly(p) ==
  /\ Goto(p, "push", IF queue = <<>> THEN "notify" ELSE "enqueue")
  /\ Lock(p)
  /\ UNCHANGED <<queue, pipe, waiter_, sent, popped>>
PushLockNotifiesWhenFilled(p) ==
  /\ Goto(p, "push", IF ~notify_when_empty_ \/ queue # <<>> THEN "notify" ELSE "enqueue")
  /\ Lock(p)
  /\ UNCHANGED <<queue, pipe, waiter_, sent, popped>>
NotifyFullGivesUp(p) ==
  /\ Goto(p, "notify", "enqueue")
  /\ pipe = PipeCap
  /\ UNCHANGED <<lock, queue, pipe, waiter_, sent, popped>>
EnqueueAtFront(p) ==
  /\ Goto(p, "enqueue", "idle")
  /\ queue' = <<<<p, sent[p]>>>> \o queue
  /\ Unlock(p)
  /\ UNCHANGED <<pipe, waiter_, sent, popped>>
NotifyWriteUnchecked(p) ==
  /\ Goto(p, "notify", "enqueue")
  /\ pipe' = pipe + 1
  /\ UNCHANGED <<lock, queue, waiter_, sent, popped>>

-----------------------------------------------------------------------------
(* push, called with the producer's next message.                          *)
PushCall(p) ==
  /\ sent[p] < MaxMsgs
  /\ Goto(p, "idle", "push")
  /\ sent' = [sent EXCEPT ![p] = @ + 1]
  /\ UNCHANGED <<lock, queue, pipe, waiter_, popped>>

PushLock(p) ==
  /\ Goto(p, "push", IF ~notify_when_empty_ \/ queue = <<>> THEN "notify" ELSE "enqueue")
  /\ Lock(p)
  /\ UNCHANGED <<queue, pipe, waiter_, sent, popped>>

(* Notifier::notify: one byte, or EAGAIN and a retry without the lock.     *)
NotifyWrite(p) ==
  /\ Goto(p, "notify", "enqueue")
  /\ pipe < PipeCap
  /\ pipe' = pipe + 1
  /\ UNCHANGED <<lock, queue, waiter_, sent, popped>>

NotifyFull(p) ==
  /\ Goto(p, "notify", "relock")
  /\ pipe = PipeCap
  /\ Unlock(p)
  /\ UNCHANGED <<queue, pipe, waiter_, sent, popped>>

NotifyRelock(p) ==
  /\ Goto(p, "relock", "notify")
  /\ Lock(p)
  /\ UNCHANGED <<queue, pipe, waiter_, sent, popped>>

Enqueue(p) ==
  /\ Goto(p, "enqueue", "idle")
  /\ \E at_back \in BOOLEAN :
       /\ p \in ToBack => at_back
       /\ queue' = IF at_back THEN Append(queue, <<p, sent[p]>>)
                              ELSE <<<<p, sent[p]>>>> \o queue
  /\ Unlock(p)
  /\ UNCHANGED <<pipe, waiter_, sent, popped>>

-----------------------------------------------------------------------------
(* pop_blocking.                                                           *)
PopCall(c) ==
  /\ mode[c] \in Blocking
  /\ Goto(c, "idle", "pop")
  /\ UNCHANGED <<lock, queue, pipe, waiter_, sent, popped>>

(* The message at the front, with a byte of the pipe when "drains" says so; *)
(* drain_pipe panics on an empty pipe.                                      *)
TakeFront(c, from, drains) ==
  /\ Goto(c, from, IF queue = <<>> \/ (drains /\ pipe = 0) THEN "panic"
                   ELSE IF mode[c] = "pop" THEN "idle" ELSE "try")
  /\ IF queue = <<>> \/ (drains /\ pipe = 0)
     THEN UNCHANGED <<queue, popped, pipe>>
     ELSE /\ queue' = Tail(queue)
          /\ popped' = Append(popped, Head(queue))
          /\ pipe' = IF drains THEN pipe - 1 ELSE pipe
  /\ Unlock(c)
  /\ UNCHANGED <<waiter_, sent>>

DrainsOnPop == ~notify_when_empty_ \/ Len(queue) = 1

PopAtOnce(c) ==
  /\ queue # <<>>
  /\ lock = NoThread
  /\ TakeFront(c, "pop", DrainsOnPop)

PopWait(c) ==
  /\ queue = <<>>
  /\ Goto(c, "pop", "wait")
  /\ Lock(c)
  /\ UNCHANGED <<queue, pipe, waiter_, sent, popped>>

(* Notifier::wait, with no timeout.                                        *)
WaitUnlock(c) ==
  /\ Goto(c, "wait", IF waiter_ THEN "panic" ELSE "poll")
  /\ waiter_' = TRUE
  /\ Unlock(c)
  /\ UNCHANGED <<queue, pipe, sent, popped>>

WaitPoll(c) ==
  /\ Goto(c, "poll", "wake")
  /\ pipe > 0
  /\ UNCHANGED <<lock, queue, pipe, waiter_, sent, popped>>

WaitRelock(c) ==
  /\ Goto(c, "wake", IF pipe = 0 THEN "panic" ELSE "take")
  /\ Lock(c)
  /\ waiter_' = FALSE
  /\ pipe' = IF pipe = 0 THEN 0 ELSE pipe - 1
  /\ UNCHANGED <<queue, sent, popped>>

PopWaited(c) == lock = c /\ TakeFront(c, "take", FALSE)

-----------------------------------------------------------------------------
(* A consumer that polls read_fd itself, and try_pop.                      *)
PollReady(c) ==
  /\ mode[c] = "poll"
  /\ pipe > 0
  /\ Goto(c, "idle", "try")
  /\ UNCHANGED <<lock, queue, pipe, waiter_, sent, popped>>

TryPop(c) ==
  /\ lock = NoThread
  /\ queue # <<>>
  /\ TakeFront(c, "try", DrainsOnPop)

TryPopEmpty(c) ==
  /\ lock = NoThread
  /\ queue = <<>>
  /\ Goto(c, "try", "idle")
  /\ UNCHANGED <<lock, queue, pipe, waiter_, sent, popped>>

-----------------------------------------------------------------------------
Push(p) == /\ \/ PushCall(p) \/ PushLock(p) \/ NotifyWrite(p) \/ NotifyFull(p)
              \/ NotifyRelock(p) \/ Enqueue(p)
           /\ UNCHANGED setup
Pop(c) == /\ \/ PopCall(c) \/ PopAtOnce(c) \/ PopWait(c) \/ WaitUnlock(c) \/ WaitPoll(c)
             \/ WaitRelock(c) \/ PopWaited(c)
          /\ UNCHANGED setup
Try(c) == /\ PollReady(c) \/ TryPop(c) \/ TryPopEmpty(c)
          /\ UNCHANGED setup

Next == (\E p \in Producers : Push(p)) \/ (\E c \in Consumers : Pop(c) \/ Try(c))

Spec == Init /\ [][Next]_vars

(* Every thread keeps running.  A producer that found the pipe full sleeps *)
(* a tenth of a second without the lock: a consumer that wants the lock    *)
(* again and again gets it (strong fairness).                              *)
FairSpec ==
  /\ Spec
  /\ \A p \in Producers : WF_vars(Push(p))
  /\ \A c \in Consumers : SF_vars(Pop(c)) /\ SF_vars(Try(c))

-----------------------------------------------------------------------------
(* Every variable has its type. *)
TypeOK ==
  /\ notify_when_empty_ \in BOOLEAN /\ mode \in [Consumers -> ConsumerModes]
  /\ lock \in Threads \cup {NoThread}
  /\ queue \in Seq(Messages)
  /\ pipe \in 0..PipeCap
  /\ waiter_ \in BOOLEAN
  /\ pc \in [Threads -> Labels]
  /\ sent \in [Producers -> Nat]
  /\ popped \in Seq(Messages)

(* drain_pipe never finds too few bytes, pop_blocking never an empty deque, *)
(* and wait never a second waiter.                                          *)
NoPanic == \A t \in Threads : pc[t] # "panic"

(* Whenever the lock is free the pipe says what the deque holds: a byte a  *)
(* message, or one byte for all of them.  A byte too many would make the   *)
(* consumer spin or panic, one too few would leave it asleep.              *)
Bytes == IF notify_when_empty_ /\ queue # <<>> THEN 1 ELSE Len(queue)
BytesMatchQueue == lock = NoThread => pipe = Bytes

(* The messages that a producer pushes at the back come out in the order   *)
(* it pushed them, although others push at the front and a full pipe lets  *)
(* others overtake it.                                                     *)
PerProducerOrder ==
  \A i, j \in 1..Len(popped) :
    i < j /\ popped[i][1] = popped[j][1] /\ popped[i][1] \in ToBack =>
      popped[i][2] < popped[j][2]

(* No lost wakeup: a message on the deque reaches a consumer, if there is  *)
(* one.                                                                    *)
EveryMessageDelivered ==
  \A p \in Producers, n \in 1..MaxMsgs :
    (sent[p] = n /\ \E c \in Consumers : mode[c] # "none")
      ~> \E i \in 1..Len(popped) : popped[i] = <<p, n>>
=============================================================================
