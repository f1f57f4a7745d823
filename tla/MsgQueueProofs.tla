--------------------------- MODULE MsgQueueProofs ---------------------------
(***************************************************************************)
(* For any number of producers and messages and any size of the pipe: the  *)
(* bytes in the pipe match the deque, and nothing panics, as long as the   *)
(* queue is used as its header asks.                                       *)
(***************************************************************************)
EXTENDS MsgQueue, SequenceTheorems, TLAPS

(* The labels at which a thread has the lock.                              *)
Locked == {"notify", "enqueue", "wait", "take"}

AtProducer(p) ==
  /\ pc[p] \in {"idle", "push", "notify", "relock", "enqueue"}
  /\ pc[p] = "notify" => pipe = Bytes /\ (notify_when_empty_ => queue = <<>>)
  /\ pc[p] = "enqueue" => pipe = IF notify_when_empty_ THEN 1 ELSE Len(queue) + 1
  /\ pc[p] = "relock" => ~notify_when_empty_

AtConsumer(c) ==
  /\ pc[c] \in IF mode[c] \in Blocking
               THEN {"idle", "pop", "wait", "poll", "wake", "take", "try"}
               ELSE IF mode[c] = "poll" THEN {"idle", "try"} ELSE {"idle"}
  /\ pc[c] = "wait" => queue = <<>> /\ pipe = 0
  /\ pc[c] = "wake" => pipe > 0
  /\ pc[c] = "take" => queue # <<>> /\ pipe = Len(queue) - 1
  /\ mode[c] \in Blocking => (waiter_ = TRUE <=> pc[c] \in {"poll", "wake"})

(* The inductive invariant.  The bytes match the deque when the lock is    *)
(* free; while somebody has it, the label says by how much they differ.    *)
IInv ==
  /\ TypeOK
  /\ Usage
  /\ \A t \in Threads : lock = t <=> pc[t] \in Locked
  /\ BytesMatchQueue
  /\ \A p \in Producers : AtProducer(p)
  /\ \A c \in Consumers : AtConsumer(c)

LEMMA InitIInv == ASSUME Init PROVE IInv
<1>1. <<>> \in Seq(Messages) /\ Len(<<>>) = 0
  BY EmptySeq
<1>2. TypeOK
  <2>1. pc \in [Threads -> Labels] /\ sent \in [Producers -> Nat]
    BY DEF Init, Labels
  <2>2. queue \in Seq(Messages) /\ popped \in Seq(Messages)
    BY <1>1 DEF Init
  <2> QED
    <3>1. pipe \in 0..PipeCap
      BY MsgQueueAssumption DEF Init
    <3>2. lock \in Threads \cup {NoThread} /\ waiter_ \in BOOLEAN
      BY DEF Init
    <3> QED
      BY <2>1, <2>2, <3>1, <3>2 DEF TypeOK, Init
<1>3. BytesMatchQueue
  BY <1>1 DEF Init, BytesMatchQueue, Bytes
<1>4. \A t \in Threads : lock = t <=> pc[t] \in Locked
  BY MsgQueueAssumption DEF Init, Locked, Threads
<1>5. \A p \in Producers : AtProducer(p)
  BY DEF Init, AtProducer, Threads
<1>6. \A c \in Consumers : AtConsumer(c)
  BY DEF Init, AtConsumer, Threads
<1> QED
  BY <1>2, <1>3, <1>4, <1>5, <1>6 DEF IInv, Init

(* The deque at its limits: what is left of one that is not empty, and     *)
(* what one more message makes of it.                                      *)
LEMMA TailFacts ==
  ASSUME NEW q \in Seq(Messages), q # <<>>
  PROVE  /\ Tail(q) \in Seq(Messages)
         /\ Head(q) \in Messages
         /\ Len(Tail(q)) = Len(q) - 1
         /\ Len(q) \in Nat \ {0}
         /\ Tail(q) = <<>> <=> Len(q) = 1
<1>1. Tail(q) \in Seq(Messages) /\ Head(q) \in Messages /\ Len(Tail(q)) = Len(q) - 1
  BY HeadTailProperties
<1>2. Len(q) \in Nat \ {0}
  BY EmptySeq
<1>3. Tail(q) = <<>> <=> Len(Tail(q)) = 0
  BY <1>1, EmptySeq
<1> QED
  BY <1>1, <1>2, <1>3

LEMMA GrowFacts ==
  ASSUME NEW q \in Seq(Messages), NEW m \in Messages
  PROVE  /\ Append(q, m) \in Seq(Messages) /\ Append(q, m) # <<>>
         /\ Len(Append(q, m)) = Len(q) + 1
         /\ <<m>> \o q \in Seq(Messages) /\ <<m>> \o q # <<>>
         /\ Len(<<m>> \o q) = Len(q) + 1
<1>1. /\ Append(q, m) \in Seq(Messages) /\ Len(Append(q, m)) = Len(q) + 1
      /\ Len(q) \in Nat
  BY AppendProperties, LenProperties
<1>2. <<m>> \in Seq(Messages) /\ Len(<<m>>) = 1
  OBVIOUS
<1>3. <<m>> \o q \in Seq(Messages) /\ Len(<<m>> \o q) = 1 + Len(q)
  BY <1>2, ConcatProperties
<1>4. Len(<<>>) = 0
  OBVIOUS
<1> QED
  BY <1>1, <1>3, <1>4

(* TakeFront, in a state where the pipe has the byte it drains.            *)
LEMMA TakeFrontKeeps ==
  ASSUME IInv, NEW c \in Consumers, NEW from \in Labels, NEW drains \in BOOLEAN,
         TakeFront(c, from, drains),
         notify_when_empty_' = notify_when_empty_, mode' = mode, Usage',
         lock \in {c, NoThread},
         queue # <<>>,
         pipe = IF drains THEN Bytes ELSE IF notify_when_empty_ THEN 1 ELSE Len(queue) - 1,
         notify_when_empty_ => drains = (Len(queue) = 1),
         mode[c] \notin Blocking => from = "try",
         from \notin {"poll", "wake"}
  PROVE  IInv'
<1> USE MsgQueueAssumption
<1>1. /\ Tail(queue) \in Seq(Messages)
      /\ Head(queue) \in Messages
      /\ Len(Tail(queue)) = Len(queue) - 1
      /\ Len(queue) \in Nat \ {0}
      /\ Tail(queue) = <<>> <=> Len(queue) = 1
  BY TailFacts DEF IInv, TypeOK
<1>2. pipe \in 0..PipeCap /\ (drains => pipe > 0)
  <2>1. CASE drains = TRUE
    <3>1. pipe \in 0..PipeCap /\ pipe = Bytes
      BY <2>1 DEF IInv, TypeOK
    <3>2. Bytes > 0
      <4>1. Len(queue) > 0
        BY <1>1
      <4>2. Bytes = 1 \/ Bytes = Len(queue)
        BY DEF Bytes
      <4> QED
        BY <4>1, <4>2
    <3> QED
      BY <3>1, <3>2
  <2>2. CASE drains = FALSE
    BY <2>2 DEF IInv, TypeOK
  <2> QED
    BY <2>1, <2>2
<1>3. /\ queue' = Tail(queue)
      /\ popped' = Append(popped, Head(queue))
      /\ pipe' = IF drains THEN pipe - 1 ELSE pipe
      /\ lock' = NoThread
      /\ pc[c] = from
      /\ pc' = [pc EXCEPT ![c] = IF mode[c] = "pop" THEN "idle" ELSE "try"]
      /\ UNCHANGED <<waiter_, sent>>
  <2>1. ~(queue = <<>> \/ (drains /\ pipe = 0))
    BY <1>2
  <2> QED
    BY <2>1 DEF TakeFront, Goto, Unlock
<1>4. TypeOK'
  <2>1. popped' \in Seq(Messages) /\ queue' \in Seq(Messages)
    BY <1>1, <1>3, AppendProperties DEF IInv, TypeOK
  <2>2. pipe' \in 0..PipeCap
    <3>1. CASE drains = TRUE
      BY <1>2, <1>3, <3>1
    <3>2. CASE drains = FALSE
      BY <1>2, <1>3, <3>2
    <3> QED
      BY <3>1, <3>2
  <2>3. pc' \in [Threads -> Labels]
    BY <1>3 DEF IInv, TypeOK, Labels
  <2> QED
    BY <1>3, <2>1, <2>2, <2>3 DEF IInv, TypeOK
<1>5. pipe' = Bytes'
  BY <1>1, <1>2, <1>3 DEF Bytes
<1>6. \A t \in Threads : t # c => pc[t] \notin Locked /\ pc'[t] = pc[t]
  BY <1>3 DEF IInv, TypeOK, Threads, Locked
<1>7. (\A t \in Threads : lock = t <=> pc[t] \in Locked)'
  BY <1>3, <1>6 DEF IInv, TypeOK, Threads, Locked
<1>8. \A p \in Producers : AtProducer(p)'
  BY <1>3, <1>6 DEF IInv, TypeOK, Threads, AtProducer, Locked
<1>9. \A d \in Consumers : AtConsumer(d)'
  <2>1. AtConsumer(c)'
    BY <1>3, <1>6 DEF IInv, TypeOK, Threads, AtConsumer, Locked, Blocking
  <2>2. ASSUME NEW d \in Consumers \ {c} PROVE AtConsumer(d)'
    <3>1. mode[d] \notin Blocking
      BY <1>3 DEF IInv, AtConsumer, Usage, Blocking, Threads
    <3> QED
      BY <1>3, <1>6, <3>1 DEF IInv, TypeOK, Threads, AtConsumer, Locked, Blocking
  <2> QED
    BY <2>1, <2>2
<1> QED
  BY <1>4, <1>5, <1>7, <1>8, <1>9 DEF IInv, BytesMatchQueue

(* A pop that did not wait finds its byte.                                 *)
LEMMA DrainFinds ==
  ASSUME IInv, lock = NoThread, queue # <<>>
  PROVE  /\ pipe = IF DrainsOnPop THEN Bytes ELSE IF notify_when_empty_ THEN 1 ELSE Len(queue) - 1
         /\ notify_when_empty_ => DrainsOnPop = (Len(queue) = 1)
         /\ DrainsOnPop \in BOOLEAN
  BY MsgQueueAssumption DEF IInv, BytesMatchQueue, Bytes, DrainsOnPop

(* Every step preserves the invariant.                                     *)
LEMMA StepIInv ==
  ASSUME IInv, [Next]_vars
  PROVE  IInv'
<1> USE MsgQueueAssumption
<1>q. queue \in Seq(Messages) /\ Len(queue) \in Nat /\ (queue = <<>> <=> Len(queue) = 0)
  BY EmptySeq, LenProperties DEF IInv, TypeOK
<1>1. CASE UNCHANGED vars
  BY <1>1 DEF vars, setup, IInv, TypeOK, Usage, BytesMatchQueue, Bytes, AtProducer, AtConsumer
<1>2. ASSUME NEW p \in Producers, Push(p) PROVE IInv'
  <2>0. notify_when_empty_' = notify_when_empty_ /\ mode' = mode
    BY <1>2 DEF Push, setup
  <2>u. Usage'
    BY <2>0 DEF IInv, Usage
  <2>1. CASE PushCall(p)
    BY <1>q, <2>0, <2>u, <2>1 DEF PushCall, Goto, Lock, Unlock, IInv, TypeOK, Threads, Labels, Locked,
       BytesMatchQueue, Bytes, AtProducer, AtConsumer
  <2>2. CASE PushLock(p)
    BY <1>q, <2>0, <2>u, <2>2 DEF PushLock, Goto, Lock, Unlock, IInv, TypeOK, Threads, Labels, Locked,
       BytesMatchQueue, Bytes, AtProducer, AtConsumer
  <2>3. CASE NotifyWrite(p)
    BY <1>q, <2>0, <2>u, <2>3 DEF NotifyWrite, Goto, Lock, Unlock, IInv, TypeOK, Threads, Labels, Locked,
       BytesMatchQueue, Bytes, AtProducer, AtConsumer
  <2>4. CASE NotifyFull(p)
    BY <1>q, <2>0, <2>u, <2>4 DEF NotifyFull, Goto, Lock, Unlock, IInv, TypeOK, Threads, Labels, Locked,
       BytesMatchQueue, Bytes, AtProducer, AtConsumer
  <2>5. CASE NotifyRelock(p)
    BY <1>q, <2>0, <2>u, <2>5 DEF NotifyRelock, Goto, Lock, Unlock, IInv, TypeOK, Threads, Labels, Locked,
       BytesMatchQueue, Bytes, AtProducer, AtConsumer
  <2>6. CASE Enqueue(p)
    <3>1. <<p, sent[p]>> \in Messages
      BY DEF IInv, TypeOK, Messages
    <3>2. /\ queue' \in Seq(Messages) /\ queue' # <<>>
          /\ Len(queue') = Len(queue) + 1
      BY <1>q, <2>6, <3>1, GrowFacts DEF Enqueue
    <3>3. /\ pc[p] = "enqueue" /\ lock = p /\ lock' = NoThread
          /\ pc' = [pc EXCEPT ![p] = "idle"]
          /\ UNCHANGED <<pipe, waiter_, sent, popped>>
      BY <2>6 DEF Enqueue, Goto, Unlock, IInv, Threads, Locked
    <3>4. pipe' = Bytes'
      BY <1>q, <2>0, <3>2, <3>3 DEF IInv, TypeOK, AtProducer, Bytes
    <3>5. \A t \in Threads : t # p => pc[t] \notin Locked /\ pc'[t] = pc[t]
      BY <3>3 DEF IInv, TypeOK, Threads
    <3> QED
      BY <2>0, <2>u, <3>2, <3>3, <3>4, <3>5 DEF IInv, TypeOK, Threads, Labels, Locked, BytesMatchQueue,
         AtProducer, AtConsumer
  <2> QED
    BY <1>2, <2>1, <2>2, <2>3, <2>4, <2>5, <2>6 DEF Push
<1>3. ASSUME NEW c \in Consumers, Pop(c) \/ Try(c) PROVE IInv'
  <2>0. notify_when_empty_' = notify_when_empty_ /\ mode' = mode
    BY <1>3 DEF Pop, Try, setup
  <2>u. Usage'
    BY <2>0 DEF IInv, Usage
  <2>1. CASE PopCall(c)
    BY <1>q, <2>0, <2>u, <2>1 DEF PopCall, Goto, Lock, Unlock, IInv, TypeOK, Threads, Labels, Locked,
       BytesMatchQueue, Bytes, AtProducer, AtConsumer, Usage, Blocking
  <2>2. CASE PopWait(c)
    BY <1>q, <2>0, <2>u, <2>2 DEF PopWait, Goto, Lock, Unlock, IInv, TypeOK, Threads, Labels, Locked,
       BytesMatchQueue, Bytes, AtProducer, AtConsumer, Usage, Blocking
  <2>3. CASE WaitUnlock(c)
    BY <1>q, <2>0, <2>u, <2>3 DEF WaitUnlock, Goto, Lock, Unlock, IInv, TypeOK, Threads, Labels, Locked,
       BytesMatchQueue, Bytes, AtProducer, AtConsumer, Usage, Blocking
  <2>4. CASE WaitPoll(c)
    BY <1>q, <2>0, <2>u, <2>4 DEF WaitPoll, Goto, Lock, Unlock, IInv, TypeOK, Threads, Labels, Locked,
       BytesMatchQueue, Bytes, AtProducer, AtConsumer, Usage, Blocking
  <2>5. CASE WaitRelock(c)
    <3>1. mode[c] \in Blocking /\ ~notify_when_empty_ /\ pipe > 0 /\ pc[c] = "wake" /\ lock = NoThread
      BY <2>5 DEF WaitRelock, Goto, Lock, IInv, AtConsumer, Usage
    <3>2. pipe = Len(queue) /\ queue # <<>>
      BY <1>q, <3>1 DEF IInv, BytesMatchQueue, Bytes
    <3>3. /\ pc' = [pc EXCEPT ![c] = "take"] /\ lock' = c /\ waiter_' = FALSE
          /\ pipe' = pipe - 1 /\ UNCHANGED <<queue, sent, popped>>
      <4>1. pipe # 0
        BY <3>1
      <4> QED
        BY <2>5, <4>1 DEF WaitRelock, Goto, Lock
    <3>4. TypeOK'
      <4>1. pipe' \in 0..PipeCap
        BY <3>1, <3>3 DEF IInv, TypeOK
      <4>2. pc' \in [Threads -> Labels]
        BY <3>3 DEF IInv, TypeOK, Labels
      <4> QED
        BY <2>0, <3>3, <4>1, <4>2 DEF IInv, TypeOK, Threads
    <3>5. (\A t \in Threads : lock = t <=> pc[t] \in Locked)'
      BY <3>1, <3>3 DEF IInv, TypeOK, Threads, Locked
    <3>6. \A p \in Producers : AtProducer(p)'
      BY <2>0, <3>1, <3>3 DEF IInv, TypeOK, Threads, AtProducer, Locked
    <3>7. \A d \in Consumers \ {c} : mode[d] = "none"
      BY <3>1 DEF IInv, Usage
    <3>8. \A d \in Consumers : AtConsumer(d)'
      BY <2>0, <3>1, <3>2, <3>3, <3>7 DEF IInv, TypeOK, Threads, AtConsumer, Blocking
    <3> QED
      BY <2>u, <3>3, <3>4, <3>5, <3>6, <3>8 DEF IInv, BytesMatchQueue, TypeOK
  <2>6. CASE PollReady(c)
    BY <1>q, <2>0, <2>u, <2>6 DEF PollReady, Goto, Lock, Unlock, IInv, TypeOK, Threads, Labels, Locked,
       BytesMatchQueue, Bytes, AtProducer, AtConsumer, Usage, Blocking
  <2>7. CASE TryPopEmpty(c)
    BY <1>q, <2>0, <2>u, <2>7 DEF TryPopEmpty, Goto, Lock, Unlock, IInv, TypeOK, Threads, Labels, Locked,
       BytesMatchQueue, Bytes, AtProducer, AtConsumer, Usage, Blocking
  <2>8. CASE PopAtOnce(c)
    <3>1. TakeFront(c, "pop", DrainsOnPop) /\ lock = NoThread /\ queue # <<>>
      BY <2>8 DEF PopAtOnce
    <3>2. mode[c] \in Blocking
      BY <3>1 DEF TakeFront, Goto, IInv, AtConsumer
    <3> QED
      BY <3>1, <3>2, DrainFinds, TakeFrontKeeps, <2>0, <2>u DEF Labels
  <2>9. CASE TryPop(c)
    <3>1. TakeFront(c, "try", DrainsOnPop) /\ lock = NoThread /\ queue # <<>>
      BY <2>9 DEF TryPop
    <3> QED
      BY <3>1, DrainFinds, TakeFrontKeeps, <2>0, <2>u DEF Labels
  <2>10. CASE PopWaited(c)
    <3>1. TakeFront(c, "take", FALSE) /\ lock = c /\ pc[c] = "take"
      BY <2>10 DEF PopWaited, TakeFront, Goto
    <3>2. mode[c] \in Blocking /\ ~notify_when_empty_ /\ queue # <<>> /\ pipe = Len(queue) - 1
      BY <3>1 DEF IInv, AtConsumer, Usage
    <3> QED
      BY <3>1, <3>2, TakeFrontKeeps, <2>0, <2>u DEF Labels
  <2> QED
    BY <1>3, <2>1, <2>2, <2>3, <2>4, <2>5, <2>6, <2>7, <2>8, <2>9, <2>10 DEF Pop, Try
<1> QED
  BY <1>1, <1>2, <1>3 DEF Next

LEMMA AlwaysIInv == Spec => []IInv
<1>1. Init => IInv
  BY InitIInv
<1>2. IInv /\ [Next]_vars => IInv'
  BY StepIInv
<1> QED
  BY <1>1, <1>2, PTL DEF Spec

(* The queue's variables keep their types; the pipe never overflows.       *)
THEOREM MsgQueueTypeCorrect == Spec => []TypeOK
<1>1. IInv => TypeOK
  BY DEF IInv
<1> QED
  BY <1>1, AlwaysIInv, PTL

(* The bytes in the pipe match the deque whenever the lock is free.        *)
THEOREM MsgQueueBytesMatch == Spec => []BytesMatchQueue
<1>1. IInv => BytesMatchQueue
  BY DEF IInv
<1> QED
  BY <1>1, AlwaysIInv, PTL

(* No drain of an empty pipe, no pop of an empty deque, no second waiter.  *)
THEOREM MsgQueueNeverPanics == Spec => []NoPanic
<1>1. IInv => NoPanic
  BY DEF IInv, NoPanic, AtProducer, AtConsumer, Threads
<1> QED
  BY <1>1, AlwaysIInv, PTL

-----------------------------------------------------------------------------
(* What may be said of two messages, the first of which is to come out     *)
(* before the second, and of the sequences they are in.                    *)
InOrder(m, n) == m[1] = n[1] /\ m[1] \in ToBack => m[2] < n[2]
Ordered(q) == \A i, j \in 1..Len(q) : i < j => InOrder(q[i], q[j])
Before(q, r) == \A i \in 1..Len(q), j \in 1..Len(r) : InOrder(q[i], r[j])
UpTo(q, last) == \A i \in 1..Len(q) : q[i][2] <= last[q[i][1]]

(* The number of the last message that each producer has put on the deque. *)
pushed == [p \in Producers |-> IF pc[p] = "idle" THEN sent[p] ELSE sent[p] - 1]

(* The messages popped, and after them the deque, are in order, and those  *)
(* to come have higher numbers.                                            *)
OrderInv ==
  /\ Ordered(popped) /\ Ordered(queue) /\ Before(popped, queue)
  /\ UpTo(popped, pushed) /\ UpTo(queue, pushed)

(* What a step does to the deque: nothing, one more message of a producer  *)
(* that has the lock, or one less.                                         *)
Idles ==
  UNCHANGED <<queue, popped>> /\ \A p \in Producers : pushed'[p] >= pushed[p]
Adds(p) ==
  /\ pc[p] = "enqueue" /\ pc' = [pc EXCEPT ![p] = "idle"] /\ UNCHANGED <<sent, popped>>
  /\ \/ queue' = Append(queue, <<p, sent[p]>>)
     \/ p \notin ToBack /\ queue' = <<<<p, sent[p]>>>> \o queue
Takes ==
  /\ queue # <<>> /\ queue' = Tail(queue) /\ popped' = Append(popped, Head(queue))
  /\ pushed' = pushed

LEMMA PushedType == ASSUME TypeOK PROVE pushed \in [Producers -> Int]
  BY DEF TypeOK, pushed

LEMMA StepKinds ==
  ASSUME IInv, [Next]_vars
  PROVE  Idles \/ Takes \/ \E p \in Producers : Adds(p)
<1> USE MsgQueueAssumption DEF Goto
<1>1. CASE UNCHANGED vars
  <2>1. UNCHANGED <<queue, popped, pc, sent>>
    BY <1>1 DEF vars
  <2>2. pushed' = pushed
    BY <2>1 DEF pushed
  <2>3. pushed \in [Producers -> Int]
    BY PushedType DEF IInv
  <2> QED
    BY <2>1, <2>2, <2>3 DEF Idles
<1>2. ASSUME NEW p \in Producers, Push(p) PROVE Idles \/ Adds(p)
  <2>1. CASE PushCall(p)
    BY <2>1 DEF PushCall, Idles, pushed, IInv, TypeOK, Threads
  <2>2. CASE PushLock(p) \/ NotifyWrite(p) \/ NotifyFull(p) \/ NotifyRelock(p)
    BY <2>2 DEF PushLock, NotifyWrite, NotifyFull, NotifyRelock, Idles, pushed, IInv, TypeOK,
                Threads
  <2>3. CASE Enqueue(p)
    BY <2>3 DEF Enqueue, Adds
  <2> QED
    BY <1>2, <2>1, <2>2, <2>3 DEF Push
<1>3. ASSUME NEW c \in Consumers, Pop(c) \/ Try(c) PROVE Idles \/ Takes
  <2>1. \A p \in Producers : pc'[p] = pc[p] /\ sent'[p] = sent[p]
    BY <1>3 DEF IInv, TypeOK, Threads, Pop, Try, PopCall, PopAtOnce, PopWait, WaitUnlock, WaitPoll,
                WaitRelock, PopWaited, PollReady, TryPop, TryPopEmpty, TakeFront
  <2>2. pushed' = pushed /\ pushed \in [Producers -> Int]
    BY <2>1, PushedType DEF IInv, pushed
  <2>3. \/ UNCHANGED <<queue, popped>>
        \/ queue # <<>> /\ queue' = Tail(queue) /\ popped' = Append(popped, Head(queue))
    BY <1>3 DEF Pop, Try, PopCall, PopAtOnce, PopWait, WaitUnlock, WaitPoll, WaitRelock, PopWaited,
                PollReady, TryPop, TryPopEmpty, TakeFront
  <2> QED
    BY <2>2, <2>3 DEF Idles, Takes
<1> QED
  BY <1>1, <1>2, <1>3 DEF Next

(* Messages in order stay in order when one that is after all of the first *)
(* and before all of the second moves from the one to the other, or comes  *)
(* in at the end.                                                          *)
LEMMA OrderedAppend ==
  ASSUME NEW q \in Seq(Messages), NEW m \in Messages, Ordered(q),
         \A i \in 1..Len(q) : InOrder(q[i], m)
  PROVE  Ordered(Append(q, m))
<1>1. /\ Len(q) \in Nat /\ Len(Append(q, m)) = Len(q) + 1
      /\ \A i \in 1..Len(q) : Append(q, m)[i] = q[i]
      /\ Append(q, m)[Len(q) + 1] = m
  BY LenProperties, AppendProperties
<1> SUFFICES ASSUME NEW i \in 1..Len(q) + 1, NEW j \in 1..Len(q) + 1, i < j
             PROVE  InOrder(Append(q, m)[i], Append(q, m)[j])
  BY <1>1 DEF Ordered
<1>2. i \in 1..Len(q)
  BY <1>1
<1>3. CASE j = Len(q) + 1
  BY <1>1, <1>2, <1>3
<1>4. CASE j # Len(q) + 1
  <2>1. j \in 1..Len(q)
    BY <1>1, <1>4
  <2> QED
    BY <1>1, <1>2, <2>1 DEF Ordered
<1> QED
  BY <1>3, <1>4

LEMMA BeforeAppend ==
  ASSUME NEW q \in Seq(Messages), NEW r \in Seq(Messages), NEW m \in Messages,
         NEW last \in [Producers -> Int], Before(q, r)
  PROVE  /\ (\A i \in 1..Len(q) : InOrder(q[i], m)) => Before(q, Append(r, m))
         /\ (\A j \in 1..Len(r) : InOrder(m, r[j])) => Before(Append(q, m), r)
         /\ UpTo(q, last) /\ m[2] <= last[m[1]] => UpTo(Append(q, m), last)
<1>1. \A s \in Seq(Messages) : /\ Len(s) \in Nat /\ Len(Append(s, m)) = Len(s) + 1
                               /\ \A i \in 1..Len(s) : Append(s, m)[i] = s[i]
                               /\ Append(s, m)[Len(s) + 1] = m
  BY LenProperties, AppendProperties
<1>2. \A s \in Seq(Messages) : \A i \in 1..Len(Append(s, m)) : i \in 1..Len(s) \/ i = Len(s) + 1
  BY <1>1
<1>3. (\A i \in 1..Len(q) : InOrder(q[i], m)) => Before(q, Append(r, m))
  BY <1>1, <1>2 DEF Before
<1>4. (\A j \in 1..Len(r) : InOrder(m, r[j])) => Before(Append(q, m), r)
  BY <1>1, <1>2 DEF Before
<1>5. UpTo(q, last) /\ m[2] <= last[m[1]] => UpTo(Append(q, m), last)
  BY <1>1, <1>2 DEF UpTo
<1> QED
  BY <1>3, <1>4, <1>5

LEMMA StepOrderInv ==
  ASSUME IInv, OrderInv, [Next]_vars
  PROVE  OrderInv'
<1>1. /\ queue \in Seq(Messages) /\ popped \in Seq(Messages)
      /\ Len(queue) \in Nat /\ Len(popped) \in Nat
      /\ \A i \in 1..Len(queue) : queue[i] \in Messages
      /\ \A i \in 1..Len(popped) : popped[i] \in Messages
      /\ pushed \in [Producers -> Int] /\ pushed' \in [Producers -> Int]
  <2>1. queue \in Seq(Messages) /\ popped \in Seq(Messages)
    BY DEF IInv, TypeOK
  <2>2. TypeOK /\ TypeOK'
    BY StepIInv DEF IInv
  <2>3. pushed \in [Producers -> Int] /\ pushed' \in [Producers -> Int]
    BY <2>2 DEF TypeOK, pushed
  <2> QED
    BY <2>1, <2>3, LenProperties, ElementOfSeq
<1>2. \A m \in Messages : m[1] \in Producers /\ m[2] \in Nat
  BY DEF Messages
<1>3. /\ Ordered(popped) /\ Ordered(queue) /\ Before(popped, queue)
      /\ UpTo(popped, pushed) /\ UpTo(queue, pushed)
  BY DEF OrderInv
<1> SUFFICES /\ Ordered(popped') /\ Ordered(queue') /\ Before(popped', queue')
             /\ UpTo(popped', pushed') /\ UpTo(queue', pushed')
  BY DEF OrderInv, Ordered, Before, UpTo, InOrder
<1>4. (\A p \in Producers : pushed'[p] >= pushed[p]) => UpTo(popped, pushed') /\ UpTo(queue, pushed')
  BY <1>1, <1>2, <1>3 DEF UpTo
<1>5. CASE Idles
  BY <1>3, <1>4, <1>5 DEF Idles
<1>6. CASE Takes
  <2>1. /\ Len(queue) > 0 /\ Len(queue') = Len(queue) - 1
        /\ \A i \in 1..Len(queue') : i + 1 \in 1..Len(queue) /\ queue'[i] = queue[i + 1]
        /\ queue' \in Seq(Messages)
    BY <1>1, <1>6, HeadTailProperties, EmptySeq DEF Takes
  <2>2. popped' = Append(popped, queue[1]) /\ queue[1] \in Messages /\ pushed' = pushed
    BY <1>1, <1>6, <2>1, HeadTailProperties DEF Takes
  <2>3. Ordered(queue') /\ UpTo(queue', pushed') /\ Before(popped, queue')
    <3>1. Ordered(queue')
      <4> SUFFICES ASSUME NEW i \in 1..Len(queue'), NEW j \in 1..Len(queue'), i < j
                   PROVE  InOrder(queue'[i], queue'[j])
        BY DEF Ordered
      <4>1. i + 1 \in 1..Len(queue) /\ j + 1 \in 1..Len(queue) /\ i + 1 < j + 1
        BY <2>1
      <4>2. InOrder(queue[i + 1], queue[j + 1])
        BY <1>3, <4>1 DEF Ordered
      <4> QED
        BY <2>1, <4>2
    <3>2. UpTo(queue', pushed')
      BY <1>3, <2>1, <2>2 DEF UpTo
    <3>3. Before(popped, queue')
      BY <1>3, <2>1 DEF Before
    <3> QED
      BY <3>1, <3>2, <3>3
  <2>4. \A i \in 1..Len(popped) : InOrder(popped[i], queue[1])
    BY <1>1, <1>3, <2>1 DEF Before
  <2>5. \A j \in 1..Len(queue') : InOrder(queue[1], queue'[j])
    BY <1>1, <1>3, <2>1 DEF Ordered
  <2>6. queue[1][2] <= pushed[queue[1][1]]
    BY <1>1, <1>3, <2>1 DEF UpTo
  <2>7. Ordered(popped')
    BY <1>1, <1>3, <2>2, <2>4, OrderedAppend
  <2>8. Before(popped', queue') /\ UpTo(popped', pushed')
    BY <1>1, <1>3, <2>1, <2>2, <2>3, <2>5, <2>6, BeforeAppend
  <2> QED
    BY <2>3, <2>7, <2>8
<1>7. ASSUME NEW p \in Producers, Adds(p)
      PROVE  /\ Ordered(popped') /\ Ordered(queue') /\ Before(popped', queue')
             /\ UpTo(popped', pushed') /\ UpTo(queue', pushed')
  <2> DEFINE m == <<p, sent[p]>>
  <2>1. /\ m \in Messages /\ m[1] = p /\ m[2] = sent[p] /\ sent[p] \in Nat
        /\ pushed[p] = sent[p] - 1 /\ pushed'[p] = sent[p]
        /\ \A q \in Producers : q # p => pushed'[q] = pushed[q]
    BY <1>7, MsgQueueAssumption DEF IInv, TypeOK, Messages, Threads, Adds, pushed
  <2>2. \A n \in Messages : n[2] <= pushed[n[1]] => InOrder(n, m)
    BY <1>1, <1>2, <2>1 DEF InOrder
  <2>3. m[2] <= pushed'[m[1]] /\ popped' = popped
    BY <1>7, <2>1 DEF Adds
  <2>4. UpTo(popped, pushed') /\ UpTo(queue, pushed')
    <3>1. \A q \in Producers : pushed'[q] >= pushed[q]
      <4> SUFFICES ASSUME NEW q \in Producers PROVE pushed'[q] >= pushed[q]
        OBVIOUS
      <4>1. CASE q = p
        BY <2>1, <4>1
      <4>2. CASE q # p
        BY <1>1, <2>1, <4>2
      <4> QED
        BY <4>1, <4>2
    <3> QED
      BY <1>4, <3>1
  <2>5. queue' = Append(queue, m) \/ (p \notin ToBack /\ queue' = <<m>> \o queue)
    BY <1>7 DEF Adds
  <2> HIDE DEF m
  <2>6. CASE queue' = Append(queue, m)
    <3>1. /\ \A i \in 1..Len(queue) : InOrder(queue[i], m)
          /\ \A i \in 1..Len(popped) : InOrder(popped[i], m)
      BY <1>1, <1>3, <2>2 DEF UpTo
    <3>2. Ordered(queue')
      BY <1>1, <1>3, <2>1, <2>6, <3>1, OrderedAppend
    <3>3. Before(popped, queue')
      BY <1>1, <1>3, <2>1, <2>6, <3>1, BeforeAppend
    <3>4. Before(queue, <<>>) /\ <<>> \in Seq(Messages)
      BY EmptySeq DEF Before
    <3>5. UpTo(queue', pushed')
      BY <1>1, <2>1, <2>3, <2>4, <2>6, <3>4, BeforeAppend
    <3> QED
      BY <1>3, <2>3, <2>4, <3>2, <3>3, <3>5
  <2>7. CASE p \notin ToBack /\ queue' = <<m>> \o queue
    <3>1. /\ Len(queue') = Len(queue) + 1
          /\ \A i \in 1..Len(queue') : \/ i = 1 /\ queue'[i] = m
                                       \/ i # 1 /\ queue'[i] = queue[i - 1] /\ i - 1 \in 1..Len(queue)
      <4>1. <<m>> \in Seq(Messages) /\ Len(<<m>>) = 1 /\ <<m>>[1] = m
        BY <2>1
      <4>2. /\ Len(queue') = 1 + Len(queue)
            /\ \A i \in 1..1 + Len(queue) : queue'[i] = IF i <= 1 THEN <<m>>[i] ELSE queue[i - 1]
        BY <1>1, <2>7, <4>1, ConcatProperties
      <4> QED
        BY <1>1, <4>1, <4>2
    <3>2. \A n \in Messages : InOrder(m, n) /\ InOrder(n, m)
      BY <2>1, <2>7 DEF InOrder
    <3>3. Ordered(queue')
      <4> SUFFICES ASSUME NEW i \in 1..Len(queue'), NEW j \in 1..Len(queue'), i < j
                   PROVE  InOrder(queue'[i], queue'[j])
        BY DEF Ordered
      <4>1. j # 1 /\ queue'[j] = queue[j - 1] /\ j - 1 \in 1..Len(queue)
        BY <1>1, <3>1
      <4>2. CASE i = 1
        BY <1>1, <3>1, <3>2, <4>1, <4>2
      <4>3. CASE i # 1
        <5>1. queue'[i] = queue[i - 1] /\ i - 1 \in 1..Len(queue) /\ i - 1 < j - 1
          BY <1>1, <3>1, <4>3
        <5>2. InOrder(queue[i - 1], queue[j - 1])
          BY <1>3, <4>1, <5>1 DEF Ordered
        <5> QED
          BY <4>1, <5>1, <5>2
      <4> QED
        BY <4>2, <4>3
    <3>4. Before(popped, queue')
      BY <1>1, <1>3, <3>1, <3>2 DEF Before
    <3>5. UpTo(queue', pushed')
      BY <1>1, <2>3, <2>4, <3>1 DEF UpTo
    <3> QED
      BY <1>3, <2>3, <2>4, <3>3, <3>4, <3>5
  <2> QED
    BY <2>5, <2>6, <2>7
<1> QED
  BY <1>5, <1>6, <1>7, StepKinds

(* The messages that a producer pushes at the back are popped in the order *)
(* it pushed them, for any number of producers and consumers.              *)
THEOREM MsgQueueKeepsOrder == Spec => []PerProducerOrder
<1>1. Init => OrderInv
  BY EmptySeq DEF Init, OrderInv, Ordered, Before, UpTo
<1>2. IInv /\ OrderInv /\ [Next]_vars => OrderInv'
  BY StepOrderInv
<1>3. OrderInv => PerProducerOrder
  BY DEF OrderInv, Ordered, InOrder, PerProducerOrder
<1> QED
  BY <1>1, <1>2, <1>3, AlwaysIInv, PTL DEF Spec
=============================================================================
