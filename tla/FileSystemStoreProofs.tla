------------------------ MODULE FileSystemStoreProofs ------------------------
(***************************************************************************)
(* What FileSystemStore promises, for any number of keys, threads, files,  *)
(* descriptors to keep, values and sizes of values.                        *)
(*                                                                         *)
(* The invariant has two layers.  FdInv says who holds which descriptor: a *)
(* thread that works with one has the one in the cache's entry for its     *)
(* key, the pins of the entry count those threads, entries and threads     *)
(* that have just opened a file all have descriptors of their own, and     *)
(* del() has its key to itself.  It needs no more than the code does.      *)
(* GetInv says what a thread that is alone at its key then knows of the    *)
(* file: its steps are the only ones that move the descriptor or change    *)
(* the file, because descriptors and files of different keys differ.       *)
(***************************************************************************)
EXTENDS FileSystemStore, SequenceTheorems, FiniteSetTheorems, WellFoundedInduction, TLAPS

Calls   == Puts \cup {Get, Del, NoCall}
Working == {"seek", "write", "read", "exists", "unpin"}
Blks    == Values \cup {Hole}

OpenedType(o) ==
  /\ o \in [DOMAIN o -> [file : Files, offset : Nat]]
  /\ DOMAIN o \subseteq Nat /\ IsFiniteSet(DOMAIN o)
CacheTypes ==
  /\ fd_ \in [Keys -> Nat \cup {NoFd}] /\ pin_count_ \in [Keys -> Nat]
  /\ OpenedType(opened)
FileTypes ==
  /\ dir \in [Keys -> Files \cup {NoFile}]
  /\ content \in [Files -> Seq(Blks)]
  /\ synced \subseteq Files
  /\ last \in [Keys -> Values \cup {Absent, Unknown}]
ThreadTypes ==
  /\ pc \in [Threads -> StoreLabels]
  /\ key \in [Threads -> Keys \cup {NoKey}]
  /\ fd \in [Threads -> Nat \cup {NoFd}]
  /\ call \in [Threads -> Calls]
  /\ buf \in [Threads -> Seq(Blks)]
  /\ company \in [Threads -> {"none", "gets", "puts"}]

(* A call has a key, which a del() has to itself, and what each label is   *)
(* part of.                                                                *)
CallInv(t) ==
  /\ IF pc[t] = "idle" THEN key[t] = NoKey ELSE key[t] \in Keys
  /\ pc[t] = "unlink" <=> call[t].op = "del"
  /\ pc[t] \in {"idle", "open", "insert", "seek"} => buf[t] = <<>>
  /\ pc[t] # "idle" => call[t].op \in {"get", "put", "del"}
  /\ pc[t] \in {"read", "notfound"} => call[t].op = "get"
  /\ pc[t] \in {"write", "exists"} => call[t].op = "put"
  /\ call[t].op = "del" => /\ \A u \in Threads : key[u] = key[t] => u = t
                           /\ ~InCache(key[t])

(* Who has a descriptor: an entry of the cache, with the threads that work *)
(* with it, or a thread that is to put it there.                           *)
EntryInv ==
  /\ FdIsFile
  /\ \A k, j \in Cached : fd_[k] = fd_[j] => k = j
InsertInv ==
  /\ \A t \in Threads : pc[t] = "insert" =>
       /\ fd[t] \in DOMAIN opened /\ opened[fd[t]].file = dir[key[t]]
       /\ \A k \in Cached : fd_[k] # fd[t]
  /\ \A t, u \in Threads : pc[t] = "insert" /\ pc[u] = "insert" /\ fd[t] = fd[u] => t = u
WorkInv ==
  \A t \in Threads : pc[t] \in Working => InCache(key[t]) /\ fd[t] = fd_[key[t]]
PinInv ==
  \A k \in Keys : InCache(k) => Cardinality(Users(k)) = pin_count_[k]

FdInv ==
  /\ CacheTypes /\ FileTypes /\ ThreadTypes
  /\ \A t \in Threads : CallInv(t)
  /\ EntryInv /\ InsertInv /\ WorkInv /\ PinInv
  /\ NoFdLeak

(* What get() finds, when nobody else is at the key.                       *)
DirInv == \A k, j \in Keys : dir[k] = dir[j] /\ dir[k] # NoFile => k = j
AloneInv ==
  \A t \in Threads : pc[t] # "idle" /\ company[t] = "none" =>
    \A u \in Threads : key[u] = key[t] => u = t
LastInv(k) ==
  /\ last[k] = Absent => dir[k] = NoFile
  /\ last[k] \in Values => dir[k] # NoFile /\ Reads(content[dir[k]], last[k])
AloneGot(t) ==
  LET k == key[t] IN
    /\ pc[t] = "notfound" => dir[k] = NoFile
    /\ pc[t] = "write" => opened[fd[t]].offset = 0
    /\ pc[t] = "read" /\ last[k] \in Values =>
         \/ opened[fd[t]].offset = 0 /\ buf[t] = <<>>
         \/ opened[fd[t]].offset = Len(content[dir[k]]) /\ Reads(buf[t], last[k])
    /\ pc[t] = "unpin" /\ call[t].op = "get" /\ last[k] \in Values => Reads(buf[t], last[k])
GetInv ==
  /\ DirInv /\ AloneInv
  /\ \A k \in Keys : LastInv(k)
  /\ \A t \in Threads : company[t] = "none" => AloneGot(t)

DataInv == FdInv /\ GetInv

-----------------------------------------------------------------------------
(* Descriptors.                                                            *)
LEMMA LeastNat ==
  ASSUME NEW T, T \subseteq Nat, T # {}
  PROVE  \E n \in T : \A m \in T : n <= m
<1>1. PICK n \in T : \A m \in T : ~(<<m, n>> \in OpToRel(<, Nat))
  BY NatLessThanWellFounded, WFMin
<1>2. \A m \in T : ~(m < n)
  BY <1>1 DEF OpToRel
<1> QED
  BY <1>2

(* open() has a number to return.                                          *)
LEMMA NewFdIsNew ==
  ASSUME CacheTypes
  PROVE  NewFd \in Nat /\ NewFd \notin DOMAIN opened
<1> DEFINE D == DOMAIN opened
           c == Cardinality(D)
           T == {n \in 0..c : n \notin D}
<1>1. IsFiniteSet(D) /\ D \subseteq Nat
  BY DEF CacheTypes, OpenedType
<1>2. c \in Nat
  BY <1>1, FS_CardinalityType
<1>3. T # {}
  <2> SUFFICES ASSUME 0..c \subseteq D
               PROVE  FALSE
    OBVIOUS
  <2>1. Cardinality(0..c) <= c
    BY <1>1, FS_Subset
  <2>2. Cardinality(0..c) = c + 1
    BY <1>2, FS_Interval
  <2> QED
    BY <1>2, <2>1, <2>2
<1>4. PICK n \in T : \A m \in T : n <= m
  <2>1. T \subseteq Nat
    BY <1>2
  <2> HIDE DEF T
  <2> QED
    BY <1>3, <2>1, LeastNat
<1>5. n \in 0..c /\ n \notin D /\ 0..(n - 1) \subseteq D
  BY <1>2, <1>4
<1>6. \E m \in 0..c : m \notin D /\ 0..(m - 1) \subseteq D
  BY <1>5
<1>7. NewFd = CHOOSE m \in 0..c : m \notin D /\ 0..(m - 1) \subseteq D
  BY DEF NewFd
<1> HIDE DEF D, c
<1>8. NewFd \in 0..c /\ NewFd \notin D
  BY <1>6, <1>7
<1> QED
  BY <1>2, <1>8 DEF D

LEMMA OpenedAddsOne ==
  ASSUME OpenedType(opened), NEW n \in Nat, n \notin DOMAIN opened, NEW f \in Files
  PROVE  /\ OpenedType(Opened(n, f))
         /\ DOMAIN Opened(n, f) = DOMAIN opened \cup {n}
         /\ Opened(n, f)[n].file = f
         /\ \A m \in DOMAIN opened : Opened(n, f)[m] = opened[m]
<1> DEFINE o == Opened(n, f)
<1>1. o = [m \in DOMAIN opened \cup {n} |->
             IF m = n THEN [file |-> f, offset |-> 0] ELSE opened[m]]
  BY DEF Opened
<1>2. IsFiniteSet(DOMAIN opened \cup {n})
  BY FS_AddElement DEF OpenedType
<1> HIDE DEF o
<1>3. DOMAIN o = DOMAIN opened \cup {n}
  BY <1>1
<1>4. \A m \in DOMAIN o : o[m] \in [file : Files, offset : Nat]
  BY <1>1 DEF OpenedType
<1>5. o \in [DOMAIN o -> [file : Files, offset : Nat]]
  BY <1>1, <1>4
<1>6. o[n].file = f /\ \A m \in DOMAIN opened : o[m] = opened[m]
  BY <1>1
<1> QED
  BY <1>2, <1>3, <1>5, <1>6 DEF o, OpenedType

LEMMA ClosedTakesAway ==
  ASSUME OpenedType(opened), NEW S
  PROVE  /\ OpenedType(Closed(S))
         /\ DOMAIN Closed(S) = DOMAIN opened \ S
         /\ \A m \in DOMAIN opened \ S : Closed(S)[m] = opened[m]
<1> DEFINE o == Closed(S)
<1>1. o = [n \in DOMAIN opened \ S |-> opened[n]]
  BY DEF Closed
<1>2. IsFiniteSet(DOMAIN opened \ S)
  BY FS_Difference DEF OpenedType
<1> HIDE DEF o
<1>3. DOMAIN o = DOMAIN opened \ S
  BY <1>1
<1>4. o \in [DOMAIN o -> [file : Files, offset : Nat]]
  BY <1>1 DEF OpenedType
<1> QED
  BY <1>1, <1>2, <1>3, <1>4 DEF o, OpenedType

(* A descriptor is moved.                                                  *)
LEMMA MovedStaysOpen ==
  ASSUME OpenedType(opened), NEW n \in DOMAIN opened, NEW x \in Nat,
         opened' = [opened EXCEPT ![n].offset = x]
  PROVE  /\ OpenedType(opened')
         /\ DOMAIN opened' = DOMAIN opened
         /\ opened'[n].offset = x
         /\ \A m \in DOMAIN opened : opened'[m].file = opened[m].file
         /\ \A m \in DOMAIN opened \ {n} : opened'[m] = opened[m]
<1>1. opened[n] \in [file : Files, offset : Nat]
  BY DEF OpenedType
<1>2. opened' = [opened EXCEPT ![n] = [file |-> opened[n].file, offset |-> x]]
  <2>1. opened' = [opened EXCEPT ![n] = [opened[n] EXCEPT !.offset = x]]
    BY Zenon
  <2>2. [opened[n] EXCEPT !.offset = x] = [file |-> opened[n].file, offset |-> x]
    BY <1>1
  <2> QED
    BY <2>1, <2>2
<1>3. DOMAIN opened' = DOMAIN opened
  BY <1>2
<1>4. opened' \in [DOMAIN opened -> [file : Files, offset : Nat]]
  BY <1>1, <1>2 DEF OpenedType
<1> QED
  BY <1>1, <1>2, <1>3, <1>4 DEF OpenedType

-----------------------------------------------------------------------------
(* Calls.                                                                  *)
LEMMA CallKinds ==
  /\ \A c \in Puts : c.op = "put" /\ WithoutFlags(c) \in Puts
  /\ Get.op = "get" /\ WithoutFlags(Get) = Get
  /\ Del.op = "del" /\ NoCall.op = "none"
  /\ WithoutFlags(Del) = Del /\ WithoutFlags(NoCall) = NoCall
BY DEF Puts, Put, Get, Del, NoCall, WithoutFlags

LEMMA FlagsAside ==
  ASSUME NEW c \in Calls
  PROVE  WithoutFlags(c) \in Calls /\ WithoutFlags(c).op = c.op
BY CallKinds DEF Calls

LEMMA UsersFinite ==
  \A k \in Keys : IsFiniteSet(Users(k)) /\ Users(k) \subseteq Threads
<1>1. \A k \in Keys : Users(k) \subseteq Threads
  BY DEF Users, AtKey
<1> QED
  BY <1>1, FileSystemStoreAssumption, FS_Subset

-----------------------------------------------------------------------------
(* A call begins.                                                          *)
LEMMA BegunIsCall ==
  ASSUME FdInv, NEW t \in Threads, NEW k \in Keys,
         NEW c \in Puts \cup {Get, Del}, NEW label \in {"open", "seek", "exists", "unlink"},
         NEW n \in Nat \cup {NoFd}, Begin(t, k, c, label, n),
         label = "unlink" <=> c.op = "del",
         label = "exists" => c.op = "put",
         c.op = "del" => fd_'[k] = NoFd,
         \A j \in Keys \ {k} : fd_'[j] = fd_[j]
  PROVE  ThreadTypes' /\ \A u \in Threads : CallInv(u)'
<1>1. /\ pc[t] = "idle"
      /\ pc' = [pc EXCEPT ![t] = label] /\ key' = [key EXCEPT ![t] = k]
      /\ call' = [call EXCEPT ![t] = c] /\ fd' = [fd EXCEPT ![t] = n]
      /\ buf' = buf
  BY DEF Begin, MayBegin
<1>2. c \in Calls /\ c.op \in {"get", "put", "del"}
  BY CallKinds DEF Calls
<1>3. company' \in [Threads -> {"none", "gets", "puts"}]
  <2>1. \A u \in Threads : company[u] \in {"none", "gets", "puts"}
    BY DEF FdInv, ThreadTypes
  <2> QED
    BY <2>1 DEF Begin
<1>4. ThreadTypes'
  BY <1>1, <1>2, <1>3 DEF FdInv, ThreadTypes, StoreLabels
<1>5. c.op = "del" => \A u \in Threads : key[u] # k
  BY DEF Begin, MayBegin, AtKey
<1>6. c.op # "del" => \A u \in Threads : key[u] = k => call[u].op # "del"
  BY DEF Begin, MayBegin, AtKey
<1>7. \A u \in Threads : CallInv(u)
  BY DEF FdInv
<1>8. CallInv(t)'
  BY <1>1, <1>2, <1>5, <1>7, FileSystemStoreAssumption
     DEF FdInv, ThreadTypes, CallInv, InCache
<1>9. ASSUME NEW u \in Threads, u # t
      PROVE  CallInv(u)'
  <2>1. /\ pc'[u] = pc[u] /\ key'[u] = key[u] /\ call'[u] = call[u] /\ buf'[u] = buf[u]
        /\ CallInv(u)
    BY <1>1, <1>7, <1>9
  <2>2. call[u].op = "del" => key[u] # k /\ key[u] \in Keys
    BY <1>5, <1>6, <2>1 DEF CallInv
  <2>3. call[u].op = "del" => \A v \in Threads : key'[v] = key[u] => v = u
    BY <1>1, <2>1, <2>2 DEF CallInv, FdInv, ThreadTypes
  <2> QED
    BY <2>1, <2>2, <2>3 DEF CallInv, InCache
<1> QED
  BY <1>4, <1>8, <1>9

LEMMA CallHitKeepsFd ==
  ASSUME FdInv, NEW t \in Threads, NEW k \in Keys, NEW c \in Puts \cup {Get},
         CallHit(t, k, c)
  PROVE  FdInv'
<1> DEFINE label == IF c.op = "put" /\ c.excl THEN "exists" ELSE "seek"
<1>1. /\ Begin(t, k, WithoutFlags(c), label, fd_[k])
      /\ InCache(k) /\ pin_count_' = [pin_count_ EXCEPT ![k] = @ + 1]
      /\ UNCHANGED <<fd_, opened>>
  BY DEF CallHit, GetAndPin, AddPin
<1>2. /\ WithoutFlags(c) \in Puts \cup {Get, Del}
      /\ WithoutFlags(c).op = c.op /\ c.op \in {"put", "get"}
  BY CallKinds
<1>3. fd_[k] \in Nat \cup {NoFd}
  BY DEF FdInv, CacheTypes
<1>4. label \in {"exists", "seek"} /\ (label = "exists" => c.op = "put")
  OBVIOUS
<1> HIDE DEF label
<1>5. ThreadTypes' /\ \A u \in Threads : CallInv(u)'
  BY <1>1, <1>2, <1>3, <1>4, BegunIsCall
<1>6. /\ pc[t] = "idle" /\ pc' = [pc EXCEPT ![t] = label] /\ key' = [key EXCEPT ![t] = k]
      /\ fd' = [fd EXCEPT ![t] = fd_[k]] /\ UNCHANGED <<fvars, last>>
  BY <1>1 DEF Begin, MayBegin
<1>7. CacheTypes' /\ FileTypes'
  BY <1>1, <1>6 DEF FdInv, CacheTypes, FileTypes, fvars
<1>8. EntryInv'
  BY <1>1, <1>6 DEF FdInv, EntryInv, FdIsFile, Cached, InCache, fvars
<1>9. InsertInv'
  BY <1>1, <1>4, <1>6 DEF FdInv, InsertInv, Cached, InCache, fvars, ThreadTypes
<1>10. WorkInv'
  BY <1>1, <1>6 DEF FdInv, WorkInv, InCache, ThreadTypes
<1>11. PinInv'
  <2>1. Users(k)' = Users(k) \cup {t} /\ t \notin Users(k)
    BY <1>4, <1>6 DEF Users, AtKey, FdInv, ThreadTypes
  <2>2. \A j \in Keys \ {k} : Users(j)' = Users(j)
    BY <1>4, <1>6, FileSystemStoreAssumption DEF Users, AtKey, FdInv, ThreadTypes, CallInv
  <2>3. Cardinality(Users(k)') = Cardinality(Users(k)) + 1
    BY <2>1, UsersFinite, FS_AddElement
  <2>4. pin_count_[k] \in Nat
    BY DEF FdInv, CacheTypes
  <2>5. pin_count_'[k] = pin_count_[k] + 1 /\ \A j \in Keys \ {k} : pin_count_'[j] = pin_count_[j]
    BY <1>1, <2>4 DEF FdInv, CacheTypes
  <2> QED
    BY <1>1, <2>2, <2>3, <2>5 DEF FdInv, PinInv, InCache
<1>12. NoFdLeak'
  <2>1. {u \in Threads : pc'[u] = "insert"} = {u \in Threads : pc[u] = "insert"}
    BY <1>4, <1>6 DEF FdInv, ThreadTypes
  <2>2. \A u \in Threads : pc[u] = "insert" => fd'[u] = fd[u]
    BY <1>6 DEF FdInv, ThreadTypes
  <2> QED
    BY <1>1, <2>1, <2>2 DEF FdInv, NoFdLeak, Cached, InCache
<1> QED
  BY <1>5, <1>7, <1>8, <1>9, <1>10, <1>11, <1>12 DEF FdInv

LEMMA LocalKeepsCalls ==
  ASSUME FdInv, NEW t \in Threads,
         \A u \in Threads \ {t} : /\ pc'[u] = pc[u] /\ key'[u] = key[u]
                                  /\ call'[u] = call[u] /\ buf'[u] = buf[u],
         key'[t] \in {key[t], NoKey}, CallInv(t)',
         \A k \in Keys \ {key[t]} : fd_[k] = NoFd => fd_'[k] = NoFd
  PROVE  \A u \in Threads : CallInv(u)'
<1> SUFFICES ASSUME NEW u \in Threads, u # t
             PROVE  CallInv(u)'
  OBVIOUS
<1>1. /\ pc'[u] = pc[u] /\ key'[u] = key[u] /\ call'[u] = call[u] /\ buf'[u] = buf[u]
      /\ CallInv(u)
  BY DEF FdInv
<1>2. ASSUME call[u].op = "del"
      PROVE  /\ \A v \in Threads : key'[v] = key'[u] => v = u
             /\ ~InCache(key[u])'
  <2>1. /\ \A v \in Threads : key[v] = key[u] => v = u
        /\ ~InCache(key[u]) /\ key[u] \in Keys
    BY <1>1, <1>2, CallKinds DEF CallInv
  <2>2. key[u] # key[t]
    BY <2>1
  <2> QED
    BY <1>1, <2>1, <2>2, FileSystemStoreAssumption DEF InCache
<1> QED
  BY <1>1, <1>2 DEF CallInv

(* A step that leaves alone who has which descriptor.                      *)
LEMMA QuietKeepsFd ==
  ASSUME FdInv, CacheTypes', FileTypes', ThreadTypes', \A u \in Threads : CallInv(u)',
         UNCHANGED <<fd_, pin_count_, dir>>, DOMAIN opened' = DOMAIN opened,
         \A n \in DOMAIN opened : opened'[n].file = opened[n].file,
         \A u \in Threads : pc'[u] = "insert" <=> pc[u] = "insert",
         \A u \in Threads : pc'[u] \in Working <=> pc[u] \in Working,
         \A u \in Threads : pc[u] \in Working \cup {"insert"} => key'[u] = key[u] /\ fd'[u] = fd[u]
  PROVE  FdInv'
<1>1. EntryInv'
  BY DEF FdInv, EntryInv, FdIsFile, Cached, InCache
<1>2. InsertInv'
  BY DEF FdInv, InsertInv, Cached, InCache
<1>3. WorkInv'
  BY DEF FdInv, WorkInv, InCache
<1>4. PinInv'
  <2>1. \A k \in Keys : Users(k)' = Users(k)
    BY FileSystemStoreAssumption DEF Users, AtKey, Working
  <2> QED
    BY <2>1 DEF FdInv, PinInv, InCache
<1>5. NoFdLeak'
  BY DEF FdInv, NoFdLeak, Cached, InCache
<1> QED
  BY <1>1, <1>2, <1>3, <1>4, <1>5 DEF FdInv

LEMMA CallMissKeepsFd ==
  ASSUME FdInv, NEW t \in Threads, NEW k \in Keys, NEW c \in Puts \cup {Get},
         CallMiss(t, k, c)
  PROVE  FdInv'
<1>1. Begin(t, k, c, "open", NoFd) /\ UNCHANGED <<cvars, opened>>
  BY DEF CallMiss
<1>2. c \in Puts \cup {Get, Del} /\ c.op # "del"
  BY CallKinds
<1>3. ThreadTypes' /\ \A u \in Threads : CallInv(u)'
  BY <1>1, <1>2, BegunIsCall DEF cvars
<1>4. /\ pc[t] = "idle" /\ pc' = [pc EXCEPT ![t] = "open"] /\ key' = [key EXCEPT ![t] = k]
      /\ fd' = [fd EXCEPT ![t] = NoFd] /\ UNCHANGED <<fvars, last>>
  BY <1>1 DEF Begin, MayBegin
<1>5. CacheTypes' /\ FileTypes'
  BY <1>1, <1>4 DEF FdInv, CacheTypes, FileTypes, fvars, cvars
<1>6. \A u \in Threads : /\ pc'[u] = "insert" <=> pc[u] = "insert"
                         /\ pc'[u] \in Working <=> pc[u] \in Working
                         /\ pc[u] \in Working \cup {"insert"} => key'[u] = key[u] /\ fd'[u] = fd[u]
  BY <1>4 DEF FdInv, ThreadTypes, Working
<1> QED
  BY <1>1, <1>3, <1>4, <1>5, <1>6, QuietKeepsFd DEF cvars, fvars

-----------------------------------------------------------------------------
(* A file is opened.                                                       *)
LEMMA OpenFileKeepsFd ==
  ASSUME FdInv, NEW t \in Threads, NEW f \in Files, OpenFile(t, f),
         call[t].op \in {"get", "put"},
         dir' \in [Keys -> Files \cup {NoFile}], dir'[key[t]] = f,
         \A k \in Keys \ {key[t]} : dir'[k] = dir[k],
         dir[key[t]] \in {f, NoFile},
         content' \in [Files -> Seq(Blks)], synced' \subseteq Files
  PROVE  FdInv'
<1> DEFINE n == NewFd
<1>1. n \in Nat /\ n \notin DOMAIN opened
  BY NewFdIsNew DEF FdInv
<1>2. /\ pc[t] = "open" /\ pc' = [pc EXCEPT ![t] = "insert"]
      /\ fd' = [fd EXCEPT ![t] = n] /\ opened' = Opened(n, f)
      /\ call' = [call EXCEPT ![t] = WithoutFlags(call[t])]
      /\ UNCHANGED <<cvars, key, buf, company>>
  BY DEF OpenFile, Goto
<1>3. /\ OpenedType(opened') /\ DOMAIN opened' = DOMAIN opened \cup {n}
      /\ opened'[n].file = f
      /\ \A m \in DOMAIN opened : opened'[m] = opened[m]
  <2>1. OpenedType(opened)
    BY DEF FdInv, CacheTypes
  <2> HIDE DEF n
  <2>2. /\ OpenedType(Opened(n, f)) /\ DOMAIN Opened(n, f) = DOMAIN opened \cup {n}
        /\ Opened(n, f)[n].file = f
        /\ \A m \in DOMAIN opened : Opened(n, f)[m] = opened[m]
    BY <1>1, <2>1, OpenedAddsOne
  <2> QED
    BY <1>2, <2>2
<1> HIDE DEF n
<1>4. CacheTypes'
  BY <1>2, <1>3 DEF FdInv, CacheTypes, cvars
<1>5. FileTypes'
  <2>1. last' = [last EXCEPT ![key[t]] = IF call[t].op = "put" THEN Unknown ELSE @]
    BY DEF OpenFile
  <2>2. last' \in [Keys -> Values \cup {Absent, Unknown}]
    BY <2>1 DEF FdInv, FileTypes
  <2> QED
    BY <2>2 DEF FileTypes
<1>6. WithoutFlags(call[t]) \in Calls /\ WithoutFlags(call[t]).op = call[t].op
  BY FlagsAside DEF FdInv, ThreadTypes
<1>7. ThreadTypes'
  BY <1>1, <1>2, <1>6 DEF FdInv, ThreadTypes, StoreLabels
<1>8. \A u \in Threads : CallInv(u)'
  <2>1. CallInv(t)'
    BY <1>2, <1>6 DEF FdInv, ThreadTypes, CallInv
  <2>2. \A u \in Threads \ {t} : /\ pc'[u] = pc[u] /\ key'[u] = key[u]
                                 /\ call'[u] = call[u] /\ buf'[u] = buf[u]
    BY <1>2
  <2> QED
    BY <1>2, <2>1, <2>2, LocalKeepsCalls DEF cvars
<1>9. key[t] \in Keys /\ NoFile \notin Files
  BY <1>2, FileSystemStoreAssumption DEF FdInv, CallInv
<1>10. \A m \in DOMAIN opened : opened[m].file \in Files
  BY DEF FdInv, CacheTypes, OpenedType
<1>11. EntryInv'
  <2>1. \A k \in Cached : dir'[k] = dir[k]
    BY <1>9, <1>10 DEF FdInv, EntryInv, FdIsFile, Cached
  <2> QED
    BY <1>2, <1>3, <2>1 DEF FdInv, EntryInv, FdIsFile, Cached, InCache, cvars
<1>12. InsertInv'
  <2>1. \A u \in Threads : pc[u] = "insert" => key[u] \in Keys /\ dir'[key[u]] = dir[key[u]]
    BY <1>9, <1>10 DEF FdInv, InsertInv, CallInv
  <2>2. \A k \in Cached : fd_[k] \in DOMAIN opened
    BY DEF FdInv, EntryInv, FdIsFile
  <2>3. Cached' = Cached
    BY <1>2 DEF Cached, InCache, cvars
  <2>4. ASSUME NEW u \in Threads, pc'[u] = "insert"
        PROVE  /\ fd'[u] \in DOMAIN opened' /\ opened'[fd'[u]].file = dir'[key'[u]]
               /\ \A k \in Cached : fd_'[k] # fd'[u]
    <3>1. CASE u = t
      BY <1>1, <1>2, <1>3, <2>2, <3>1 DEF FdInv, ThreadTypes, cvars
    <3>2. CASE u # t
      BY <1>2, <1>3, <2>1, <2>4, <3>2 DEF FdInv, InsertInv, ThreadTypes, cvars
    <3> QED
      BY <3>1, <3>2
  <2>5. ASSUME NEW u \in Threads, NEW v \in Threads,
               pc'[u] = "insert", pc'[v] = "insert", fd'[u] = fd'[v]
        PROVE  u = v
    BY <1>1, <1>2, <2>5 DEF FdInv, InsertInv, ThreadTypes
  <2> QED
    BY <2>3, <2>4, <2>5 DEF InsertInv
<1>13. WorkInv'
  BY <1>2 DEF FdInv, WorkInv, InCache, ThreadTypes, Working, cvars
<1>14. PinInv'
  <2>1. \A k \in Keys : Users(k)' = Users(k)
    BY <1>2 DEF Users, AtKey, FdInv, ThreadTypes
  <2> QED
    BY <1>2, <2>1 DEF FdInv, PinInv, InCache, cvars
<1>15. NoFdLeak'
  <2>1. {fd'[u] : u \in {v \in Threads : pc'[v] = "insert"}} =
          {fd[u] : u \in {v \in Threads : pc[v] = "insert"}} \cup {n}
    BY <1>2 DEF FdInv, ThreadTypes
  <2>2. Cached' = Cached /\ {fd_'[k] : k \in Cached'} = {fd_[k] : k \in Cached}
    BY <1>2 DEF Cached, InCache, cvars
  <2>3. DOMAIN opened = {fd_[k] : k \in Cached} \cup {fd[u] : u \in {v \in Threads : pc[v] = "insert"}}
    BY DEF FdInv, NoFdLeak
  <2>4. DOMAIN opened' = {fd_'[k] : k \in Cached'} \cup {fd'[u] : u \in {v \in Threads : pc'[v] = "insert"}}
    <3> HIDE DEF Cached
    <3> QED
      BY <1>3, <2>1, <2>2, <2>3, Zenon
  <2> QED
    BY <2>4 DEF NoFdLeak
<1> QED
  BY <1>4, <1>5, <1>7, <1>8, <1>11, <1>12, <1>13, <1>14, <1>15 DEF FdInv

LEMMA GetOpenKeepsFd ==
  ASSUME FdInv, NEW t \in Threads, GetOpen(t)
  PROVE  FdInv'
<1> DEFINE f == dir[key[t]]
<1>1. pc[t] = "open" /\ key[t] \in Keys /\ call[t].op = "get" /\ UNCHANGED fvars
  BY DEF GetOpen, OpenFile, Goto, FdInv, CallInv
<1>2. f \in Files \cup {NoFile}
  BY <1>1 DEF FdInv, FileTypes
<1>3. CASE f = NoFile
  <2>1. /\ pc' = [pc EXCEPT ![t] = "notfound"]
        /\ UNCHANGED <<cvars, opened, key, fd, call, buf, company, last>>
    BY <1>3, FileSystemStoreAssumption DEF GetOpen, Goto
  <2>2. CacheTypes' /\ FileTypes' /\ ThreadTypes'
    BY <1>1, <2>1 DEF FdInv, CacheTypes, FileTypes, ThreadTypes, cvars, fvars, StoreLabels
  <2>3. CallInv(t)'
    BY <1>1, <2>1 DEF FdInv, CallInv, ThreadTypes
  <2>4. \A u \in Threads : CallInv(u)'
    BY <2>1, <2>3, LocalKeepsCalls DEF cvars
  <2>5. \A u \in Threads : /\ pc'[u] = "insert" <=> pc[u] = "insert"
                           /\ pc'[u] \in Working <=> pc[u] \in Working
    BY <1>1, <2>1 DEF FdInv, ThreadTypes, Working
  <2> QED
    BY <1>1, <2>1, <2>2, <2>4, <2>5, QuietKeepsFd DEF cvars, fvars
<1>4. CASE f # NoFile
  <2>1. OpenFile(t, f) /\ f \in Files
    BY <1>2, <1>4 DEF GetOpen
  <2>2. /\ dir' \in [Keys -> Files \cup {NoFile}] /\ dir'[key[t]] = f
        /\ \A k \in Keys \ {key[t]} : dir'[k] = dir[k]
        /\ content' \in [Files -> Seq(Blks)] /\ synced' \subseteq Files
    BY <1>1 DEF FdInv, FileTypes, fvars
  <2> HIDE DEF f
  <2> QED
    BY <1>1, <2>1, <2>2, OpenFileKeepsFd DEF f
<1> QED
  BY <1>3, <1>4

LEMMA PutOpenNewKeepsFd ==
  ASSUME FdInv, NEW t \in Threads, NEW f \in Files, PutOpenNew(t, f)
  PROVE  FdInv'
<1>1. /\ OpenFile(t, f) /\ call[t].op = "put" /\ dir[key[t]] = NoFile
      /\ dir' = [dir EXCEPT ![key[t]] = f] /\ synced' = synced \ {f} /\ UNCHANGED content
  BY DEF PutOpenNew
<1>2. key[t] \in Keys
  BY <1>1 DEF OpenFile, Goto, FdInv, CallInv
<1>3. /\ dir' \in [Keys -> Files \cup {NoFile}] /\ dir'[key[t]] = f
      /\ \A k \in Keys \ {key[t]} : dir'[k] = dir[k]
      /\ content' \in [Files -> Seq(Blks)] /\ synced' \subseteq Files
  BY <1>1, <1>2 DEF FdInv, FileTypes
<1> QED
  BY <1>1, <1>3, OpenFileKeepsFd

LEMMA PutOpenOldKeepsFd ==
  ASSUME FdInv, NEW t \in Threads, PutOpenOld(t)
  PROVE  FdInv'
<1> DEFINE f == dir[key[t]]
<1>1. /\ OpenFile(t, f) /\ call[t].op = "put" /\ f # NoFile
      /\ content' = [content EXCEPT ![f] = <<>>] /\ synced' = synced \ {f} /\ UNCHANGED dir
  BY DEF PutOpenOld
<1>2. key[t] \in Keys
  BY <1>1 DEF OpenFile, Goto, FdInv, CallInv
<1>3. f \in Files
  BY <1>1, <1>2 DEF FdInv, FileTypes
<1>4. dir'[key[t]] = f /\ dir' \in [Keys -> Files \cup {NoFile}]
      /\ \A k \in Keys \ {key[t]} : dir'[k] = dir[k]
  BY <1>1 DEF FdInv, FileTypes
<1>5. content' \in [Files -> Seq(Blks)] /\ synced' \subseteq Files
  <2>1. <<>> \in Seq(Blks)
    BY EmptySeq
  <2>2. content \in [Files -> Seq(Blks)] /\ synced \subseteq Files
    BY DEF FdInv, FileTypes
  <2> HIDE DEF f
  <2> QED
    BY <1>1, <1>3, <2>1, <2>2
<1> HIDE DEF f
<1> QED
  BY <1>1, <1>3, <1>4, <1>5, OpenFileKeepsFd DEF f

-----------------------------------------------------------------------------
(* A call returns.                                                         *)
LEMMA EndedIsIdle ==
  ASSUME FdInv, NEW t \in Threads, NEW label, End(t, label), UNCHANGED fd_
  PROVE  /\ ThreadTypes' /\ \A u \in Threads : CallInv(u)'
         /\ pc[t] = label
         /\ pc' = [pc EXCEPT ![t] = "idle"] /\ key' = [key EXCEPT ![t] = NoKey]
         /\ fd' = [fd EXCEPT ![t] = NoFd] /\ buf' = [buf EXCEPT ![t] = <<>>]
<1>1. /\ pc[t] = label
      /\ pc' = [pc EXCEPT ![t] = "idle"] /\ key' = [key EXCEPT ![t] = NoKey]
      /\ fd' = [fd EXCEPT ![t] = NoFd] /\ call' = [call EXCEPT ![t] = NoCall]
      /\ buf' = [buf EXCEPT ![t] = <<>>] /\ company' = [company EXCEPT ![t] = "none"]
  BY DEF End, Goto
<1>2. NoCall \in Calls /\ NoCall.op = "none" /\ <<>> \in Seq(Blks)
  BY CallKinds, EmptySeq DEF Calls
<1>3. ThreadTypes'
  BY <1>1, <1>2 DEF FdInv, ThreadTypes, StoreLabels
<1>4. CallInv(t)'
  BY <1>1, <1>2 DEF FdInv, ThreadTypes, CallInv
<1>5. \A u \in Threads \ {t} : /\ pc'[u] = pc[u] /\ key'[u] = key[u]
                               /\ call'[u] = call[u] /\ buf'[u] = buf[u]
  BY <1>1
<1>6. key'[t] \in {key[t], NoKey}
  BY <1>1 DEF FdInv, ThreadTypes
<1>7. \A u \in Threads : CallInv(u)'
  BY <1>4, <1>5, <1>6, LocalKeepsCalls
<1> QED
  BY <1>1, <1>3, <1>7

LEMMA PutRefusedKeepsFd ==
  ASSUME FdInv, NEW t \in Threads, PutRefused(t)
  PROVE  FdInv'
<1>1. End(t, "open") /\ UNCHANGED <<cvars, opened, fvars, last>>
  BY DEF PutRefused
<1>2. /\ ThreadTypes' /\ \A u \in Threads : CallInv(u)'
      /\ pc[t] = "open"
      /\ pc' = [pc EXCEPT ![t] = "idle"] /\ key' = [key EXCEPT ![t] = NoKey]
      /\ fd' = [fd EXCEPT ![t] = NoFd]
  BY <1>1, EndedIsIdle DEF cvars
<1>3. CacheTypes' /\ FileTypes'
  BY <1>1 DEF FdInv, CacheTypes, FileTypes, cvars, fvars
<1>4. \A u \in Threads : /\ pc'[u] = "insert" <=> pc[u] = "insert"
                         /\ pc'[u] \in Working <=> pc[u] \in Working
                         /\ pc[u] \in Working \cup {"insert"} => key'[u] = key[u] /\ fd'[u] = fd[u]
  BY <1>2 DEF FdInv, ThreadTypes, Working
<1> QED
  BY <1>1, <1>2, <1>3, <1>4, QuietKeepsFd DEF cvars, fvars

-----------------------------------------------------------------------------
(* Work with a descriptor.                                                 *)
LEMMA WorkersFd ==
  ASSUME FdInv, NEW t \in Threads, pc[t] \in Working
  PROVE  /\ key[t] \in Keys /\ InCache(key[t]) /\ fd[t] = fd_[key[t]]
         /\ fd[t] \in DOMAIN opened /\ fd[t] \in Nat
         /\ opened[fd[t]] \in [file : Files, offset : Nat]
         /\ opened[fd[t]].file = dir[key[t]]
<1>1. key[t] \in Keys /\ InCache(key[t]) /\ fd[t] = fd_[key[t]]
  BY DEF FdInv, WorkInv, CallInv, Working
<1>2. fd[t] \in DOMAIN opened /\ opened[fd[t]].file = dir[key[t]]
  BY <1>1 DEF FdInv, EntryInv, FdIsFile, Cached
<1> QED
  BY <1>1, <1>2 DEF FdInv, CacheTypes, OpenedType

LEMMA LongestIsNat ==
  /\ \A n \in Nat : UpTo(n) \in 0..Longest /\ UpTo(n) <= n
  /\ \A v \in Values : Size[v] \in 1..Longest /\ Blocks(v) \in Seq(Blks)
                       /\ Len(Blocks(v)) = Size[v] /\ \A i \in 1..Size[v] : Blocks(v)[i] = v
  /\ Longest \in Nat
<1>1. Longest \in Nat /\ \A v \in Values : Size[v] \in 1..Longest
  BY FileSystemStoreAssumption
<1>2. \A n \in Nat : UpTo(n) \in 0..Longest /\ UpTo(n) <= n
  BY <1>1 DEF UpTo
<1>3. ASSUME NEW v \in Values
      PROVE  /\ Blocks(v) \in Seq(Blks) /\ Len(Blocks(v)) = Size[v]
             /\ \A i \in 1..Size[v] : Blocks(v)[i] = v
  <2>1. Size[v] \in Nat
    BY <1>1
  <2>2. Blocks(v) = [i \in 1..Size[v] |-> v]
    BY DEF Blocks
  <2> QED
    BY <2>1, <2>2 DEF Blks
<1> QED
  BY <1>1, <1>2, <1>3

LEMMA OffsetsAreNat ==
  ASSUME NEW offset \in Nat, NEW n \in 0..Longest
  PROVE  UpTo(offset + n) \in Nat
<1>1. n \in Nat /\ \A m \in Nat : UpTo(m) \in Nat
  BY LongestIsNat
<1>2. offset + n \in Nat
  BY <1>1
<1> QED
  BY <1>1, <1>2

LEMMA WrittenType ==
  ASSUME NEW old \in Seq(Blks), NEW offset \in Nat, NEW new \in Seq(Blks)
  PROVE  Written(old, offset, new) \in Seq(Blks)
<1> DEFINE end == UpTo(offset + Len(new))
           len == IF end > Len(old) THEN end ELSE Len(old)
           w   == Written(old, offset, new)
<1>1. end \in Nat /\ end <= offset + Len(new)
  BY LongestIsNat, LenProperties
<1>2. len \in Nat
  BY <1>1, LenProperties
<1>3. w = [i \in 1..len |-> IF i \in (offset + 1)..end THEN new[i - offset]
                            ELSE IF i <= Len(old) THEN old[i] ELSE Hole]
  BY DEF Written
<1> HIDE DEF end, len, w
<1>4. ASSUME NEW i \in 1..len
      PROVE  w[i] \in Blks
  <2>1. CASE i \in (offset + 1)..end
    <3>1. i - offset \in 1..Len(new)
      BY <1>1, <2>1, LenProperties
    <3>2. w[i] = new[i - offset]
      BY <1>3, <2>1
    <3> QED
      BY <3>1, <3>2, ElementOfSeq
  <2>2. CASE i \notin (offset + 1)..end /\ i <= Len(old)
    <3>1. i \in 1..Len(old) /\ w[i] = old[i]
      BY <1>2, <1>3, <2>2, LenProperties
    <3> QED
      BY <3>1, ElementOfSeq
  <2>3. CASE i \notin (offset + 1)..end /\ ~(i <= Len(old))
    BY <1>3, <2>3 DEF Blks
  <2> QED
    BY <2>1, <2>2, <2>3
<1>5. DOMAIN w = 1..len
  BY <1>3
<1>6. w \in [1..len -> Blks]
  BY <1>3, <1>4, <1>5
<1> QED
  BY <1>2, <1>6 DEF w

LEMMA SeekKeepsFd ==
  ASSUME FdInv, NEW t \in Threads, Seek(t)
  PROVE  FdInv'
<1>1. /\ pc[t] = "seek" /\ pc' = [pc EXCEPT ![t] = IF call[t].op = "put" THEN "write" ELSE "read"]
      /\ opened' = [opened EXCEPT ![fd[t]].offset = 0]
      /\ UNCHANGED <<cvars, fvars, key, fd, call, buf, company, last>>
  BY DEF Seek, Goto
<1>2. fd[t] \in DOMAIN opened
  BY <1>1, WorkersFd DEF Working
<1>3. /\ OpenedType(opened') /\ DOMAIN opened' = DOMAIN opened
      /\ \A m \in DOMAIN opened : opened'[m].file = opened[m].file
  <2>1. OpenedType(opened)
    BY DEF FdInv, CacheTypes
  <2>2. /\ \A m \in DOMAIN opened \ {fd[t]} : opened'[m] = opened[m]
        /\ opened'[fd[t]].file = opened[fd[t]].file
        /\ OpenedType(opened') /\ DOMAIN opened' = DOMAIN opened
    BY <1>1, <1>2, <2>1, MovedStaysOpen
  <2> QED
    BY <2>2
<1>4. CacheTypes' /\ FileTypes' /\ ThreadTypes'
  BY <1>1, <1>3 DEF FdInv, CacheTypes, FileTypes, ThreadTypes, cvars, fvars, StoreLabels
<1>5. CallInv(t)'
  BY <1>1 DEF FdInv, CallInv, ThreadTypes
<1>6. \A u \in Threads : CallInv(u)'
  BY <1>1, <1>5, LocalKeepsCalls DEF cvars
<1>7. \A u \in Threads : /\ pc'[u] = "insert" <=> pc[u] = "insert"
                         /\ pc'[u] \in Working <=> pc[u] \in Working
  BY <1>1 DEF FdInv, ThreadTypes, Working
<1> QED
  BY <1>1, <1>3, <1>4, <1>6, <1>7, QuietKeepsFd DEF cvars, fvars

LEMMA WriteKeepsFd ==
  ASSUME FdInv, NEW t \in Threads, NEW v \in Values, NEW n \in 0..Longest, Write(t, v, n)
  PROVE  FdInv'
<1> DEFINE f   == opened[fd[t]].file
           off == opened[fd[t]].offset
           new == SubSeq(Blocks(v), 1, n)
<1>1. /\ pc[t] = "write" /\ pc' = [pc EXCEPT ![t] = "unpin"]
      /\ n <= Size[v]
      /\ content' = [content EXCEPT ![f] = Written(@, off, new)]
      /\ opened' = [opened EXCEPT ![fd[t]].offset = UpTo(@ + n)]
      /\ last' = [last EXCEPT ![key[t]] =
           IF n = Size[v] /\ company[t] = "none" THEN v ELSE Unknown]
      /\ synced' = synced \ {f}
      /\ UNCHANGED <<cvars, dir, key, fd, call, buf, company>>
  BY LongestIsNat DEF Write, Goto
<1>2. fd[t] \in DOMAIN opened /\ f \in Files /\ off \in Nat
  BY <1>1, WorkersFd DEF Working
<1>3. UpTo(off + n) \in Nat
  <2> HIDE DEF off
  <2> QED
    BY <1>2, OffsetsAreNat
<1>4. opened' = [opened EXCEPT ![fd[t]].offset = UpTo(off + n)]
  BY <1>1, Zenon
<1>5. /\ OpenedType(opened') /\ DOMAIN opened' = DOMAIN opened
      /\ \A m \in DOMAIN opened : opened'[m].file = opened[m].file
  <2>1. OpenedType(opened)
    BY DEF FdInv, CacheTypes
  <2>2. /\ \A m \in DOMAIN opened \ {fd[t]} : opened'[m] = opened[m]
        /\ opened'[fd[t]].file = opened[fd[t]].file
        /\ OpenedType(opened') /\ DOMAIN opened' = DOMAIN opened
    BY <1>2, <1>3, <1>4, <2>1, MovedStaysOpen
  <2> QED
    BY <2>2
<1>6. content' \in [Files -> Seq(Blks)]
  <2>1. new \in Seq(Blks)
    <3>1. n \in Nat /\ n <= Len(Blocks(v)) /\ Blocks(v) \in Seq(Blks)
      BY <1>1, LongestIsNat
    <3> QED
      BY <3>1, SubSeqProperties
  <2>2. content[f] \in Seq(Blks) /\ content \in [Files -> Seq(Blks)]
    BY <1>2 DEF FdInv, FileTypes
  <2>3. Written(content[f], off, new) \in Seq(Blks)
    <3> HIDE DEF f, off, new
    <3> QED
      BY <1>2, <2>1, <2>2, WrittenType
  <2> HIDE DEF f, off, new
  <2> QED
    BY <1>1, <2>2, <2>3
<1> HIDE DEF f, off, new
<1>7. FileTypes'
  <2>1. dir' \in [Keys -> Files \cup {NoFile}] /\ synced' \subseteq Files
    BY <1>1 DEF FdInv, FileTypes
  <2>2. last' \in [Keys -> Values \cup {Absent, Unknown}]
    BY <1>1 DEF FdInv, FileTypes
  <2> QED
    BY <1>6, <2>1, <2>2 DEF FileTypes
<1>8. CacheTypes' /\ ThreadTypes'
  BY <1>1, <1>5 DEF FdInv, CacheTypes, ThreadTypes, cvars, StoreLabels
<1>9. CallInv(t)'
  BY <1>1 DEF FdInv, CallInv, ThreadTypes
<1>10. \A u \in Threads : CallInv(u)'
  BY <1>1, <1>9, LocalKeepsCalls DEF cvars
<1>11. \A u \in Threads : /\ pc'[u] = "insert" <=> pc[u] = "insert"
                          /\ pc'[u] \in Working <=> pc[u] \in Working
  BY <1>1 DEF FdInv, ThreadTypes, Working
<1> QED
  BY <1>1, <1>5, <1>7, <1>8, <1>10, <1>11, QuietKeepsFd DEF cvars

LEMMA ReadKeepsFd ==
  ASSUME FdInv, NEW t \in Threads, Read(t)
  PROVE  FdInv'
<1> DEFINE blocks == content[opened[fd[t]].file]
           off    == opened[fd[t]].offset
           rest   == SubSeq(blocks, off + 1, Len(blocks))
           all    == buf[t] \o rest
<1>1. pc[t] = "read" /\ UNCHANGED <<cvars, fvars, key, fd, call, company, last>>
  BY DEF Read
<1>2. fd[t] \in DOMAIN opened /\ opened[fd[t]].file \in Files /\ off \in Nat
  BY <1>1, WorkersFd DEF Working
<1>3. blocks \in Seq(Blks) /\ Len(blocks) \in Nat
  BY <1>2, LenProperties DEF FdInv, FileTypes
<1>4. FileTypes'
  BY <1>1 DEF FdInv, FileTypes, fvars
<1>5. CASE rest = <<>>
  <2>1. pc' = [pc EXCEPT ![t] = "unpin"] /\ UNCHANGED <<buf, opened>>
    BY <1>5 DEF Read, Goto
  <2>2. CacheTypes' /\ ThreadTypes'
    BY <1>1, <2>1 DEF FdInv, CacheTypes, ThreadTypes, cvars, StoreLabels
  <2>3. CallInv(t)'
    BY <1>1, <2>1 DEF FdInv, CallInv, ThreadTypes
  <2>4. \A u \in Threads : CallInv(u)'
    BY <1>1, <2>1, <2>3, LocalKeepsCalls DEF cvars
  <2>5. \A u \in Threads : /\ pc'[u] = "insert" <=> pc[u] = "insert"
                           /\ pc'[u] \in Working <=> pc[u] \in Working
    BY <1>1, <2>1 DEF FdInv, ThreadTypes, Working
  <2> QED
    BY <1>1, <1>4, <2>1, <2>2, <2>4, <2>5, QuietKeepsFd DEF cvars, fvars
<1>6. CASE rest # <<>>
  <2>1. /\ UNCHANGED pc
        /\ buf' = [buf EXCEPT ![t] = SubSeq(all, 1, UpTo(Len(all)))]
        /\ opened' = [opened EXCEPT ![fd[t]].offset = Len(blocks)]
    <3>1. /\ UNCHANGED pc
          /\ buf' = [buf EXCEPT ![t] = SubSeq(@ \o rest, 1, UpTo(Len(@ \o rest)))]
          /\ opened' = [opened EXCEPT ![fd[t]].offset = Len(blocks)]
      BY <1>6 DEF Read
    <3> QED
      BY <3>1, Zenon
  <2>2. /\ OpenedType(opened') /\ DOMAIN opened' = DOMAIN opened
        /\ \A m \in DOMAIN opened : opened'[m].file = opened[m].file
    <3>1. OpenedType(opened)
      BY DEF FdInv, CacheTypes
    <3>2. /\ \A m \in DOMAIN opened \ {fd[t]} : opened'[m] = opened[m]
          /\ opened'[fd[t]].file = opened[fd[t]].file
          /\ OpenedType(opened') /\ DOMAIN opened' = DOMAIN opened
      BY <1>2, <1>3, <2>1, <3>1, MovedStaysOpen
    <3> QED
      BY <3>2
  <2>3. SubSeq(all, 1, UpTo(Len(all))) \in Seq(Blks)
    <3>1. \A s \in Seq(Blks) : SubSeq(s, 1, UpTo(Len(s))) \in Seq(Blks)
      <4> SUFFICES ASSUME NEW s \in Seq(Blks)
                   PROVE  SubSeq(s, 1, UpTo(Len(s))) \in Seq(Blks)
        OBVIOUS
      <4>1. Len(s) \in Nat /\ UpTo(Len(s)) \in Nat /\ UpTo(Len(s)) <= Len(s)
        BY LongestIsNat, LenProperties
      <4> QED
        BY <4>1, SubSeqProperties
    <3>2. rest \in Seq(Blks)
      <4>1. off + 1 \in Nat /\ off + 1 >= 1
        BY <1>2
      <4> HIDE DEF blocks, off
      <4> QED
        BY <1>3, <4>1, SubSeqProperties
    <3>3. buf[t] \in Seq(Blks)
      BY DEF FdInv, ThreadTypes
    <3> HIDE DEF rest
    <3>4. all \in Seq(Blks)
      BY <3>2, <3>3, ConcatProperties
    <3> HIDE DEF all
    <3> QED
      BY <3>1, <3>4
  <2> HIDE DEF blocks, off, rest, all
  <2>4. CacheTypes' /\ ThreadTypes'
    BY <1>1, <2>1, <2>2, <2>3 DEF FdInv, CacheTypes, ThreadTypes, cvars, StoreLabels
  <2>5. CallInv(t)'
    BY <1>1, <2>1 DEF FdInv, CallInv, ThreadTypes
  <2>6. \A u \in Threads : CallInv(u)'
    BY <1>1, <2>1, <2>5, LocalKeepsCalls DEF cvars
  <2> QED
    BY <1>1, <1>4, <2>1, <2>2, <2>4, <2>6, QuietKeepsFd DEF cvars, fvars
<1> QED
  BY <1>5, <1>6

-----------------------------------------------------------------------------
(* get() and put() return.                                                 *)
LEMMA ReturnKeepsFd ==
  ASSUME FdInv, NEW t \in Threads, Return(t)
  PROVE  FdInv'
<1>1. UNCHANGED <<opened, fvars, last, fd_>>
  BY DEF Return, Unpin, cvars
<1>2. PICK label \in {"unpin", "exists", "notfound"} :
        /\ End(t, label)
        /\ IF label = "notfound" THEN UNCHANGED cvars ELSE Unpin(key[t])
  BY DEF Return
<1>3. /\ ThreadTypes' /\ \A u \in Threads : CallInv(u)'
      /\ pc[t] = label
      /\ pc' = [pc EXCEPT ![t] = "idle"] /\ key' = [key EXCEPT ![t] = NoKey]
      /\ fd' = [fd EXCEPT ![t] = NoFd]
  BY <1>1, <1>2, EndedIsIdle
<1>4. FileTypes'
  BY <1>1 DEF FdInv, FileTypes, fvars
<1>5. CASE label = "notfound"
  <2>1. CacheTypes' /\ UNCHANGED cvars
    BY <1>1, <1>2, <1>5 DEF FdInv, CacheTypes, cvars
  <2>2. \A u \in Threads : /\ pc'[u] = "insert" <=> pc[u] = "insert"
                           /\ pc'[u] \in Working <=> pc[u] \in Working
                           /\ pc[u] \in Working \cup {"insert"} => key'[u] = key[u] /\ fd'[u] = fd[u]
    BY <1>3, <1>5 DEF FdInv, ThreadTypes, Working
  <2> QED
    BY <1>1, <1>3, <1>4, <2>1, <2>2, QuietKeepsFd DEF cvars, fvars
<1>6. CASE label # "notfound"
  <2> PICK k \in Keys : k = key[t]
    BY <1>3, <1>6, WorkersFd DEF Working
  <2>1. Unpin(k) /\ pc[t] \in {"unpin", "exists"}
    BY <1>2, <1>3, <1>6
  <2>2. InCache(k) /\ pin_count_' = [pin_count_ EXCEPT ![k] = @ + -1] /\ k \in Keys
    BY <2>1, WorkersFd DEF Unpin, AddPin, Working
  <2>3. /\ Users(k)' = Users(k) \ {t} /\ t \in Users(k)
        /\ \A j \in Keys \ {k} : Users(j)' = Users(j)
    <3>1. t \in Users(k)
      BY <2>1 DEF Users, AtKey
    <3>2. Users(k)' = Users(k) \ {t}
      BY <1>3 DEF Users, AtKey, FdInv, ThreadTypes
    <3>3. \A j \in Keys \ {k} : Users(j)' = Users(j)
      BY <1>3, FileSystemStoreAssumption DEF Users, AtKey, FdInv, ThreadTypes
    <3> QED
      BY <3>1, <3>2, <3>3
  <2>4. Cardinality(Users(k)') = Cardinality(Users(k)) - 1 /\ Cardinality(Users(k)) \in Nat
        /\ Cardinality(Users(k)') \in Nat
    <3>1. IsFiniteSet(Users(k)) /\ IsFiniteSet(Users(k) \ {t})
      BY <2>2, UsersFinite, FS_Difference
    <3>2. Cardinality(Users(k) \ {t}) = Cardinality(Users(k)) - 1
      BY <2>3, <3>1, FS_RemoveElement
    <3> QED
      BY <2>3, <3>1, <3>2, FS_CardinalityType
  <2>5. Cardinality(Users(k)) = pin_count_[k]
    BY <2>2 DEF FdInv, PinInv
  <2>6. pin_count_ \in [Keys -> Nat]
    BY DEF FdInv, CacheTypes
  <2>7. pin_count_'[k] = Cardinality(Users(k)') /\ \A j \in Keys \ {k} : pin_count_'[j] = pin_count_[j]
    BY <2>2, <2>4, <2>5, <2>6
  <2>8. pin_count_' \in [Keys -> Nat]
    BY <2>2, <2>4, <2>6, <2>7
  <2>9. CacheTypes'
    BY <1>1, <2>8 DEF FdInv, CacheTypes
  <2>10. PinInv'
    BY <1>1, <2>3, <2>7 DEF FdInv, PinInv, InCache
  <2>11. EntryInv'
    BY <1>1 DEF FdInv, EntryInv, FdIsFile, Cached, InCache, fvars
  <2>12. \A u \in Threads : /\ pc'[u] = "insert" <=> pc[u] = "insert"
                            /\ pc[u] = "insert" => fd'[u] = fd[u] /\ key'[u] = key[u]
    BY <1>3, <2>1 DEF FdInv, ThreadTypes
  <2>13. InsertInv'
    BY <1>1, <2>12 DEF FdInv, InsertInv, Cached, InCache, fvars
  <2>14. WorkInv'
    BY <1>1, <1>3 DEF FdInv, WorkInv, InCache, ThreadTypes, Working
  <2>15. NoFdLeak'
    BY <1>1, <2>12 DEF FdInv, NoFdLeak, Cached, InCache
  <2> QED
    BY <1>3, <1>4, <2>9, <2>10, <2>11, <2>13, <2>14, <2>15 DEF FdInv
<1> QED
  BY <1>5, <1>6

LEMMA UnlinkKeepsFd ==
  ASSUME FdInv, NEW t \in Threads, Unlink(t)
  PROVE  FdInv'
<1> DEFINE k == key[t]
           f == dir[k]
<1>1. /\ End(t, "unlink") /\ dir' = [dir EXCEPT ![k] = NoFile]
      /\ content' = [g \in Files |-> IF g = f THEN <<>> ELSE content[g]]
      /\ synced' = synced \ {f} /\ last' = [last EXCEPT ![k] = Absent]
      /\ UNCHANGED <<cvars, opened>>
  BY DEF Unlink
<1>2. /\ ThreadTypes' /\ \A u \in Threads : CallInv(u)'
      /\ pc[t] = "unlink"
      /\ pc' = [pc EXCEPT ![t] = "idle"] /\ key' = [key EXCEPT ![t] = NoKey]
      /\ fd' = [fd EXCEPT ![t] = NoFd]
  BY <1>1, EndedIsIdle DEF cvars
<1>3. /\ k \in Keys /\ ~InCache(k) /\ \A u \in Threads : key[u] = k => u = t
  BY <1>2 DEF FdInv, CallInv
<1>4. FileTypes'
  <2>1. \A g \in Files : content[g] \in Seq(Blks)
    BY DEF FdInv, FileTypes
  <2>2. content' \in [Files -> Seq(Blks)]
    <3> HIDE DEF f
    <3>1. <<>> \in Seq(Blks)
      BY EmptySeq
    <3> QED
      BY <1>1, <2>1, <3>1
  <2>3. dir' \in [Keys -> Files \cup {NoFile}] /\ synced' \subseteq Files
    BY <1>1 DEF FdInv, FileTypes
  <2>4. last' \in [Keys -> Values \cup {Absent, Unknown}]
    BY <1>1 DEF FdInv, FileTypes
  <2> QED
    BY <2>2, <2>3, <2>4 DEF FileTypes
<1>5. CacheTypes'
  BY <1>1 DEF FdInv, CacheTypes, cvars
<1>6. \A j \in Keys \ {k} : dir'[j] = dir[j]
  BY <1>1 DEF FdInv, FileTypes
<1>7. \A u \in Threads : /\ pc'[u] = "insert" <=> pc[u] = "insert"
                         /\ pc'[u] \in Working <=> pc[u] \in Working
                         /\ pc[u] \in Working \cup {"insert"} =>
                              key'[u] = key[u] /\ fd'[u] = fd[u] /\ key[u] \in Keys \ {k}
  BY <1>2, <1>3 DEF FdInv, ThreadTypes, Working, CallInv
<1> HIDE DEF k, f
<1>8. EntryInv'
  BY <1>1, <1>3, <1>6 DEF FdInv, EntryInv, FdIsFile, Cached, InCache, cvars
<1>9. InsertInv'
  BY <1>1, <1>6, <1>7 DEF FdInv, InsertInv, Cached, InCache, cvars
<1>10. WorkInv'
  BY <1>1, <1>7 DEF FdInv, WorkInv, InCache, cvars
<1>11. PinInv'
  <2>1. \A j \in Keys : Users(j)' = Users(j)
    BY <1>2, <1>7, FileSystemStoreAssumption DEF Users, AtKey, Working, FdInv, ThreadTypes
  <2> QED
    BY <1>1, <2>1 DEF FdInv, PinInv, InCache, cvars
<1>12. NoFdLeak'
  BY <1>1, <1>7 DEF FdInv, NoFdLeak, Cached, InCache, cvars
<1> QED
  BY <1>2, <1>4, <1>5, <1>8, <1>9, <1>10, <1>11, <1>12 DEF FdInv

LEMMA EndTransactionKeepsFd ==
  ASSUME FdInv, NEW be_durable, EndTransaction(be_durable)
  PROVE  FdInv'
<1>1. UNCHANGED <<cvars, opened, dir, content, pc, key, fd, call, buf, company, last>>
  BY DEF EndTransaction, tvars
<1>2. synced' \subseteq Files
  <2>1. SyncedFiles \subseteq Files
    BY DEF FdInv, EntryInv, FdIsFile, CacheTypes, OpenedType, SyncedFiles
  <2> QED
    BY <2>1 DEF FdInv, FileTypes, EndTransaction
<1>3. CacheTypes' /\ FileTypes' /\ ThreadTypes'
  BY <1>1, <1>2 DEF FdInv, CacheTypes, FileTypes, ThreadTypes, cvars
<1>4. \A u \in Threads : CallInv(u)'
  BY <1>1 DEF FdInv, CallInv, InCache, cvars
<1> QED
  BY <1>1, <1>3, <1>4, QuietKeepsFd DEF cvars

-----------------------------------------------------------------------------
(* A descriptor is put into the cache.                                     *)
LEMMA EvictedUnused ==
  ASSUME FdInv
  PROVE  /\ Evicted \subseteq Cached
         /\ \A j \in Evicted : Users(j) = {}
<1>1. Evicted \subseteq Unpinned
  BY DEF Evicted
<1>2. ASSUME NEW j \in Unpinned
      PROVE  Users(j) = {}
  <2>1. j \in Keys /\ InCache(j) /\ pin_count_[j] = 0
    BY DEF Unpinned, Cached
  <2>2. Cardinality(Users(j)) = 0 /\ IsFiniteSet(Users(j))
    BY <2>1, UsersFinite DEF FdInv, PinInv
  <2> QED
    BY <2>2, FS_EmptySet
<1> QED
  BY <1>1, <1>2 DEF Unpinned

LEMMA SeekingIsCall ==
  ASSUME FdInv, NEW t \in Threads, Goto(t, "insert", "seek"), UNCHANGED <<key, call, buf>>,
         \A j \in Keys \ {key[t]} : fd_[j] = NoFd => fd_'[j] = NoFd
  PROVE  \A u \in Threads : CallInv(u)'
<1>1. pc[t] = "insert" /\ pc' = [pc EXCEPT ![t] = "seek"]
  BY DEF Goto
<1>2. CallInv(t) /\ CallInv(t)'
  BY <1>1 DEF FdInv, CallInv, ThreadTypes
<1> QED
  BY <1>1, <1>2, LocalKeepsCalls

LEMMA PutNewKeepsFd ==
  ASSUME FdInv, NEW t \in Threads, Goto(t, "insert", "seek"), PutNew(key[t], fd[t]),
         UNCHANGED <<fd, fvars, key, call, buf, company, last>>
  PROVE  FdInv'
<1> DEFINE E == {fd_[j] : j \in Evicted}
<1>1. pc[t] = "insert" /\ pc' = [pc EXCEPT ![t] = "seek"]
  BY DEF Goto
<1> PICK k \in Keys : k = key[t]
  BY <1>1 DEF FdInv, CallInv
<1> PICK n : n = fd[t]
  OBVIOUS
<1>2. /\ ~InCache(k) /\ pin_count_' = [pin_count_ EXCEPT ![k] = 1]
      /\ fd_' = [j \in Keys |-> IF j = k THEN n ELSE IF j \in Evicted THEN NoFd ELSE fd_[j]]
      /\ opened' = Closed(E)
  BY DEF PutNew
<1>3. n \in DOMAIN opened /\ n \in Nat /\ n # NoFd /\ opened[n].file = dir[k]
      /\ \A j \in Cached : fd_[j] # n
  BY <1>1 DEF FdInv, InsertInv, CacheTypes, OpenedType, NoFd
<1>4. Evicted \subseteq Cached /\ \A j \in Evicted : Users(j) = {}
  BY EvictedUnused
<1>5. /\ OpenedType(opened') /\ DOMAIN opened' = DOMAIN opened \ E
      /\ \A m \in DOMAIN opened \ E : opened'[m] = opened[m]
  <2>1. OpenedType(opened)
    BY DEF FdInv, CacheTypes
  <2> HIDE DEF E
  <2> QED
    BY <1>2, <2>1, ClosedTakesAway
<1>6. n \notin E /\ (\A j \in Cached \ Evicted : fd_[j] \notin E)
      /\ \A u \in Threads : pc[u] = "insert" => fd[u] \notin E
  BY <1>3, <1>4 DEF FdInv, EntryInv, InsertInv
<1>7. Cached' = (Cached \ Evicted) \cup {k} /\ k \notin Cached
  BY <1>2, <1>3, <1>4 DEF Cached, InCache
<1>8. fd_'[k] = n /\ \A j \in Cached \ Evicted : fd_'[j] = fd_[j]
  BY <1>2, <1>7 DEF Cached
<1>9. CacheTypes'
  BY <1>2, <1>3, <1>5 DEF FdInv, CacheTypes
<1>10. FileTypes' /\ ThreadTypes'
  BY <1>1 DEF FdInv, FileTypes, ThreadTypes, StoreLabels, fvars
<1>11. \A u \in Threads : CallInv(u)'
  BY <1>2, SeekingIsCall
<1> HIDE DEF E
<1>12. EntryInv'
  <2>1. ASSUME NEW j \in Cached'
        PROVE  fd_'[j] \in DOMAIN opened' /\ opened'[fd_'[j]].file = dir'[j]
    <3>1. CASE j = k
      BY <1>3, <1>5, <1>6, <1>8, <3>1 DEF fvars
    <3>2. CASE j # k
      BY <1>5, <1>6, <1>7, <1>8, <2>1, <3>2 DEF fvars, FdInv, EntryInv, FdIsFile
    <3> QED
      BY <3>1, <3>2
  <2>2. \A j, i \in Cached' : fd_'[j] = fd_'[i] => j = i
    BY <1>3, <1>7, <1>8 DEF FdInv, EntryInv
  <2> QED
    BY <2>1, <2>2 DEF EntryInv, FdIsFile
<1>13. InsertInv'
  <2>1. ASSUME NEW u \in Threads, pc'[u] = "insert"
        PROVE  /\ fd'[u] \in DOMAIN opened' /\ opened'[fd'[u]].file = dir'[key'[u]]
               /\ \A j \in Cached' : fd_'[j] # fd'[u]
    <3>1. u # t /\ pc[u] = "insert" /\ fd[u] # n
      BY <1>1, <2>1 DEF FdInv, InsertInv, ThreadTypes
    <3> QED
      BY <1>5, <1>6, <1>7, <1>8, <3>1 DEF FdInv, InsertInv, fvars
  <2>2. \A u, v \in Threads : pc'[u] = "insert" /\ pc'[v] = "insert" /\ fd'[u] = fd'[v] => u = v
    BY <1>1 DEF FdInv, InsertInv, ThreadTypes
  <2> QED
    BY <2>1, <2>2 DEF InsertInv
<1>14. \A u \in Threads : pc[u] \in Working =>
          key[u] \in Keys /\ key[u] \in Cached \ Evicted /\ fd[u] = fd_[key[u]]
  <2> SUFFICES ASSUME NEW u \in Threads, pc[u] \in Working
               PROVE  key[u] \in Cached \ Evicted /\ fd[u] = fd_[key[u]]
    BY DEF Cached
  <2>1. key[u] \in Keys /\ InCache(key[u]) /\ fd[u] = fd_[key[u]]
    BY WorkersFd
  <2>2. u \in Users(key[u])
    BY DEF Users, AtKey, Working
  <2> QED
    BY <1>4, <2>1, <2>2 DEF Cached
<1>15. WorkInv'
  <2>1. ASSUME NEW u \in Threads, pc'[u] \in Working
        PROVE  InCache(key[u])' /\ fd'[u] = fd_'[key'[u]]
    <3>1. CASE u = t
      BY <1>3, <1>8, <3>1 DEF InCache
    <3>2. CASE u # t
      <4>1. pc[u] \in Working
        BY <1>1, <2>1, <3>2
      <4>2. key[u] \in Cached /\ fd[u] = fd_[key[u]] /\ fd_'[key[u]] = fd_[key[u]]
        BY <1>8, <1>14, <4>1
      <4> QED
        BY <4>2 DEF Cached, InCache
    <3> QED
      BY <3>1, <3>2
  <2> QED
    BY <2>1 DEF WorkInv
<1>16. PinInv'
  <2>1. Users(k)' = {t}
    <3>1. \A u \in Threads : pc[u] \in Working => key[u] # k
      BY <1>7, <1>14
    <3> QED
      BY <1>1, <3>1 DEF Users, AtKey, FdInv, ThreadTypes, Working
  <2>2. \A j \in Keys \ {k} : Users(j)' = Users(j)
    BY <1>1 DEF Users, AtKey, FdInv, ThreadTypes
  <2>3. Cardinality({t}) = 1
    BY FS_Singleton
  <2>4. pin_count_'[k] = 1 /\ \A j \in Keys \ {k} : pin_count_'[j] = pin_count_[j]
    BY <1>2 DEF FdInv, CacheTypes
  <2>5. \A j \in Keys \ {k} : InCache(j)' => InCache(j)
    BY <1>2 DEF InCache
  <2> QED
    BY <2>1, <2>2, <2>3, <2>4, <2>5 DEF FdInv, PinInv
<1>17. NoFdLeak'
  <2> DEFINE I  == {fd[u] : u \in {v \in Threads : pc[v] = "insert"}}
             II == {fd'[u] : u \in {v \in Threads : pc'[v] = "insert"}}
  <2>1. I = II \cup {n} /\ n \notin II
    BY <1>1 DEF FdInv, InsertInv, ThreadTypes
  <2>2. {fd_'[j] : j \in Cached'} = ({fd_[j] : j \in Cached} \ E) \cup {n}
    BY <1>4, <1>6, <1>7, <1>8 DEF E
  <2>3. DOMAIN opened = {fd_[j] : j \in Cached} \cup I
    BY DEF FdInv, NoFdLeak
  <2>4. \A m \in I : m \notin E
    BY <1>6
  <2> HIDE DEF I, II
  <2>5. DOMAIN opened' = {fd_'[j] : j \in Cached'} \cup II
    BY <1>5, <2>1, <2>2, <2>3, <2>4
  <2> QED
    BY <2>5 DEF NoFdLeak, II
<1> QED
  BY <1>9, <1>10, <1>11, <1>12, <1>13, <1>15, <1>16, <1>17 DEF FdInv

LEMMA PutAgainKeepsFd ==
  ASSUME FdInv, NEW t \in Threads, Goto(t, "insert", "seek"), PutAgain(key[t]),
         fd' = [fd EXCEPT ![t] = fd_[key[t]]], opened' = Closed({fd[t]}),
         UNCHANGED <<fvars, key, call, buf, company, last>>
  PROVE  FdInv'
<1>1. pc[t] = "insert" /\ pc' = [pc EXCEPT ![t] = "seek"]
  BY DEF Goto
<1> PICK k \in Keys : k = key[t]
  BY <1>1 DEF FdInv, CallInv
<1> PICK n : n = fd[t]
  OBVIOUS
<1>2. /\ InCache(k) /\ k \in Cached /\ pin_count_' = [pin_count_ EXCEPT ![k] = @ + 1]
      /\ UNCHANGED fd_ /\ opened' = Closed({n})
      /\ Cached' = Cached
  BY DEF PutAgain, AddPin, Cached, InCache
<1>3. n \in DOMAIN opened /\ \A j \in Cached : fd_[j] # n
  BY <1>1 DEF FdInv, InsertInv
<1>4. /\ OpenedType(opened') /\ DOMAIN opened' = DOMAIN opened \ {n}
      /\ \A m \in DOMAIN opened \ {n} : opened'[m] = opened[m]
  <2>1. OpenedType(opened)
    BY DEF FdInv, CacheTypes
  <2> DEFINE S == {n}
  <2>2. opened' = Closed(S)
    BY <1>2
  <2> HIDE DEF S
  <2>3. /\ OpenedType(opened') /\ DOMAIN opened' = DOMAIN opened \ S
        /\ \A m \in DOMAIN opened \ S : opened'[m] = opened[m]
    BY <2>1, <2>2, ClosedTakesAway
  <2> QED
    BY <2>3 DEF S
<1>5. fd_[k] \in Nat \cup {NoFd}
  BY DEF FdInv, CacheTypes
<1>6. pin_count_[k] \in Nat /\ pin_count_ \in [Keys -> Nat]
  BY DEF FdInv, CacheTypes
<1>7. pin_count_'[k] = pin_count_[k] + 1 /\ \A j \in Keys \ {k} : pin_count_'[j] = pin_count_[j]
  BY <1>2, <1>6
<1>8. CacheTypes'
  <2>1. pin_count_' \in [Keys -> Nat]
    BY <1>2, <1>6
  <2> QED
    BY <1>2, <1>4, <2>1 DEF FdInv, CacheTypes
<1>9. FileTypes' /\ ThreadTypes'
  BY <1>1, <1>5 DEF FdInv, FileTypes, ThreadTypes, StoreLabels, fvars
<1>10. \A u \in Threads : CallInv(u)'
  BY <1>2, SeekingIsCall
<1>11. EntryInv'
  <2>1. UNCHANGED <<dir, fd_>> /\ EntryInv
    BY <1>2 DEF FdInv, fvars
  <2>2. \A j \in Cached : fd_[j] \in DOMAIN opened \ {n} /\ opened[fd_[j]].file = dir[j]
    BY <1>3, <2>1 DEF EntryInv, FdIsFile
  <2>3. \A j \in Cached : fd_[j] \in DOMAIN opened' /\ opened'[fd_[j]] = opened[fd_[j]]
    BY <1>4, <2>2
  <2>4. FdIsFile'
    BY <1>2, <2>1, <2>2, <2>3 DEF FdIsFile
  <2>5. \A j, i \in Cached' : fd_'[j] = fd_'[i] => j = i
    BY <1>2, <2>1 DEF EntryInv
  <2> QED
    BY <2>4, <2>5 DEF EntryInv
<1>12. \A u \in Threads : pc'[u] = "insert" =>
          u # t /\ pc[u] = "insert" /\ fd'[u] = fd[u] /\ fd[u] # n
  BY <1>1 DEF FdInv, InsertInv, ThreadTypes
<1>13. InsertInv'
  <2>1. ASSUME NEW u \in Threads, pc'[u] = "insert"
        PROVE  /\ fd'[u] \in DOMAIN opened' /\ opened'[fd'[u]].file = dir'[key'[u]]
               /\ \A j \in Cached' : fd_'[j] # fd'[u]
    <3>1. pc[u] = "insert" /\ fd'[u] = fd[u] /\ fd[u] # n
      BY <1>12, <2>1
    <3>2. /\ fd[u] \in DOMAIN opened /\ opened[fd[u]].file = dir[key[u]]
          /\ \A j \in Cached : fd_[j] # fd[u]
      BY <3>1 DEF FdInv, InsertInv
    <3> QED
      BY <1>2, <1>4, <3>1, <3>2 DEF fvars
  <2>2. \A u, v \in Threads : pc'[u] = "insert" /\ pc'[v] = "insert" /\ fd'[u] = fd'[v] => u = v
    BY <1>12 DEF FdInv, InsertInv
  <2> QED
    BY <2>1, <2>2 DEF InsertInv
<1>14. WorkInv'
  BY <1>1, <1>2 DEF FdInv, WorkInv, InCache, ThreadTypes, Working
<1>15. PinInv'
  <2>1. Users(k)' = Users(k) \cup {t} /\ t \notin Users(k)
    BY <1>1 DEF Users, AtKey, FdInv, ThreadTypes
  <2>2. \A j \in Keys \ {k} : Users(j)' = Users(j)
    BY <1>1 DEF Users, AtKey, FdInv, ThreadTypes
  <2>3. Cardinality(Users(k)') = Cardinality(Users(k)) + 1
    BY <2>1, UsersFinite, FS_AddElement
  <2> QED
    BY <1>2, <1>7, <2>2, <2>3 DEF FdInv, PinInv, InCache
<1>16. NoFdLeak'
  <2> DEFINE I  == {fd[u] : u \in {v \in Threads : pc[v] = "insert"}}
             II == {fd'[u] : u \in {v \in Threads : pc'[v] = "insert"}}
  <2>1. I = II \cup {n} /\ n \notin II
    BY <1>1 DEF FdInv, InsertInv, ThreadTypes
  <2>2. {fd_'[j] : j \in Cached'} = {fd_[j] : j \in Cached} /\ n \notin {fd_[j] : j \in Cached}
    BY <1>2, <1>3
  <2>3. DOMAIN opened = {fd_[j] : j \in Cached} \cup I
    BY DEF FdInv, NoFdLeak
  <2> HIDE DEF I, II
  <2>5. DOMAIN opened' = {fd_'[j] : j \in Cached'} \cup II
    BY <1>4, <2>1, <2>2, <2>3
  <2> QED
    BY <2>5 DEF NoFdLeak, II
<1> QED
  BY <1>8, <1>9, <1>10, <1>11, <1>13, <1>14, <1>15, <1>16 DEF FdInv

LEMMA InsertKeepsFd ==
  ASSUME FdInv, NEW t \in Threads, Insert(t)
  PROVE  FdInv'
BY PutNewKeepsFd, PutAgainKeepsFd DEF Insert

-----------------------------------------------------------------------------
(* del() closes, and the process ends.                                     *)
LEMMA DelCloseKeepsFd ==
  ASSUME FdInv, NEW t \in Threads, NEW k \in Keys, DelClose(t, k)
  PROVE  FdInv'
<1>1. Begin(t, k, Del, "unlink", NoFd) /\ Close(k)
  BY DEF DelClose
<1>2. fd_'[k] = NoFd /\ \A j \in Keys \ {k} : fd_'[j] = fd_[j]
  BY <1>1 DEF Close, cvars, InCache, FdInv, CacheTypes
<1>3. ThreadTypes' /\ \A u \in Threads : CallInv(u)'
  <2>1. Del \in Puts \cup {Get, Del} /\ Del.op = "del"
    BY CallKinds
  <2> QED
    BY <1>1, <1>2, <2>1, BegunIsCall
<1>4. /\ pc[t] = "idle" /\ pc' = [pc EXCEPT ![t] = "unlink"] /\ key' = [key EXCEPT ![t] = k]
      /\ fd' = [fd EXCEPT ![t] = NoFd] /\ UNCHANGED <<fvars, last>>
      /\ \A u \in Threads : key[u] # k
  BY <1>1 DEF Begin, MayBegin, AtKey, Del
<1>5. FileTypes'
  BY <1>4 DEF FdInv, FileTypes, fvars
<1>6. \A u \in Threads : /\ pc'[u] = "insert" <=> pc[u] = "insert"
                         /\ pc'[u] \in Working <=> pc[u] \in Working
                         /\ pc[u] \in Working \cup {"insert"} => key'[u] = key[u] /\ fd'[u] = fd[u]
  BY <1>4 DEF FdInv, ThreadTypes, Working
<1>7. CASE ~InCache(k)
  <2>1. UNCHANGED <<cvars, opened>>
    BY <1>1, <1>7 DEF Close
  <2>2. CacheTypes'
    BY <2>1 DEF FdInv, CacheTypes, cvars
  <2> QED
    BY <1>3, <1>4, <1>5, <1>6, <2>1, <2>2, QuietKeepsFd DEF cvars, fvars
<1>8. CASE InCache(k)
  <2> PICK n : n = fd_[k]
    OBVIOUS
  <2>1. /\ fd_' = [fd_ EXCEPT ![k] = NoFd] /\ opened' = Closed({n})
        /\ UNCHANGED pin_count_
    BY <1>1, <1>8 DEF Close
  <2>2. /\ OpenedType(opened') /\ DOMAIN opened' = DOMAIN opened \ {n}
        /\ \A m \in DOMAIN opened \ {n} : opened'[m] = opened[m]
    <3>1. OpenedType(opened)
      BY DEF FdInv, CacheTypes
    <3> DEFINE S == {n}
    <3>2. opened' = Closed(S)
      BY <2>1
    <3> HIDE DEF S
    <3>3. /\ OpenedType(opened') /\ DOMAIN opened' = DOMAIN opened \ S
          /\ \A m \in DOMAIN opened \ S : opened'[m] = opened[m]
      BY <3>1, <3>2, ClosedTakesAway
    <3> QED
      BY <3>3 DEF S
  <2>3. CacheTypes'
    BY <2>1, <2>2 DEF FdInv, CacheTypes
  <2>4. Cached' = Cached \ {k} /\ k \in Cached
    BY <1>2, <1>8 DEF Cached, InCache
  <2>5. \A j \in Cached \ {k} : fd_'[j] = fd_[j] /\ fd_[j] # n
    BY <1>2, <2>4 DEF FdInv, EntryInv, Cached
  <2>6. EntryInv'
    BY <1>4, <2>2, <2>4, <2>5 DEF FdInv, EntryInv, FdIsFile, fvars
  <2>7. \A u \in Threads : pc[u] = "insert" => fd[u] # n
    BY <2>4 DEF FdInv, InsertInv
  <2>8. InsertInv'
    <3>1. ASSUME NEW u \in Threads, pc'[u] = "insert"
          PROVE  /\ fd'[u] \in DOMAIN opened' /\ opened'[fd'[u]].file = dir'[key'[u]]
                 /\ \A j \in Cached' : fd_'[j] # fd'[u]
      <4>1. pc[u] = "insert" /\ fd'[u] = fd[u] /\ key'[u] = key[u]
        BY <1>6, <3>1
      <4>2. /\ fd[u] \in DOMAIN opened /\ opened[fd[u]].file = dir[key[u]]
            /\ \A j \in Cached : fd_[j] # fd[u]
        BY <4>1 DEF FdInv, InsertInv
      <4> QED
        BY <1>4, <2>2, <2>4, <2>5, <2>7, <4>1, <4>2 DEF fvars
    <3>2. \A u, v \in Threads : pc'[u] = "insert" /\ pc'[v] = "insert" /\ fd'[u] = fd'[v] => u = v
      BY <1>6 DEF FdInv, InsertInv
    <3> QED
      BY <3>1, <3>2 DEF InsertInv
  <2>9. WorkInv'
    BY <1>2, <1>4, <1>6 DEF FdInv, WorkInv, InCache, CallInv, Working
  <2>10. PinInv'
    <3>1. \A j \in Keys : Users(j)' = Users(j)
      BY <1>4, FileSystemStoreAssumption DEF Users, AtKey, FdInv, ThreadTypes
    <3> QED
      BY <1>2, <2>1, <3>1 DEF FdInv, PinInv, InCache
  <2>11. NoFdLeak'
    <3> DEFINE I  == {fd[u] : u \in {v \in Threads : pc[v] = "insert"}}
               II == {fd'[u] : u \in {v \in Threads : pc'[v] = "insert"}}
    <3>1. II = I /\ n \notin I
      BY <1>6, <2>7
    <3>2. {fd_'[j] : j \in Cached'} = {fd_[j] : j \in Cached} \ {n}
      BY <2>4, <2>5
    <3>3. DOMAIN opened = {fd_[j] : j \in Cached} \cup I
      BY DEF FdInv, NoFdLeak
    <3> HIDE DEF I, II
    <3>4. DOMAIN opened' = {fd_'[j] : j \in Cached'} \cup II
      BY <2>2, <3>1, <3>2, <3>3
    <3> QED
      BY <3>4 DEF NoFdLeak, II
  <2> QED
    BY <1>3, <1>5, <2>3, <2>6, <2>8, <2>9, <2>10, <2>11 DEF FdInv
<1> QED
  BY <1>7, <1>8

(* No thread has a call, and nothing is open.                              *)
LEMMA NothingBegunFd ==
  ASSUME FileTypes,
         open_fds_ = <<>>, opened = <<>>,
         fd_ = [k \in Keys |-> NoFd], pin_count_ = [k \in Keys |-> 0],
         pc = [t \in Threads |-> "idle"], key = [t \in Threads |-> NoKey],
         fd = [t \in Threads |-> NoFd], call = [t \in Threads |-> NoCall],
         buf = [t \in Threads |-> <<>>], company = [t \in Threads |-> "none"]
  PROVE  FdInv
<1>1. NoCall \in Calls /\ NoCall.op = "none" /\ <<>> \in Seq(Blks)
  BY CallKinds, EmptySeq DEF Calls
<1>2. DOMAIN opened = {} /\ IsFiniteSet({})
  BY FS_EmptySet
<1>3. OpenedType(opened)
  BY <1>2 DEF OpenedType
<1>4. CacheTypes /\ ThreadTypes
  BY <1>1, <1>3 DEF CacheTypes, ThreadTypes, StoreLabels
<1>5. \A t \in Threads : CallInv(t)
  BY <1>1 DEF CallInv
<1>6. Cached = {} /\ \A k \in Keys : ~InCache(k)
  BY DEF Cached, InCache
<1>7. EntryInv /\ InsertInv /\ WorkInv /\ PinInv
  BY <1>6 DEF EntryInv, FdIsFile, InsertInv, WorkInv, PinInv, Working
<1>8. NoFdLeak
  BY <1>2, <1>6 DEF NoFdLeak
<1> QED
  BY <1>4, <1>5, <1>7, <1>8 DEF FdInv

LEMMA InitFd ==
  ASSUME Init
  PROVE  FdInv
<1>1. FileTypes
  <2>1. <<>> \in Seq(Blks)
    BY EmptySeq
  <2> QED
    BY <2>1 DEF Init, FileTypes
<1> QED
  BY <1>1, NothingBegunFd DEF Init, CacheInit

LEMMA CrashKeepsFd ==
  ASSUME FdInv, NEW lost, Crash(lost)
  PROVE  FdInv'
<1>1. /\ content' = [f \in Files |-> IF f \in lost THEN <<>> ELSE content[f]]
      /\ last' = [k \in Keys |-> IF dir[k] \in synced \cup {NoFile} THEN last[k] ELSE Unknown]
      /\ UNCHANGED <<dir, synced>>
  BY DEF Crash
<1>2. FileTypes'
  <2>1. <<>> \in Seq(Blks) /\ \A f \in Files : content[f] \in Seq(Blks)
    BY EmptySeq DEF FdInv, FileTypes
  <2>2. content' \in [Files -> Seq(Blks)]
    BY <1>1, <2>1
  <2>3. last' \in [Keys -> Values \cup {Absent, Unknown}]
    BY <1>1 DEF FdInv, FileTypes
  <2> QED
    BY <1>1, <2>2, <2>3 DEF FdInv, FileTypes
<1>3. /\ open_fds_' = <<>> /\ opened' = <<>>
      /\ fd_' = [k \in Keys |-> NoFd] /\ pin_count_' = [k \in Keys |-> 0]
      /\ pc' = [t \in Threads |-> "idle"] /\ key' = [t \in Threads |-> NoKey]
      /\ fd' = [t \in Threads |-> NoFd] /\ call' = [t \in Threads |-> NoCall]
      /\ buf' = [t \in Threads |-> <<>>] /\ company' = [t \in Threads |-> "none"]
  BY DEF Crash
<1>4. NoCall \in Calls /\ NoCall.op = "none" /\ <<>> \in Seq(Blks)
  BY CallKinds, EmptySeq DEF Calls
<1>5. DOMAIN opened' = {} /\ IsFiniteSet({})
  BY <1>3, FS_EmptySet
<1>6. OpenedType(opened')
  BY <1>3, <1>5 DEF OpenedType
<1>7. CacheTypes' /\ ThreadTypes'
  BY <1>3, <1>4, <1>6 DEF CacheTypes, ThreadTypes, StoreLabels
<1>8. \A t \in Threads : CallInv(t)'
  BY <1>3, <1>4 DEF CallInv
<1>9. Cached' = {} /\ \A k \in Keys : ~InCache(k)'
  BY <1>3 DEF Cached, InCache
<1>10. EntryInv' /\ InsertInv' /\ WorkInv' /\ PinInv'
  BY <1>3, <1>9 DEF EntryInv, FdIsFile, InsertInv, WorkInv, PinInv, Working
<1>11. NoFdLeak'
  BY <1>3, <1>5, <1>9 DEF NoFdLeak
<1> QED
  BY <1>2, <1>7, <1>8, <1>10, <1>11 DEF FdInv

-----------------------------------------------------------------------------
LEMMA StutterKeepsFd ==
  ASSUME FdInv, UNCHANGED vars
  PROVE  FdInv'
<1>1. CacheTypes' /\ FileTypes' /\ ThreadTypes'
  BY DEF FdInv, CacheTypes, FileTypes, ThreadTypes, vars, cvars, fvars, tvars
<1>2. \A t \in Threads : CallInv(t)'
  BY DEF FdInv, CallInv, InCache, vars, cvars, tvars
<1> QED
  BY <1>1, <1>2, QuietKeepsFd DEF vars, cvars, fvars, tvars

LEMMA NextKeepsFd ==
  ASSUME FdInv, [Next]_vars
  PROVE  FdInv'
<1>1. CASE UNCHANGED vars
  BY <1>1, StutterKeepsFd
<1>2. ASSUME NEW be_durable \in BeDurable, EndTransaction(be_durable)
      PROVE  FdInv'
  BY <1>2, EndTransactionKeepsFd
<1>3. ASSUME NEW lost \in SUBSET (Files \ synced), Crash(lost)
      PROVE  FdInv'
  BY <1>3, CrashKeepsFd
<1>4. ASSUME NEW t \in Threads, NEW k \in Keys, NEW c \in Puts \cup {Get},
             CallHit(t, k, c) \/ CallMiss(t, k, c)
      PROVE  FdInv'
  BY <1>4, CallHitKeepsFd, CallMissKeepsFd
<1>5. ASSUME NEW t \in Threads, NEW k \in Keys, DelClose(t, k)
      PROVE  FdInv'
  BY <1>5, DelCloseKeepsFd
<1>6. ASSUME NEW t \in Threads, NEW f \in Files, PutOpenNew(t, f)
      PROVE  FdInv'
  BY <1>6, PutOpenNewKeepsFd
<1>7. ASSUME NEW t \in Threads, GetOpen(t) \/ PutOpenOld(t) \/ PutRefused(t)
      PROVE  FdInv'
  BY <1>7, GetOpenKeepsFd, PutOpenOldKeepsFd, PutRefusedKeepsFd
<1>8. ASSUME NEW t \in Threads, Insert(t) \/ Seek(t) \/ Read(t)
      PROVE  FdInv'
  BY <1>8, InsertKeepsFd, SeekKeepsFd, ReadKeepsFd
<1>9. ASSUME NEW t \in Threads, NEW v \in Values, NEW n \in 0..Longest, Write(t, v, n)
      PROVE  FdInv'
  BY <1>9, WriteKeepsFd
<1>10. ASSUME NEW t \in Threads, Return(t) \/ Unlink(t)
       PROVE  FdInv'
  BY <1>10, ReturnKeepsFd, UnlinkKeepsFd
<1> QED
  BY <1>1, <1>2, <1>3, <1>4, <1>5, <1>6, <1>7, <1>8, <1>9, <1>10 DEF Next

LEMMA AlwaysFdInv == Spec => []FdInv
<1>1. Init => FdInv
  BY InitFd
<1>2. FdInv /\ [Next]_vars => FdInv'
  BY NextKeepsFd
<1> QED
  BY <1>1, <1>2, PTL DEF Spec

LEMMA FdInvIsType ==
  ASSUME FdInv
  PROVE  TypeOK
<1>1. /\ DOMAIN opened \subseteq Nat
      /\ \A n \in DOMAIN opened : opened[n].file \in Files /\ opened[n].offset \in Nat
  BY DEF FdInv, CacheTypes, OpenedType
<1>2. \A f \in Files : content[f] \in Seq(Values \cup {Hole})
  BY DEF FdInv, FileTypes, Blks
<1> QED
  BY <1>1, <1>2 DEF TypeOK, FdInv, CacheTypes, FileTypes, ThreadTypes, Calls

LEMMA FdInvIsPins ==
  ASSUME FdInv
  PROVE  PinsAreUsers
<1> SUFFICES ASSUME NEW k \in Keys
             PROVE  /\ Cardinality(Users(k)) = IF InCache(k) THEN pin_count_[k] ELSE 0
                    /\ \A t \in Users(k) : fd[t] = fd_[k]
  BY DEF PinsAreUsers
<1>1. \A t \in Users(k) : InCache(k) /\ fd[t] = fd_[k]
  BY DEF FdInv, WorkInv, Users, AtKey, Working
<1>2. CASE InCache(k)
  BY <1>1, <1>2 DEF FdInv, PinInv
<1>3. CASE ~InCache(k)
  <2>1. Users(k) = {}
    BY <1>1, <1>3
  <2> QED
    BY <1>3, <2>1, FS_EmptySet
<1> QED
  BY <1>2, <1>3

-----------------------------------------------------------------------------
(* What get() finds.  A step of a thread at a key is of no concern to a    *)
(* thread that is alone at its key.                                        *)
LEMMA WrittenReads ==
  ASSUME NEW old \in Seq(Blks), NEW v \in Values
  PROVE  Reads(Written(old, 0, Blocks(v)), v)
<1> DEFINE new == Blocks(v)
           w   == Written(old, 0, new)
           s   == Size[v]
<1>1. s \in 1..Longest /\ Len(new) = s /\ (\A i \in 1..s : new[i] = v) /\ Longest \in Nat
  BY LongestIsNat
<1>2. UpTo(0 + Len(new)) = s
  BY <1>1 DEF UpTo
<1> DEFINE len == IF s > Len(old) THEN s ELSE Len(old)
<1>3. w = [i \in 1..len |-> IF i \in (0 + 1)..s THEN new[i - 0]
                            ELSE IF i <= Len(old) THEN old[i] ELSE Hole]
  BY <1>2 DEF Written
<1>4. len \in Nat /\ len >= s
  BY <1>1, LenProperties
<1> HIDE DEF new, w, s, len
<1>5. Len(w) = len
  <2>1. DOMAIN w = 1..len
    BY <1>3
  <2>2. w \in Seq(Blks)
    <3>1. new \in Seq(Blks)
      BY LongestIsNat DEF new
    <3> QED
      BY <3>1, WrittenType DEF w
  <2> QED
    BY <1>4, <2>1, <2>2, LenProperties
<1>6. \A i \in 1..s : w[i] = v
  BY <1>1, <1>3, <1>4
<1> QED
  BY <1>4, <1>5, <1>6 DEF Reads, w, s, new

LEMMA StepKeepsGet ==
  ASSUME FdInv, GetInv, NEW t \in Threads, NEW k \in Keys, key[t] = k,
         \A u \in Threads \ {t} :
           /\ pc'[u] = pc[u] /\ key'[u] = key[u] /\ fd'[u] = fd[u]
           /\ call'[u] = call[u] /\ buf'[u] = buf[u] /\ company'[u] = company[u]
           /\ pc[u] \in Working /\ key[u] # k => opened'[fd[u]] = opened[fd[u]],
         \/ pc[t] # "idle" /\ key'[t] = k /\ company'[t] = company[t]
         \/ pc'[t] = "idle" /\ key'[t] = NoKey,
         \A j \in Keys \ {k} :
           /\ last'[j] = last[j] /\ dir'[j] = dir[j]
           /\ dir[j] # NoFile => content'[dir[j]] = content[dir[j]],
         DirInv', LastInv(k)', company'[t] = "none" => AloneGot(t)'
  PROVE  GetInv'
<1>1. pc[t] # "idle"
  BY FileSystemStoreAssumption DEF FdInv, CallInv
<1>2. \A u \in Threads \ {t} : pc[u] # "idle" /\ company[u] = "none" => key[u] # k /\ key[u] \in Keys
  BY DEF GetInv, AloneInv, FdInv, CallInv
<1>3. AloneInv'
  BY <1>1, FileSystemStoreAssumption DEF GetInv, AloneInv, FdInv, CallInv
<1>4. ASSUME NEW j \in Keys \ {k}
      PROVE  LastInv(j)'
  BY <1>4 DEF GetInv, LastInv
<1>5. ASSUME NEW u \in Threads \ {t}, company'[u] = "none"
      PROVE  AloneGot(u)'
  <2>1. company[u] = "none" /\ AloneGot(u)
    BY <1>5 DEF GetInv
  <2>2. CASE pc[u] = "idle"
    BY <2>2 DEF AloneGot
  <2>3. CASE pc[u] # "idle"
    <3>1. key[u] \in Keys \ {k}
      BY <1>2, <2>1, <2>3
    <3>2. pc[u] \in Working => opened'[fd[u]] = opened[fd[u]]
      BY <3>1
    <3>3. pc[u] = "read" => dir[key[u]] # NoFile
      <4> SUFFICES ASSUME pc[u] = "read"
                   PROVE  dir[key[u]] # NoFile
        OBVIOUS
      <4>1. opened[fd[u]].file \in Files /\ opened[fd[u]].file = dir[key[u]]
        BY WorkersFd DEF Working
      <4> QED
        BY <4>1, FileSystemStoreAssumption
    <3>4. pc[u] = "write" => opened'[fd[u]] = opened[fd[u]]
      BY <3>2 DEF Working
    <3>5. pc[u] = "read" => opened'[fd[u]] = opened[fd[u]] /\ content'[dir[key[u]]] = content[dir[key[u]]]
      BY <3>1, <3>2, <3>3 DEF Working
    <3> QED
      BY <2>1, <3>1, <3>4, <3>5 DEF AloneGot
  <2> QED
    BY <2>2, <2>3
<1> QED
  BY <1>3, <1>4, <1>5 DEF GetInv

LEMMA OtherWorkersFd ==
  ASSUME FdInv, NEW t \in Threads, NEW u \in Threads,
         pc[t] \in Working, pc[u] \in Working, key[u] # key[t]
  PROVE  fd[u] # fd[t]
BY WorkersFd DEF FdInv, EntryInv, Cached

LEMMA BeginKeepsGet ==
  ASSUME FdInv, GetInv, NEW t \in Threads, NEW k \in Keys,
         NEW c \in Puts \cup {Get, Del}, NEW label \in {"open", "seek", "exists", "unlink"},
         NEW n, Begin(t, k, c, label, n),
         \A u \in Threads : pc[u] \in Working /\ key[u] # k => opened'[fd[u]] = opened[fd[u]]
  PROVE  GetInv'
<1>1. /\ pc[t] = "idle" /\ pc' = [pc EXCEPT ![t] = label] /\ key' = [key EXCEPT ![t] = k]
      /\ call' = [call EXCEPT ![t] = c] /\ fd' = [fd EXCEPT ![t] = n]
      /\ UNCHANGED <<dir, content, buf, last>>
  BY DEF Begin, MayBegin, fvars
<1>2. \A u \in Threads : company'[u] =
        CASE u = t -> (CASE AtKey(k) = {} -> "none"
                         [] Putters(k) # {} -> "puts" [] OTHER -> "gets")
          [] u \in AtKey(k) -> (IF c.op = "put" \/ company[u] = "puts" THEN "puts" ELSE "gets")
          [] OTHER -> company[u]
  BY DEF Begin
<1>3. company'[t] = "none" => AtKey(k) = {}
  BY <1>2
<1>4. \A u \in Threads \ {t} : company'[u] = "none" => key[u] # k /\ company[u] = "none"
  BY <1>2 DEF AtKey
<1>5. DirInv' /\ \A j \in Keys : LastInv(j)'
  BY <1>1 DEF GetInv, DirInv, LastInv
<1>6. AloneInv'
  <2> SUFFICES ASSUME NEW u \in Threads, pc'[u] # "idle", company'[u] = "none",
                      NEW v \in Threads, key'[v] = key'[u]
               PROVE  v = u
    BY DEF AloneInv
  <2>1. CASE u = t
    BY <1>1, <1>3, <2>1 DEF AtKey, FdInv, ThreadTypes
  <2>2. CASE u # t
    BY <1>1, <1>4, <2>2 DEF GetInv, AloneInv, FdInv, ThreadTypes
  <2> QED
    BY <2>1, <2>2
<1>7. AloneGot(t)'
  BY <1>1 DEF AloneGot, FdInv, ThreadTypes
<1>8. ASSUME NEW u \in Threads \ {t}, company'[u] = "none"
      PROVE  AloneGot(u)'
  <2>1. AloneGot(u) /\ key[u] # k
    BY <1>4, <1>8 DEF GetInv
  <2>2. pc[u] \in {"write", "read"} => opened'[fd[u]] = opened[fd[u]]
    BY <2>1 DEF Working
  <2> QED
    BY <1>1, <2>1, <2>2 DEF AloneGot
<1> QED
  BY <1>5, <1>6, <1>7, <1>8 DEF GetInv

LEMMA CallKeepsGet ==
  ASSUME FdInv, GetInv, NEW t \in Threads, NEW k \in Keys, NEW c \in Puts \cup {Get},
         CallHit(t, k, c) \/ CallMiss(t, k, c)
  PROVE  GetInv'
<1>1. UNCHANGED opened /\ WithoutFlags(c) \in Puts \cup {Get, Del}
  BY CallKinds DEF CallHit, CallMiss
<1>2. CASE CallHit(t, k, c)
  <2> DEFINE label == IF c.op = "put" /\ c.excl THEN "exists" ELSE "seek"
  <2>1. Begin(t, k, WithoutFlags(c), label, fd_[k]) /\ label \in {"open", "seek", "exists", "unlink"}
    BY <1>2 DEF CallHit
  <2> HIDE DEF label
  <2> QED
    BY <1>1, <2>1, BeginKeepsGet
<1>3. CASE CallMiss(t, k, c)
  <2>1. Begin(t, k, c, "open", NoFd)
    BY <1>3 DEF CallMiss
  <2> QED
    BY <1>1, <2>1, BeginKeepsGet
<1> QED
  BY <1>2, <1>3

LEMMA DelCloseKeepsGet ==
  ASSUME FdInv, GetInv, NEW t \in Threads, NEW k \in Keys, DelClose(t, k)
  PROVE  GetInv'
<1>1. Begin(t, k, Del, "unlink", NoFd) /\ Close(k)
  BY DEF DelClose
<1>2. ASSUME NEW u \in Threads, pc[u] \in Working, key[u] # k
      PROVE  opened'[fd[u]] = opened[fd[u]]
  <2>1. fd[u] \in DOMAIN opened /\ (InCache(k) => fd[u] # fd_[k])
    BY <1>2, WorkersFd DEF FdInv, EntryInv, Cached
  <2> QED
    BY <1>1, <2>1 DEF Close, Closed
<1> QED
  BY <1>1, <1>2, BeginKeepsGet, CallKinds

(* Steps that leave the files and the descriptors of the others alone.     *)
LEMMA FilesApartGet ==
  ASSUME FdInv, GetInv, NEW t \in Threads, NEW k \in Keys, key[t] = k,
         \A u \in Threads \ {t} :
           /\ pc'[u] = pc[u] /\ key'[u] = key[u] /\ fd'[u] = fd[u]
           /\ call'[u] = call[u] /\ buf'[u] = buf[u] /\ company'[u] = company[u]
           /\ pc[u] \in Working /\ key[u] # k => opened'[fd[u]] = opened[fd[u]],
         \/ pc[t] # "idle" /\ key'[t] = k /\ company'[t] = company[t]
         \/ pc'[t] = "idle" /\ key'[t] = NoKey,
         UNCHANGED <<dir, content, last>>, company'[t] = "none" => AloneGot(t)'
  PROVE  GetInv'
<1>1. DirInv' /\ LastInv(k)'
  BY DEF GetInv, DirInv, LastInv
<1> QED
  BY <1>1, StepKeepsGet

LEMMA OpenedApart ==
  ASSUME FdInv, NEW t \in Threads, NEW f \in Files, OpenFile(t, f)
  PROVE  /\ pc[t] = "open" /\ key[t] \in Keys /\ pc' = [pc EXCEPT ![t] = "insert"]
         /\ \A u \in Threads \ {t} :
              /\ pc'[u] = pc[u] /\ key'[u] = key[u] /\ fd'[u] = fd[u]
              /\ call'[u] = call[u] /\ buf'[u] = buf[u] /\ company'[u] = company[u]
              /\ pc[u] \in Working => opened'[fd[u]] = opened[fd[u]]
         /\ key'[t] = key[t] /\ company'[t] = company[t] /\ AloneGot(t)'
         /\ last' = [last EXCEPT ![key[t]] = IF call[t].op = "put" THEN Unknown ELSE @]
<1>1. /\ pc[t] = "open" /\ pc' = [pc EXCEPT ![t] = "insert"]
      /\ fd' = [fd EXCEPT ![t] = NewFd] /\ opened' = Opened(NewFd, f)
      /\ call' = [call EXCEPT ![t] = WithoutFlags(call[t])]
      /\ UNCHANGED <<key, buf, company>>
      /\ last' = [last EXCEPT ![key[t]] = IF call[t].op = "put" THEN Unknown ELSE @]
  BY DEF OpenFile, Goto
<1>2. key[t] \in Keys
  BY <1>1 DEF FdInv, CallInv
<1>3. NewFd \in Nat /\ NewFd \notin DOMAIN opened /\ OpenedType(opened)
  BY NewFdIsNew DEF FdInv, CacheTypes
<1>4. \A m \in DOMAIN opened : opened'[m] = opened[m]
  BY <1>1, <1>3, OpenedAddsOne
<1>5. \A u \in Threads : pc[u] \in Working => opened'[fd[u]] = opened[fd[u]]
  BY <1>4, WorkersFd
<1>6. AloneGot(t)'
  BY <1>1 DEF AloneGot, FdInv, ThreadTypes
<1> QED
  BY <1>1, <1>2, <1>5, <1>6

LEMMA GetOpenKeepsGet ==
  ASSUME FdInv, GetInv, NEW t \in Threads, GetOpen(t)
  PROVE  GetInv'
<1>1. pc[t] = "open" /\ call[t].op = "get" /\ UNCHANGED fvars
  BY DEF GetOpen, OpenFile, Goto
<1> PICK k \in Keys : k = key[t]
  BY <1>1 DEF FdInv, CallInv
<1>2. CASE dir[k] = NoFile
  <2>1. /\ pc' = [pc EXCEPT ![t] = "notfound"]
        /\ UNCHANGED <<cvars, opened, key, fd, call, buf, company, last>>
    BY <1>2, FileSystemStoreAssumption DEF GetOpen, Goto
  <2>2. AloneGot(t)'
    BY <1>1, <1>2, <2>1 DEF AloneGot, fvars, FdInv, ThreadTypes
  <2> QED
    BY <1>1, <2>1, <2>2, FilesApartGet DEF fvars
<1>3. CASE dir[k] # NoFile
  <2>1. dir[k] \in Files /\ OpenFile(t, dir[k])
    BY <1>3 DEF GetOpen, FdInv, FileTypes
  <2>2. last' = last
    BY <1>1, <2>1, OpenedApart DEF FdInv, FileTypes
  <2> QED
    BY <1>1, <2>1, <2>2, OpenedApart, FilesApartGet DEF fvars
<1> QED
  BY <1>2, <1>3

LEMMA PutOpenNewKeepsGet ==
  ASSUME FdInv, GetInv, NEW t \in Threads, NEW f \in Files, PutOpenNew(t, f)
  PROVE  GetInv'
<1>1. /\ OpenFile(t, f) /\ call[t].op = "put" /\ dir[key[t]] = NoFile
      /\ \A j \in Keys : dir[j] # f
      /\ dir' = [dir EXCEPT ![key[t]] = f] /\ UNCHANGED content
  BY DEF PutOpenNew
<1>2. key[t] \in Keys
  BY <1>1, OpenedApart
<1> PICK k \in Keys : k = key[t]
  BY <1>2
<1>3. /\ last'[k] = Unknown /\ dir'[k] = f
      /\ \A j \in Keys \ {k} : last'[j] = last[j] /\ dir'[j] = dir[j]
  BY <1>1, OpenedApart DEF FdInv, FileTypes
<1>4. DirInv'
  BY <1>1, <1>3 DEF GetInv, DirInv
<1>5. LastInv(k)'
  BY <1>3, FileSystemStoreAssumption DEF LastInv, Unknown, Absent
<1> QED
  BY <1>1, <1>3, <1>4, <1>5, OpenedApart, StepKeepsGet

LEMMA PutOpenOldKeepsGet ==
  ASSUME FdInv, GetInv, NEW t \in Threads, PutOpenOld(t)
  PROVE  GetInv'
<1>1. key[t] \in Keys
  BY DEF PutOpenOld, OpenFile, Goto, FdInv, CallInv
<1> PICK k \in Keys : k = key[t]
  BY <1>1
<1> PICK f : f = dir[k]
  OBVIOUS
<1>2. /\ OpenFile(t, f) /\ call[t].op = "put" /\ f # NoFile
      /\ content' = [content EXCEPT ![f] = <<>>] /\ UNCHANGED dir
  BY DEF PutOpenOld
<1>3. f \in Files
  BY <1>2 DEF FdInv, FileTypes
<1>4. last'[k] = Unknown /\ \A j \in Keys \ {k} : last'[j] = last[j]
  BY <1>2, <1>3, OpenedApart DEF FdInv, FileTypes
<1>5. \A j \in Keys \ {k} : dir[j] # NoFile => content'[dir[j]] = content[dir[j]]
  BY <1>2 DEF GetInv, DirInv, FdInv, FileTypes
<1>6. DirInv'
  BY <1>2 DEF GetInv, DirInv
<1>7. LastInv(k)'
  BY <1>4, FileSystemStoreAssumption DEF LastInv, Unknown, Absent
<1> QED
  BY <1>2, <1>3, <1>4, <1>5, <1>6, <1>7, OpenedApart, StepKeepsGet

LEMMA EndedApart ==
  ASSUME FdInv, NEW t \in Threads, NEW label, label # "idle", End(t, label)
  PROVE  /\ key[t] \in Keys
         /\ \A u \in Threads \ {t} :
              /\ pc'[u] = pc[u] /\ key'[u] = key[u] /\ fd'[u] = fd[u]
              /\ call'[u] = call[u] /\ buf'[u] = buf[u] /\ company'[u] = company[u]
         /\ pc'[t] = "idle" /\ key'[t] = NoKey /\ AloneGot(t)'
<1>1. /\ pc[t] = label /\ pc' = [pc EXCEPT ![t] = "idle"] /\ key' = [key EXCEPT ![t] = NoKey]
      /\ fd' = [fd EXCEPT ![t] = NoFd] /\ call' = [call EXCEPT ![t] = NoCall]
      /\ buf' = [buf EXCEPT ![t] = <<>>] /\ company' = [company EXCEPT ![t] = "none"]
  BY DEF End, Goto
<1>2. key[t] \in Keys
  BY <1>1 DEF FdInv, CallInv
<1>3. pc'[t] = "idle" /\ key'[t] = NoKey
  BY <1>1 DEF FdInv, ThreadTypes
<1>4. AloneGot(t)'
  BY <1>3 DEF AloneGot
<1> QED
  BY <1>1, <1>2, <1>3, <1>4

LEMMA EndKeepsGet ==
  ASSUME FdInv, GetInv, NEW t \in Threads, PutRefused(t) \/ Return(t)
  PROVE  GetInv'
<1>1. /\ \E label \in {"open", "unpin", "exists", "notfound"} : End(t, label)
      /\ UNCHANGED <<opened, fvars, last>>
  BY DEF PutRefused, Return
<1> QED
  BY <1>1, EndedApart, FilesApartGet DEF fvars

LEMMA UnlinkKeepsGet ==
  ASSUME FdInv, GetInv, NEW t \in Threads, Unlink(t)
  PROVE  GetInv'
<1>1. End(t, "unlink")
  BY DEF Unlink
<1> PICK k \in Keys : k = key[t]
  BY <1>1, EndedApart
<1> PICK f : f = dir[k]
  OBVIOUS
<1>2. /\ dir' = [dir EXCEPT ![k] = NoFile]
      /\ content' = [g \in Files |-> IF g = f THEN <<>> ELSE content[g]]
      /\ last' = [last EXCEPT ![k] = Absent]
      /\ UNCHANGED <<cvars, opened>>
  BY DEF Unlink
<1>3. dir'[k] = NoFile /\ last'[k] = Absent
  BY <1>2 DEF FdInv, FileTypes
<1>4. ASSUME NEW j \in Keys \ {k}
      PROVE  /\ last'[j] = last[j] /\ dir'[j] = dir[j]
             /\ dir[j] # NoFile => content'[dir[j]] = content[dir[j]]
  <2>1. last'[j] = last[j] /\ dir'[j] = dir[j] /\ dir[j] \in Files \cup {NoFile}
    BY <1>2 DEF FdInv, FileTypes
  <2>2. dir[j] # NoFile => dir[j] # f
    BY DEF GetInv, DirInv
  <2> QED
    BY <1>2, <2>1, <2>2
<1>5. DirInv'
  BY <1>3, <1>4 DEF GetInv, DirInv
<1>6. LastInv(k)'
  BY <1>3, FileSystemStoreAssumption DEF LastInv, Absent
<1> QED
  BY <1>1, <1>2, <1>4, <1>5, <1>6, EndedApart, StepKeepsGet

LEMMA InsertKeepsGet ==
  ASSUME FdInv, GetInv, NEW t \in Threads, Insert(t)
  PROVE  GetInv'
<1>1. /\ pc[t] = "insert" /\ pc' = [pc EXCEPT ![t] = "seek"]
      /\ UNCHANGED <<fvars, key, call, buf, company, last>>
      /\ \A u \in Threads \ {t} : fd'[u] = fd[u]
  <2>1. fd' = fd \/ \E n : fd' = [fd EXCEPT ![t] = n]
    BY DEF Insert
  <2>2. \A u \in Threads \ {t} : fd'[u] = fd[u]
    BY <2>1 DEF FdInv, ThreadTypes
  <2> QED
    BY <2>2 DEF Insert, Goto
<1> PICK k \in Keys : k = key[t]
  BY <1>1 DEF FdInv, CallInv
<1>2. ASSUME NEW u \in Threads, pc[u] \in Working
      PROVE  opened'[fd[u]] = opened[fd[u]]
  <2>1. /\ key[u] \in Keys /\ key[u] \in Cached /\ fd[u] = fd_[key[u]]
        /\ fd[u] \in DOMAIN opened /\ u \in Users(key[u])
    BY <1>2, WorkersFd DEF Cached, Users, AtKey, Working
  <2>2. key[u] \notin Evicted
    BY <2>1, EvictedUnused
  <2>3. fd[u] \notin {fd_[j] : j \in Evicted}
    BY <2>1, <2>2, EvictedUnused DEF FdInv, EntryInv
  <2>4. fd[u] # fd[t]
    BY <1>1, <2>1 DEF FdInv, InsertInv
  <2>5. \E S : opened' = Closed(S) /\ fd[u] \notin S
    BY <2>3, <2>4 DEF Insert, PutNew
  <2> QED
    BY <2>1, <2>5 DEF Closed
<1>3. AloneGot(t)'
  BY <1>1 DEF AloneGot, FdInv, ThreadTypes
<1> QED
  BY <1>1, <1>2, <1>3, FilesApartGet DEF fvars

LEMMA SeekKeepsGet ==
  ASSUME FdInv, GetInv, NEW t \in Threads, Seek(t)
  PROVE  GetInv'
<1>1. /\ pc[t] = "seek" /\ pc' = [pc EXCEPT ![t] = IF call[t].op = "put" THEN "write" ELSE "read"]
      /\ opened' = [opened EXCEPT ![fd[t]].offset = 0]
      /\ UNCHANGED <<cvars, fvars, key, fd, call, buf, company, last>>
  BY DEF Seek, Goto
<1> PICK k \in Keys : k = key[t]
  BY <1>1 DEF FdInv, CallInv
<1>2. fd[t] \in DOMAIN opened /\ OpenedType(opened)
  BY <1>1, WorkersFd DEF Working, FdInv, CacheTypes
<1>3. opened'[fd[t]].offset = 0 /\ \A m \in DOMAIN opened \ {fd[t]} : opened'[m] = opened[m]
  BY <1>1, <1>2, MovedStaysOpen
<1>4. ASSUME NEW u \in Threads \ {t}, pc[u] \in Working, key[u] # k
      PROVE  opened'[fd[u]] = opened[fd[u]]
  <2>1. fd[u] \in DOMAIN opened /\ fd[u] # fd[t]
    BY <1>1, <1>4, WorkersFd, OtherWorkersFd DEF Working
  <2> QED
    BY <1>3, <2>1
<1>5. AloneGot(t)'
  <2>1. buf'[t] = <<>>
    BY <1>1 DEF FdInv, CallInv
  <2>2. pc'[t] \in {"write", "read"} /\ opened'[fd'[t]].offset = 0
    BY <1>1, <1>3 DEF FdInv, ThreadTypes
  <2> QED
    BY <2>1, <2>2 DEF AloneGot
<1> QED
  BY <1>1, <1>4, <1>5, FilesApartGet DEF fvars

LEMMA WriteKeepsGet ==
  ASSUME FdInv, GetInv, NEW t \in Threads, NEW v \in Values, NEW n \in 0..Longest, Write(t, v, n)
  PROVE  GetInv'
<1>0. pc[t] = "write"
  BY DEF Write, Goto
<1> PICK k \in Keys : k = key[t]
  BY <1>0 DEF FdInv, CallInv
<1> PICK f \in Files : f = opened[fd[t]].file /\ f = dir[k]
  BY <1>0, WorkersFd DEF Working
<1> PICK off \in Nat : off = opened[fd[t]].offset
  BY <1>0, WorkersFd DEF Working
<1> PICK new : new = SubSeq(Blocks(v), 1, n)
  OBVIOUS
<1>1. /\ pc' = [pc EXCEPT ![t] = "unpin"]
      /\ content' = [content EXCEPT ![f] = Written(content[f], off, new)]
      /\ last' = [last EXCEPT ![k] =
           IF n = Size[v] /\ company[t] = "none" THEN v ELSE Unknown]
      /\ UNCHANGED <<cvars, dir, key, fd, call, buf, company>>
  BY DEF Write, Goto
<1>2. opened' = [opened EXCEPT ![fd[t]].offset = UpTo(off + n)]
  BY Zenon DEF Write
<1>3. fd[t] \in DOMAIN opened /\ OpenedType(opened) /\ UpTo(off + n) \in Nat
  <2>1. fd[t] \in DOMAIN opened /\ OpenedType(opened)
    BY <1>0, WorkersFd DEF Working, FdInv, CacheTypes
  <2> QED
    BY <2>1, OffsetsAreNat
<1>4. \A m \in DOMAIN opened \ {fd[t]} : opened'[m] = opened[m]
  BY <1>2, <1>3, MovedStaysOpen
<1>5. ASSUME NEW u \in Threads \ {t}, pc[u] \in Working, key[u] # k
      PROVE  opened'[fd[u]] = opened[fd[u]]
  <2>1. fd[u] \in DOMAIN opened /\ fd[u] # fd[t]
    BY <1>0, <1>5, WorkersFd, OtherWorkersFd DEF Working
  <2> QED
    BY <1>4, <2>1
<1>6. NoFile \notin Files
  BY FileSystemStoreAssumption
<1>7. DirInv'
  BY <1>1 DEF GetInv, DirInv
<1>8. \A j \in Keys \ {k} :
        /\ last'[j] = last[j] /\ dir'[j] = dir[j]
        /\ dir[j] # NoFile => content'[dir[j]] = content[dir[j]]
  BY <1>1, <1>6 DEF GetInv, DirInv, FdInv, FileTypes
<1>9. last'[k] = IF n = Size[v] /\ company[t] = "none" THEN v ELSE Unknown
  BY <1>1 DEF FdInv, FileTypes
<1>10. LastInv(k)'
  <2>1. last'[k] # Absent
    BY <1>9, FileSystemStoreAssumption DEF Absent, Unknown
  <2>2. ASSUME last'[k] \in Values
        PROVE  Reads(content'[f], last'[k])
    <3>1. n = Size[v] /\ company[t] = "none" /\ last'[k] = v
      BY <1>9, <2>2, FileSystemStoreAssumption DEF Unknown
    <3>2. off = 0
      BY <1>0, <3>1 DEF GetInv, AloneGot
    <3>3. new = Blocks(v)
      <4>1. Blocks(v) \in Seq(Blks) /\ Len(Blocks(v)) = n
        BY <3>1, LongestIsNat
      <4> QED
        BY <4>1, SubSeqFull
    <3>4. content'[f] = Written(content[f], 0, Blocks(v)) /\ content[f] \in Seq(Blks)
      BY <1>1, <3>2, <3>3 DEF FdInv, FileTypes
    <3> QED
      BY <3>1, <3>4, WrittenReads
  <2>3. dir'[k] = f
    BY <1>1
  <2> QED
    BY <1>6, <2>1, <2>2, <2>3 DEF LastInv
<1>11. AloneGot(t)'
  <2>1. pc'[t] = "unpin" /\ call'[t].op = "put"
    BY <1>0, <1>1 DEF FdInv, ThreadTypes, CallInv
  <2> QED
    BY <2>1 DEF AloneGot
<1> QED
  BY <1>0, <1>1, <1>5, <1>7, <1>8, <1>10, <1>11, StepKeepsGet

LEMMA ReadKeepsGet ==
  ASSUME FdInv, GetInv, NEW t \in Threads, Read(t)
  PROVE  GetInv'
<1>1. pc[t] = "read" /\ UNCHANGED <<cvars, fvars, key, fd, call, company, last>>
  BY DEF Read
<1> PICK k \in Keys : k = key[t]
  BY <1>1 DEF FdInv, CallInv
<1> PICK f \in Files : f = opened[fd[t]].file /\ f = dir[k]
  BY <1>1, WorkersFd DEF Working
<1> PICK off \in Nat : off = opened[fd[t]].offset
  BY <1>1, WorkersFd DEF Working
<1> PICK blocks \in Seq(Blks) : blocks = content[f]
  BY DEF FdInv, FileTypes
<1> PICK rest : rest = SubSeq(blocks, off + 1, Len(blocks))
  OBVIOUS
<1> PICK old \in Seq(Blks) : old = buf[t]
  BY DEF FdInv, ThreadTypes
<1>2. \/ rest = <<>> /\ pc' = [pc EXCEPT ![t] = "unpin"] /\ UNCHANGED <<buf, opened>>
      \/ /\ rest # <<>> /\ UNCHANGED pc
         /\ buf' = [buf EXCEPT ![t] = SubSeq(old \o rest, 1, UpTo(Len(old \o rest)))]
         /\ opened' = [opened EXCEPT ![fd[t]].offset = Len(blocks)]
  <2>1. \/ rest = <<>> /\ pc' = [pc EXCEPT ![t] = "unpin"] /\ UNCHANGED <<buf, opened>>
        \/ /\ rest # <<>> /\ UNCHANGED pc
           /\ buf' = [buf EXCEPT ![t] = SubSeq(@ \o rest, 1, UpTo(Len(@ \o rest)))]
           /\ opened' = [opened EXCEPT ![fd[t]].offset = Len(blocks)]
    BY DEF Read, Goto
  <2> QED
    BY <2>1, Zenon
<1>3. fd[t] \in DOMAIN opened /\ OpenedType(opened) /\ Len(blocks) \in Nat
  BY <1>1, WorkersFd, LenProperties DEF Working, FdInv, CacheTypes
<1>4. \A m \in DOMAIN opened \ {fd[t]} : opened'[m] = opened[m]
  BY <1>2, <1>3, MovedStaysOpen
<1>5. ASSUME NEW u \in Threads \ {t}, pc[u] \in Working, key[u] # k
      PROVE  opened'[fd[u]] = opened[fd[u]]
  <2>1. fd[u] \in DOMAIN opened /\ fd[u] # fd[t]
    BY <1>1, <1>5, WorkersFd, OtherWorkersFd DEF Working
  <2> QED
    BY <1>4, <2>1
<1>6. \A u \in Threads \ {t} :
        /\ pc'[u] = pc[u] /\ key'[u] = key[u] /\ fd'[u] = fd[u]
        /\ call'[u] = call[u] /\ buf'[u] = buf[u] /\ company'[u] = company[u]
  <2>1. \A u \in Threads \ {t} : pc'[u] = pc[u]
    BY <1>2 DEF FdInv, ThreadTypes
  <2>2. buf' = buf \/ \E b : buf' = [buf EXCEPT ![t] = b]
    BY <1>2
  <2>3. \A u \in Threads \ {t} : buf'[u] = buf[u]
    BY <2>2 DEF FdInv, ThreadTypes
  <2> QED
    BY <1>1, <2>1, <2>3
<1>7. ASSUME company[t] = "none", last[k] \in Values
      PROVE  /\ pc'[t] = "unpin" => Reads(buf'[t], last[k])
             /\ pc'[t] = "read" => /\ opened'[fd[t]].offset = Len(blocks)
                                   /\ Reads(buf'[t], last[k])
  <2> PICK v \in Values : v = last[k]
    BY <1>7
  <2>1. Reads(blocks, v) /\ Size[v] \in 1..Longest /\ Longest \in Nat
    BY LongestIsNat DEF GetInv, LastInv
  <2>2. \/ off = 0 /\ old = <<>>
        \/ off = Len(blocks) /\ Reads(old, v)
    BY <1>1, <1>7 DEF GetInv, AloneGot
  <2>3. Len(blocks) >= Size[v] /\ \A i \in 1..Size[v] : blocks[i] = v
    BY <2>1 DEF Reads
  <2>4. CASE off = 0 /\ old = <<>>
    <3>1. rest = blocks /\ rest # <<>>
      <4>1. rest = SubSeq(blocks, 1, Len(blocks))
        BY <2>4
      <4>2. rest = blocks
        BY <4>1, SubSeqFull
      <4>3. Len(blocks) # 0
        BY <1>3, <2>1, <2>3
      <4>4. blocks # <<>>
        BY <4>3
      <4> QED
        BY <4>2, <4>4
    <3>2. old \o rest = blocks
      BY <2>4, <3>1, ConcatEmptySeq
    <3>3. buf'[t] = SubSeq(blocks, 1, UpTo(Len(blocks))) /\ pc'[t] = "read"
      BY <1>1, <1>2, <3>1, <3>2 DEF FdInv, ThreadTypes
    <3>4. UpTo(Len(blocks)) >= Size[v] /\ UpTo(Len(blocks)) <= Len(blocks) /\ UpTo(Len(blocks)) \in Nat
      BY <1>3, <2>1, <2>3 DEF UpTo
    <3>5. /\ Len(SubSeq(blocks, 1, UpTo(Len(blocks)))) = UpTo(Len(blocks))
          /\ \A i \in 1..UpTo(Len(blocks)) : SubSeq(blocks, 1, UpTo(Len(blocks)))[i] = blocks[i]
      BY <1>3, <3>4, SubSeqProperties
    <3>6. Reads(buf'[t], v)
      <4> DEFINE n == UpTo(Len(blocks))
                 read == SubSeq(blocks, 1, n)
      <4>1. n \in Nat /\ Size[v] <= n /\ Size[v] \in Nat /\ Len(read) = n
            /\ \A i \in 1..n : read[i] = blocks[i]
        <5>1. Size[v] \in Nat
          BY <2>1
        <5>2. n \in Nat /\ Size[v] <= n
          BY <3>4
        <5> QED
          BY <3>5, <5>1, <5>2
      <4>2. buf'[t] = read
        BY <3>3
      <4> HIDE DEF n, read
      <4>3. \A i \in 1..Size[v] : i \in 1..n
        BY <4>1
      <4>4. \A i \in 1..Size[v] : read[i] = v
        BY <2>3, <4>1, <4>3
      <4> QED
        BY <4>1, <4>2, <4>4 DEF Reads
    <3>7. opened'[fd[t]].offset = Len(blocks)
      <4>1. opened' = [opened EXCEPT ![fd[t]].offset = Len(blocks)]
        BY <1>2, <3>1
      <4> QED
        BY <1>3, <4>1, MovedStaysOpen
    <3> QED
      BY <3>3, <3>6, <3>7
  <2>5. CASE off = Len(blocks) /\ Reads(old, v)
    <3>1. rest = <<>>
      <4>1. Len(blocks) + 1 > Len(blocks)
        BY <1>3
      <4> QED
        BY <1>3, <2>5, <4>1, SubSeqEmpty
    <3>2. pc'[t] = "unpin" /\ buf' = buf
      BY <1>2, <3>1 DEF FdInv, ThreadTypes
    <3> QED
      BY <2>5, <3>2
  <2> QED
    BY <2>2, <2>4, <2>5
<1>8. ASSUME company'[t] = "none"
      PROVE  AloneGot(t)'
  <2>1. company[t] = "none" /\ key'[t] = k /\ last'[k] = last[k] /\ dir'[k] = f /\ content'[f] = blocks
        /\ fd'[t] = fd[t]
    BY <1>1, <1>8 DEF fvars
  <2>2. pc'[t] \in {"read", "unpin"}
    BY <1>1, <1>2 DEF FdInv, ThreadTypes
  <2> QED
    BY <1>7, <2>1, <2>2 DEF AloneGot
<1> QED
  BY <1>1, <1>5, <1>6, <1>8, FilesApartGet DEF fvars

LEMMA UnmovedKeepsGet ==
  ASSUME FdInv, GetInv, UNCHANGED <<opened, dir, content, pc, key, fd, call, buf, company, last>>
  PROVE  GetInv'
BY DEF GetInv, DirInv, AloneInv, LastInv, AloneGot

LEMMA CrashKeepsGet ==
  ASSUME FdInv, GetInv, NEW lost \in SUBSET (Files \ synced), Crash(lost)
  PROVE  GetInv'
<1>1. /\ content' = [f \in Files |-> IF f \in lost THEN <<>> ELSE content[f]]
      /\ last' = [k \in Keys |-> IF dir[k] \in synced \cup {NoFile} THEN last[k] ELSE Unknown]
      /\ UNCHANGED <<dir, synced>>
      /\ pc' = [t \in Threads |-> "idle"]
  BY DEF Crash
<1>2. DirInv'
  BY <1>1 DEF GetInv, DirInv
<1>3. ASSUME NEW k \in Keys
      PROVE  LastInv(k)'
  <2>1. CASE dir[k] \in synced
    <3>1. dir[k] \in Files /\ content'[dir[k]] = content[dir[k]] /\ last'[k] = last[k]
      BY <1>1, <2>1 DEF FdInv, FileTypes
    <3> QED
      BY <1>1, <3>1 DEF GetInv, LastInv
  <2>2. CASE dir[k] = NoFile
    <3>1. last'[k] = last[k]
      BY <1>1, <2>2
    <3> QED
      BY <1>1, <2>2, <3>1 DEF GetInv, LastInv
  <2>3. CASE dir[k] \notin synced \cup {NoFile}
    BY <1>1, <2>3, FileSystemStoreAssumption DEF LastInv, Unknown, Absent
  <2> QED
    BY <2>1, <2>2, <2>3
<1>4. AloneInv' /\ \A t \in Threads : AloneGot(t)'
  BY <1>1 DEF AloneInv, AloneGot
<1> QED
  BY <1>2, <1>3, <1>4 DEF GetInv

LEMMA InitGet ==
  ASSUME Init
  PROVE  GetInv
BY FileSystemStoreAssumption
   DEF Init, GetInv, DirInv, AloneInv, LastInv, AloneGot, Absent

LEMMA NextKeepsGet ==
  ASSUME FdInv, GetInv, [Next]_vars
  PROVE  GetInv'
<1>1. CASE UNCHANGED vars
  BY <1>1, UnmovedKeepsGet DEF vars, fvars, tvars
<1>2. ASSUME NEW be_durable \in BeDurable, EndTransaction(be_durable)
      PROVE  GetInv'
  BY <1>2, UnmovedKeepsGet DEF EndTransaction, tvars
<1>3. ASSUME NEW lost \in SUBSET (Files \ synced), Crash(lost)
      PROVE  GetInv'
  BY <1>3, CrashKeepsGet
<1>4. ASSUME NEW t \in Threads, NEW k \in Keys, NEW c \in Puts \cup {Get},
             CallHit(t, k, c) \/ CallMiss(t, k, c)
      PROVE  GetInv'
  BY <1>4, CallKeepsGet
<1>5. ASSUME NEW t \in Threads, NEW k \in Keys, DelClose(t, k)
      PROVE  GetInv'
  BY <1>5, DelCloseKeepsGet
<1>6. ASSUME NEW t \in Threads, NEW f \in Files, PutOpenNew(t, f)
      PROVE  GetInv'
  BY <1>6, PutOpenNewKeepsGet
<1>7. ASSUME NEW t \in Threads, GetOpen(t) \/ PutOpenOld(t) \/ PutRefused(t)
      PROVE  GetInv'
  BY <1>7, GetOpenKeepsGet, PutOpenOldKeepsGet, EndKeepsGet
<1>8. ASSUME NEW t \in Threads, Insert(t) \/ Seek(t) \/ Read(t)
      PROVE  GetInv'
  BY <1>8, InsertKeepsGet, SeekKeepsGet, ReadKeepsGet
<1>9. ASSUME NEW t \in Threads, NEW v \in Values, NEW n \in 0..Longest, Write(t, v, n)
      PROVE  GetInv'
  BY <1>9, WriteKeepsGet
<1>10. ASSUME NEW t \in Threads, Return(t) \/ Unlink(t)
       PROVE  GetInv'
  BY <1>10, EndKeepsGet, UnlinkKeepsGet
<1> QED
  BY <1>1, <1>2, <1>3, <1>4, <1>5, <1>6, <1>7, <1>8, <1>9, <1>10 DEF Next

LEMMA AlwaysDataInv == Spec => []DataInv
<1>1. Init => DataInv
  BY InitFd, InitGet DEF DataInv
<1>2. DataInv /\ [Next]_vars => DataInv'
  BY NextKeepsFd, NextKeepsGet DEF DataInv
<1> QED
  BY <1>1, <1>2, PTL DEF Spec

LEMMA DataInvIsGet ==
  ASSUME DataInv
  PROVE  GetReturnsLastPut
<1> SUFFICES ASSUME NEW t \in Threads, GetEnds(t), company[t] = "none"
             PROVE  Returned(t)
  BY DEF GetReturnsLastPut
<1>1. AloneGot(t) /\ key[t] \in Keys
  BY DEF DataInv, GetInv, GetEnds, FdInv, CallInv
<1>2. LastInv(key[t]) /\ last[key[t]] \in Values \cup {Absent, Unknown}
  BY <1>1 DEF DataInv, GetInv, FdInv, FileTypes
<1>3. Absent \notin Values /\ Unknown \notin Values /\ Absent # Unknown
  BY FileSystemStoreAssumption DEF Absent, Unknown
<1>4. CASE last[key[t]] = Absent
  BY <1>2, <1>4 DEF Returned, LastInv
<1>5. CASE last[key[t]] \in Values
  <2>1. dir[key[t]] # NoFile
    BY <1>2, <1>5 DEF LastInv
  <2>2. Reads(buf[t], last[key[t]])
    BY <1>1, <1>5, <2>1 DEF GetEnds, AloneGot
  <2> QED
    BY <1>3, <1>5, <2>2 DEF Returned
<1>6. CASE last[key[t]] = Unknown
  BY <1>3, <1>6 DEF Returned
<1> QED
  BY <1>2, <1>4, <1>5, <1>6

-----------------------------------------------------------------------------
(* Every step leaves the variables within their types; in particular       *)
(* pin_count_ never becomes negative, whoever calls unpin().               *)
THEOREM StoreTypeCorrect == Spec => []TypeOK
<1>1. FdInv => TypeOK
  BY FdInvIsType
<1> QED
  BY <1>1, AlwaysFdInv, PTL

(* The pins of a descriptor are the threads that work with it, each with   *)
(* that descriptor: put_and_pin() never evicts one in use, and the         *)
(* assertions of unpin() and close() hold (OpenFdCache.h).                 *)
THEOREM StorePinsAreUsers == Spec => []PinsAreUsers
<1>1. FdInv => PinsAreUsers
  BY FdInvIsPins
<1> QED
  BY <1>1, AlwaysFdInv, PTL

(* A descriptor in the cache is open on the file that the directory has    *)
(* for its key, whatever was evicted, deleted and numbered anew.           *)
THEOREM StoreFdIsFile == Spec => []FdIsFile
<1>1. FdInv => FdIsFile
  BY DEF FdInv, EntryInv
<1> QED
  BY <1>1, AlwaysFdInv, PTL

(* No descriptor is lost: each is in the cache, or with a thread that is   *)
(* about to put it there; the loser of that race closes its own.           *)
THEOREM StoreNoFdLeak == Spec => []NoFdLeak
<1>1. FdInv => NoFdLeak
  BY DEF FdInv
<1> QED
  BY <1>1, AlwaysFdInv, PTL

(* get() returns what put() put last, and DS_NOTFOUND only if there is     *)
(* nothing, when no other thread is at the key.                            *)
THEOREM StoreGetReturnsLastPut == Spec => []GetReturnsLastPut
<1>1. DataInv => GetReturnsLastPut
  BY DataInvIsGet
<1> QED
  BY <1>1, AlwaysDataInv, PTL
=============================================================================
