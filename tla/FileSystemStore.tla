-------------------------- MODULE FileSystemStore --------------------------
(***************************************************************************)
(* storage/FileSystemStore.cc: a table kept as one file per key, with a    *)
(* cache of open descriptors.  get() and put() work on a pinned descriptor *)
(* after the cache has let go of its lock, so that two threads at one key  *)
(* share the descriptor and its offset.  fsync is only ever called from    *)
(* end_transaction(), on what the cache then has.                          *)
(*                                                                         *)
(* External, modelled from how the code uses it: the directory, the files  *)
(* and what survives a crash.  Directory changes do, and so does what was  *)
(* written to a file before its last fsync; a file that was written since  *)
(* survives as it is or not at all.                                        *)
(***************************************************************************)
EXTENDS OpenFdCache

CONSTANTS
  Threads, Files, NoFile, NoKey,
  ShortWrites, \* blocks that a failing write may have written
  BeDurable, \* what transactions are ended with
  Values,
  Longest,  \* blocks of the longest value
  Size      \* of each value when marshalled, in blocks

ASSUME FileSystemStoreAssumption ==
  /\ NoFile \notin Files /\ NoKey \notin Keys
  /\ Cardinality(Files) >= Cardinality(Keys)
  /\ BeDurable \subseteq BOOLEAN
  /\ Longest \in Nat /\ Size \in [Values -> 1..Longest]
  /\ Values \cap {"absent", "unknown", "hole"} = {}
  /\ IsFiniteSet(Threads)

VARIABLES
  dir,      \* the file of each key, or NoFile
  content,  \* of each file, the blocks: each the value it is part of
  synced,   \* the files that are on disk as they are
  pc, key, fd, \* of each thread: where it is, and its arguments
  call,     \* get, put or del; put: DS_CREATE and DS_EXCL
  buf,      \* what get() has read
  company,  \* who else has been at this key since the call began
  last      \* of each key: the value put last

fvars == <<dir, content, synced>>
tvars == <<pc, key, fd, call, buf, company>>
vars  == <<cvars, opened, fvars, tvars, last>>

Absent  == "absent"   \* last: there is none
Unknown == "unknown"  \* last: a put has begun, failed, was shared or was cut short
Hole    == "hole"
NoCall  == [op |-> "none"]
Get     == [op |-> "get"]
Del     == [op |-> "del"]
Put(create, excl) == [op |-> "put", create |-> create, excl |-> excl]
Puts == {Put(TRUE, FALSE), Put(TRUE, TRUE), Put(FALSE, FALSE)}

StoreLabels == {"idle", "open", "insert", "seek", "write", "read", "exists",
                "unpin", "notfound", "unlink"}

Init ==
  /\ CacheInit
  /\ dir = [k \in Keys |-> NoFile]
  /\ content = [f \in Files |-> <<>>] /\ synced = {}
  /\ pc = [t \in Threads |-> "idle"] /\ key = [t \in Threads |-> NoKey]
  /\ fd = [t \in Threads |-> NoFd] /\ call = [t \in Threads |-> NoCall]
  /\ buf = [t \in Threads |-> <<>>] /\ company = [t \in Threads |-> "none"]
  /\ last = [k \in Keys |-> Absent]

Goto(t, from, to) == pc[t] = from /\ pc' = [pc EXCEPT ![t] = to]

(* A call returns.                                                         *)
End(t, from) ==
  /\ Goto(t, from, "idle")
  /\ key' = [key EXCEPT ![t] = NoKey]
  /\ fd' = [fd EXCEPT ![t] = NoFd]
  /\ call' = [call EXCEPT ![t] = NoCall]
  /\ buf' = [buf EXCEPT ![t] = <<>>]
  /\ company' = [company EXCEPT ![t] = "none"]

UpTo(n) == IF n < Longest THEN n ELSE Longest

(* What put() overwrites from offset with the blocks new.  Blocks that no  *)
(* value is long enough to reach are left out, and offsets end there.      *)
Written(old, offset, new) ==
  LET end == UpTo(offset + Len(new)) IN
    [i \in 1..(IF end > Len(old) THEN end ELSE Len(old)) |->
       IF i \in (offset + 1)..end THEN new[i - offset]
       ELSE IF i <= Len(old) THEN old[i] ELSE Hole]
Blocks(v) == [i \in 1..Size[v] |-> v]

(* The value that get() unmarshals: what follows its end is not looked at. *)
Reads(blocks, v) ==
  Len(blocks) >= Size[v] /\ \A i \in 1..Size[v] : blocks[i] = v

AtKey(k) == {t \in Threads : key[t] = k}
Putters(k) == {t \in AtKey(k) : call[t].op = "put"}

(* The threads that work with the descriptor of k.                         *)
Users(k) == {t \in AtKey(k) : pc[t] \in {"seek", "write", "read", "exists", "unpin"}}

(* Mutants of the definitions below.                                       *)
ReadUnsought(t) ==
  /\ Goto(t, "seek", IF call[t].op = "put" THEN "write" ELSE "read")
  /\ UNCHANGED <<cvars, opened, fvars, key, fd, call, buf, company, last>>
InsertKeepsBoth(t) ==
  LET k == key[t] IN
    /\ Goto(t, "insert", "seek")
    /\ \/ PutNew(k, fd[t]) /\ fd' = fd
       \/ PutAgain(k) /\ fd' = [fd EXCEPT ![t] = fd_[k]] /\ UNCHANGED opened
    /\ UNCHANGED <<fvars, key, call, buf, company, last>>

-----------------------------------------------------------------------------
(* get() and put() may meet at a key; del() has it to itself.              *)
MayBegin(t, k, c) ==
  /\ pc[t] = "idle"
  /\ IF c.op = "del" THEN AtKey(k) = {}
     ELSE \A u \in AtKey(k) : call[u].op # "del"

(* The flags are looked at no more once the file is open.                  *)
WithoutFlags(c) == IF c.op = "put" THEN Put(TRUE, FALSE) ELSE c

Begin(t, k, c, label, n) ==
  /\ MayBegin(t, k, c)
  /\ pc' = [pc EXCEPT ![t] = label]
  /\ key' = [key EXCEPT ![t] = k]
  /\ call' = [call EXCEPT ![t] = c]
  /\ fd' = [fd EXCEPT ![t] = n]
  /\ company' = [u \in Threads |->
       CASE u = t -> (CASE AtKey(k) = {} -> "none"
                        [] Putters(k) # {} -> "puts" [] OTHER -> "gets")
         [] u \in AtKey(k) -> (IF c.op = "put" \/ company[u] = "puts" THEN "puts" ELSE "gets")
         [] OTHER -> company[u]]
  /\ UNCHANGED <<fvars, buf, last>>

(* get_common() and put() start with get_and_pin().                        *)
CallHit(t, k, c) ==
  /\ GetAndPin(k)
  /\ Begin(t, k, WithoutFlags(c), IF c.op = "put" /\ c.excl THEN "exists" ELSE "seek", fd_[k])
  /\ UNCHANGED opened
CallMiss(t, k, c) ==
  /\ ~InCache(k)
  /\ Begin(t, k, c, "open", NoFd)
  /\ UNCHANGED <<cvars, opened>>

(* open() of the file f, whose number is not in the cache yet.             *)
OpenFile(t, f) ==
  /\ Goto(t, "open", "insert")
  /\ opened' = Opened(NewFd, f)
  /\ fd' = [fd EXCEPT ![t] = NewFd]
  /\ call' = [call EXCEPT ![t] = WithoutFlags(@)]
  /\ last' = [last EXCEPT ![key[t]] = IF call[t].op = "put" THEN Unknown ELSE @]
  /\ UNCHANGED <<cvars, key, buf, company>>

GetOpen(t) ==
  LET f == dir[key[t]] IN
    /\ call[t].op = "get"
    /\ \/ f = NoFile /\ Goto(t, "open", "notfound")
          /\ UNCHANGED <<cvars, opened, key, fd, call, buf, company, last>>
       \/ f # NoFile /\ OpenFile(t, f)
    /\ UNCHANGED fvars

PutOpenNew(t, f) ==
    /\ call[t].op = "put" /\ call[t].create
    /\ dir[key[t]] = NoFile /\ \A k \in Keys : dir[k] # f
    /\ OpenFile(t, f)
    /\ dir' = [dir EXCEPT ![key[t]] = f]
    /\ synced' = synced \ {f}
    /\ UNCHANGED content

(* O_TRUNC                                                                 *)
PutOpenOld(t) ==
  LET f == dir[key[t]] IN
    /\ call[t].op = "put" /\ ~call[t].excl
    /\ f # NoFile
    /\ OpenFile(t, f)
    /\ content' = [content EXCEPT ![f] = <<>>]
    /\ synced' = synced \ {f}
    /\ UNCHANGED dir

(* DS_NOTFOUND or DS_EXISTS                                                *)
PutRefused(t) ==
  /\ call[t].op = "put"
  /\ IF dir[key[t]] = NoFile THEN ~call[t].create ELSE call[t].excl
  /\ End(t, "open")
  /\ UNCHANGED <<cvars, opened, fvars, last>>

Insert(t) ==
  LET k == key[t] IN
    /\ Goto(t, "insert", "seek")
    /\ \/ PutNew(k, fd[t]) /\ fd' = fd
       \/ PutAgain(k) /\ fd' = [fd EXCEPT ![t] = fd_[k]]
          /\ opened' = Closed({fd[t]})
    /\ UNCHANGED <<fvars, key, call, buf, company, last>>

Seek(t) ==
  /\ Goto(t, "seek", IF call[t].op = "put" THEN "write" ELSE "read")
  /\ opened' = [opened EXCEPT ![fd[t]].offset = 0]
  /\ UNCHANGED <<cvars, fvars, key, fd, call, buf, company, last>>

(* writeall() of n blocks of v; an error leaves it after fewer than all.   *)
Write(t, v, n) ==
  LET k == key[t]
      f == opened[fd[t]].file
  IN
    /\ Goto(t, "write", "unpin")
    /\ n = Size[v] \/ (n < Size[v] /\ n \in ShortWrites)
    /\ content' = [content EXCEPT ![f] =
         Written(@, opened[fd[t]].offset, SubSeq(Blocks(v), 1, n))]
    /\ opened' = [opened EXCEPT ![fd[t]].offset = UpTo(@ + n)]
    /\ last' = [last EXCEPT ![k] =
         IF n = Size[v] /\ company[t] = "none" THEN v ELSE Unknown]
    /\ synced' = synced \ {f}
    /\ UNCHANGED <<cvars, dir, key, fd, call, buf, company>>

(* One read(), until there is nothing more.                                *)
Read(t) ==
  LET blocks == content[opened[fd[t]].file]
      rest   == SubSeq(blocks, opened[fd[t]].offset + 1, Len(blocks))
  IN
    /\ pc[t] = "read"
    /\ \/ rest = <<>> /\ Goto(t, "read", "unpin") /\ UNCHANGED <<buf, opened>>
       \/ rest # <<>> /\ UNCHANGED pc
          /\ buf' = [buf EXCEPT ![t] = SubSeq(@ \o rest, 1, UpTo(Len(@ \o rest)))]
          /\ opened' = [opened EXCEPT ![fd[t]].offset = Len(blocks)]
    /\ UNCHANGED <<cvars, fvars, key, fd, call, company, last>>

(* get() and put() end with unpin(), but for a get() that found no file.   *)
Return(t) ==
  /\ \/ (End(t, "unpin") \/ End(t, "exists")) /\ Unpin(key[t])
     \/ End(t, "notfound") /\ UNCHANGED cvars
  /\ UNCHANGED <<opened, fvars, last>>

-----------------------------------------------------------------------------
(* del(): the descriptor first, then the file.                             *)
DelClose(t, k) ==
  /\ Begin(t, k, Del, "unlink", NoFd)
  /\ Close(k)

Unlink(t) ==
  LET f == dir[key[t]] IN
    /\ End(t, "unlink")
    /\ dir' = [dir EXCEPT ![key[t]] = NoFile]
    /\ content' = [g \in Files |-> IF g = f THEN <<>> ELSE content[g]]
    /\ synced' = synced \ {f}
    /\ last' = [last EXCEPT ![key[t]] = Absent]
    /\ UNCHANGED <<cvars, opened>>

EndTransaction(be_durable) ==
  /\ synced' = IF be_durable THEN synced \cup SyncedFiles ELSE synced
  /\ UNCHANGED <<cvars, opened, dir, content, tvars, last>>

(* The process ends, with the machine or alone, and another one starts.    *)
Crash(lost) ==
  /\ content' = [f \in Files |-> IF f \in lost THEN <<>> ELSE content[f]]
  /\ last' = [k \in Keys |-> IF dir[k] \in synced \cup {NoFile} THEN last[k] ELSE Unknown]
  /\ open_fds_' = <<>> /\ opened' = <<>>
  /\ fd_' = [k \in Keys |-> NoFd] /\ pin_count_' = [k \in Keys |-> 0]
  /\ pc' = [t \in Threads |-> "idle"] /\ key' = [t \in Threads |-> NoKey]
  /\ fd' = [t \in Threads |-> NoFd] /\ call' = [t \in Threads |-> NoCall]
  /\ buf' = [t \in Threads |-> <<>>] /\ company' = [t \in Threads |-> "none"]
  /\ UNCHANGED <<dir, synced>>

Next ==
  \/ \E be_durable \in BeDurable : EndTransaction(be_durable)
  \/ \E lost \in SUBSET (Files \ synced) : Crash(lost)
  \/ \E t \in Threads :
       \/ \E k \in Keys : \/ \E c \in Puts \cup {Get} : CallHit(t, k, c) \/ CallMiss(t, k, c)
                          \/ DelClose(t, k)
       \/ GetOpen(t) \/ (\E f \in Files : PutOpenNew(t, f)) \/ PutOpenOld(t) \/ PutRefused(t)
       \/ Insert(t) \/ Seek(t) \/ Read(t)
       \/ \E v \in Values, n \in 0..Longest : Write(t, v, n)
       \/ Return(t) \/ Unlink(t)

Spec == Init /\ [][Next]_vars

-----------------------------------------------------------------------------
TypeOK ==
  /\ fd_ \in [Keys -> Nat \cup {NoFd}] /\ pin_count_ \in [Keys -> Nat]
  /\ DOMAIN opened \subseteq Nat
  /\ \A n \in DOMAIN opened : opened[n].file \in Files /\ opened[n].offset \in Nat
  /\ dir \in [Keys -> Files \cup {NoFile}]
  /\ \A f \in Files : content[f] \in Seq(Values \cup {Hole})
  /\ synced \subseteq Files
  /\ pc \in [Threads -> StoreLabels]
  /\ key \in [Threads -> Keys \cup {NoKey}]
  /\ call \in [Threads -> Puts \cup {Get, Del, NoCall}]
  /\ company \in [Threads -> {"none", "gets", "puts"}]
  /\ last \in [Keys -> Values \cup {Absent, Unknown}]

(* The pins of a descriptor are the threads that work with it, each with   *)
(* that descriptor: nothing closes it under them, and the assertions of    *)
(* unpin() and close() hold.                                               *)
PinsAreUsers ==
  \A k \in Keys :
    /\ Cardinality(Users(k)) = IF InCache(k) THEN pin_count_[k] ELSE 0
    /\ \A t \in Users(k) : fd[t] = fd_[k]

(* A descriptor in the cache is open on the file that the directory has    *)
(* for its key, whatever has been evicted, deleted, put and numbered anew. *)
FdIsFile ==
  \A k \in Cached : fd_[k] \in DOMAIN opened /\ opened[fd_[k]].file = dir[k]

(* Every open descriptor is in the cache, or with a thread that is about   *)
(* to put it there: the loser of the race to put one closes its own.       *)
NoFdLeak ==
  DOMAIN opened = {fd_[k] : k \in Cached}
                    \cup {fd[t] : t \in {u \in Threads : pc[u] = "insert"}}

(* get() returns what was put last, after any evictions, crashes and       *)
(* rewrites of the same file, when no other thread was at the key.         *)
GetEnds(t) == pc[t] = "notfound" \/ (pc[t] = "unpin" /\ call[t].op = "get")
Returned(t) ==
  LET v == last[key[t]] IN
    CASE v = Absent -> dir[key[t]] = NoFile
      [] v \in Values -> Reads(buf[t], v)
      [] OTHER -> TRUE
GetReturnsLastPut ==
  \A t \in Threads : GetEnds(t) /\ company[t] = "none" => Returned(t)

(* The same when other threads were at the key only to get it.             *)
ReadersReturnLastPut ==
  \A t \in Threads : GetEnds(t) /\ company[t] # "puts" => Returned(t)

(* A transaction that is ended durably leaves everything that was put      *)
(* before on disk.                                                         *)
EndIsDurable ==
  [][EndTransaction(TRUE) =>
       \A k \in Keys : dir[k] # NoFile /\ AtKey(k) = {}
                         => dir[k] \in synced']_vars
=============================================================================
