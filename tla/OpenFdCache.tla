---------------------------- MODULE OpenFdCache ----------------------------
(***************************************************************************)
(* util/OpenFdCache.h: open file descriptors kept for reuse.  A descriptor *)
(* is pinned while somebody works with it, and the least recently got one  *)
(* that nobody has pinned is closed when room is needed.  Every operation  *)
(* holds lock_ throughout, so each is one step of the module that uses it. *)
(*                                                                         *)
(* opened stands for the kernel: which descriptors are open, on which      *)
(* file and at which offset.  A closed number is soon given out again.     *)
(***************************************************************************)
EXTENDS Integers, Sequences, FiniteSets

CONSTANTS
  Keys,
  max_      \* descriptors to keep open

ASSUME OpenFdCacheAssumption == max_ \in Nat \ {0}

VARIABLES
  open_fds_,       \* the keys of the LRU list, the one got least recently first
  fd_, pin_count_, \* of the entry of each key; NoFd and 0 if there is none
  opened           \* of each open descriptor: its file and its offset

NoFd == -1
cvars == <<open_fds_, fd_, pin_count_>>

CacheInit ==
  /\ open_fds_ = <<>> /\ opened = <<>>
  /\ fd_ = [k \in Keys |-> NoFd] /\ pin_count_ = [k \in Keys |-> 0]

InCache(k) == fd_[k] # NoFd
Cached   == {k \in Keys : InCache(k)}
Unpinned == {k \in Cached : pin_count_[k] = 0}

At(k) == CHOOSE i \in 1..Len(open_fds_) : open_fds_[i] = k
Unlisted(keys) == SelectSeq(open_fds_, LAMBDA k : k \notin keys)
AddPin(n, k) == pin_count_' = [pin_count_ EXCEPT ![k] = @ + n]

(* The lowest number that is not open: what open() returns.                *)
NewFd == CHOOSE n \in 0..Cardinality(DOMAIN opened) :
           n \notin DOMAIN opened /\ 0..(n - 1) \subseteq DOMAIN opened
Opened(fd, file) ==
  [n \in DOMAIN opened \cup {fd} |->
     IF n = fd THEN [file |-> file, offset |-> 0] ELSE opened[n]]
Closed(numbers) == [n \in DOMAIN opened \ numbers |-> opened[n]]

(* Mutants of the definitions below.                                       *)
EvictedPinnedToo ==
  {k \in Cached : At(k) <= Cardinality(Cached) + 1 - max_}
CloseKeepsEntry(k) ==
  /\ InCache(k) => pin_count_[k] = 0
  /\ opened' = IF InCache(k) THEN Closed({fd_[k]}) ELSE opened
  /\ UNCHANGED cvars

-----------------------------------------------------------------------------
GetAndPin(k) ==
  /\ InCache(k)
  /\ open_fds_' = Append(Unlisted({k}), k)
  /\ AddPin(1, k)
  /\ UNCHANGED fd_

Unpin(k) == InCache(k) /\ AddPin(-1, k) /\ UNCHANGED <<open_fds_, fd_>>

(* What put_and_pin() evicts: the first unpinned entries, until there is   *)
(* room for one more or every entry left is pinned.                        *)
Evicted ==
  LET before(k) == {j \in Unpinned : At(j) < At(k)} IN
    {k \in Unpinned : Cardinality(before(k)) < Cardinality(Cached) + 1 - max_}

PutNew(k, fd) ==
  /\ ~InCache(k)
  /\ open_fds_' = Append(Unlisted(Evicted), k)
  /\ fd_' = [j \in Keys |-> IF j = k THEN fd ELSE IF j \in Evicted THEN NoFd ELSE fd_[j]]
  /\ pin_count_' = [pin_count_ EXCEPT ![k] = 1]
  /\ opened' = Closed({fd_[j] : j \in Evicted})

(* put_and_pin() of a key that somebody else has put meanwhile: the caller *)
(* gets the descriptor that is there, and closes its own.                  *)
PutAgain(k) == InCache(k) /\ AddPin(1, k) /\ UNCHANGED <<open_fds_, fd_>>

(* close() asserts that nobody has the descriptor pinned.                  *)
Close(k) ==
  \/ ~InCache(k) /\ UNCHANGED <<cvars, opened>>
  \/ /\ InCache(k) /\ pin_count_[k] = 0
     /\ open_fds_' = Unlisted({k}) /\ fd_' = [fd_ EXCEPT ![k] = NoFd]
     /\ opened' = Closed({fd_[k]})
     /\ UNCHANGED pin_count_

(* The files that sync_all() writes to disk.                               *)
SyncedFiles == {opened[fd_[k]].file : k \in Cached}
=============================================================================
