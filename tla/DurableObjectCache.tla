------------------------- MODULE DurableObjectCache -------------------------
(***************************************************************************)
(* storage/DurableObjectCache.tcc: the objects of a durable table that are *)
(* in memory.  An object is live from put() or get() until its user calls  *)
(* release(); then its key joins the LRU list, whose head is evicted when  *)
(* the cache is over capacity.  Every operation holds lock_ throughout,    *)
(* so each is one step.                                                    *)
(***************************************************************************)
EXTENDS Integers, Sequences, FiniteSets, FiniteSetsExt, SequencesExt

CONSTANTS
  Keys, Objects, NoObject,
  Size,       \* of each object when marshalled
  capacity_

CachePolicies == {"CAP_BY_SIZE", "CAP_BY_COUNT"}

ASSUME DurableObjectCacheAssumption ==
  /\ NoObject \notin Objects
  /\ Size \in [Objects -> Nat]
  /\ capacity_ \in Nat

VARIABLES
  cache_,  \* the object of each key, or NoObject
  live_,   \* the keys whose object is live
  lru_,    \* the keys that are not, the one released first at the head
  size_,
  policy_  \* given to the constructor, and kept

cvars == <<cache_, live_, lru_, size_, policy_>>

CacheInit ==
  /\ cache_ = [k \in Keys |-> NoObject]
  /\ live_ = {} /\ lru_ = <<>> /\ size_ = 0
  /\ policy_ \in CachePolicies

Cached == {k \in Keys : cache_[k] # NoObject}
SizeOf(keys) == MapThenSumSet(LAMBDA k : Size[cache_[k]], keys)
Uncached(keys) == [k \in Keys |-> IF k \in keys THEN NoObject ELSE cache_[k]]

(* The LRU list once the key that an object's lru_iter_ points to is erased. *)
Without(k) ==
  IF k \in ToSet(lru_) THEN RemoveAt(lru_, CHOOSE i \in DOMAIN lru_ : lru_[i] = k) ELSE lru_

(* is_over_capacity(size) once keys have been evicted.                     *)
IsOver(size, keys) ==
  \/ policy_ = "CAP_BY_SIZE"  /\ size_ - SizeOf(keys) + size > capacity_
  \/ policy_ = "CAP_BY_COUNT" /\ Cardinality(Cached \ keys) + 1 > capacity_

First(n) == {lru_[i] : i \in 1..n}

(* The objects of keys leave the cache, and lru is what is left of the     *)
(* LRU list.                                                               *)
Forget(keys, lru) ==
  /\ cache_' = Uncached(keys)
  /\ lru_' = lru
  /\ size_' = size_ - SizeOf(keys)

(* Mutants of the definitions below.                                       *)
EvictedAny(o) ==
  LET enough == {n \in 0..Len(lru_) : ~IsOver(Size[o], First(n))} IN
    IF enough = {} THEN 0 ELSE Min(enough)
DelLiveToo(k) ==
  /\ k \in Cached
  /\ Forget({k}, Without(k))
  /\ live_' = live_ \ {k}
  /\ UNCHANGED policy_
RemoveUncounted(k) ==
  /\ k \in Cached
  /\ cache_' = Uncached({k}) /\ lru_' = Without(k)
  /\ live_' = live_ \ {k}
  /\ UNCHANGED <<size_, policy_>>

-----------------------------------------------------------------------------
(* What put() evicts: the shortest part of the LRU list that makes room.   *)
Evicted(o) ==
  LET enough == {n \in 0..Len(lru_) : ~IsOver(Size[o], First(n))} IN
    IF enough = {} THEN Len(lru_) ELSE Min(enough)

(* put() of a key that is not in the cache.                                *)
PutNew(k, o) ==
  LET n == Evicted(o) IN
    /\ k \notin Cached
    /\ cache_' = [Uncached(First(n)) EXCEPT ![k] = o]
    /\ live_' = live_ \cup {k}
    /\ lru_' = SubSeq(lru_, n + 1, Len(lru_))
    /\ size_' = size_ - SizeOf(First(n)) + Size[o]
    /\ UNCHANGED policy_

GetHit(k) ==
  /\ k \in Cached
  /\ live_' = live_ \cup {k}
  /\ lru_' = Without(k)
  /\ UNCHANGED <<cache_, size_, policy_>>

(* The end of release(): evict_last() if over capacity.                    *)
Settle(lru) ==
  \/ IsOver(0, {}) /\ Forget({Head(lru)}, Tail(lru))
  \/ ~IsOver(0, {}) /\ lru_' = lru /\ UNCHANGED <<cache_, size_>>

Release(k) ==
  /\ k \in live_
  /\ live_' = live_ \ {k}
  /\ Settle(Append(lru_, k))
  /\ UNCHANGED policy_

(* release() of an object that is on the LRU list already.                 *)
ReleaseAgain(k) ==
  /\ k \in Cached \ live_
  /\ Settle(Append(Without(k), k))
  /\ UNCHANGED <<live_, policy_>>

(* del() leaves a live object alone, with DS_ERR.                          *)
Del(k) ==
  /\ k \in Cached \ live_
  /\ Forget({k}, Without(k))
  /\ UNCHANGED <<live_, policy_>>

(* remove() takes a live one too: the object stays with its user.          *)
RemoveKey(k) ==
  /\ k \in Cached
  /\ Forget({k}, Without(k))
  /\ live_' = live_ \ {k}
  /\ UNCHANGED policy_

Flush ==
  /\ lru_ # <<>>
  /\ Forget(ToSet(lru_), <<>>)
  /\ UNCHANGED <<live_, policy_>>

-----------------------------------------------------------------------------
CacheTypeOK ==
  /\ cache_ \in [Keys -> Objects \cup {NoObject}]
  /\ live_ \subseteq Cached
  /\ lru_ \in Seq(Keys)
  /\ size_ \in Nat
  /\ policy_ \in CachePolicies

(* The LRU list holds the key of every cached object that is not live,     *)
(* once: the assertions of evict_last() and get() about it hold.           *)
LruIsNotLive ==
  /\ ToSet(lru_) = Cached \ live_
  /\ IsInjective(lru_)

(* size_ is what the cached objects take, through every eviction, so that  *)
(* the capacity test means what it says.                                   *)
SizeIsSum == size_ = SizeOf(Cached)

(* The map, the LRU list, the live flags and the size, which every         *)
(* operation changes one after the other, agree about what is cached.      *)
CacheAgrees == LruIsNotLive /\ SizeIsSum

(* The cache exceeds its capacity only by objects in use: put() evicts     *)
(* until the new one fits, and release() sheds what put() could not.       *)
OverOnlyByLive ==
  (policy_ = "CAP_BY_SIZE" /\ size_ > capacity_)
    \/ (policy_ = "CAP_BY_COUNT" /\ Cardinality(Cached) > capacity_)
  => lru_ = <<>>
=============================================================================
