---------------------------- MODULE DurableTable ----------------------------
(***************************************************************************)
(* storage/DurableTable.tcc: a table of the durable store with its object  *)
(* cache in front.  The cache and the store each do one operation at a     *)
(* time, but the table has no lock of its own: between the two halves of   *)
(* get(), put() and del() other threads use the same table.                *)
(***************************************************************************)
EXTENDS DurableObjectCache

CONSTANTS
  Threads, NoThread, NoKey,
  OneUser  \* whether the threads keep to one user of a key at a time

ASSUME DurableTableAssumption ==
  /\ NoThread \notin Threads /\ NoKey \notin Keys
  /\ OneUser \in BOOLEAN

VARIABLES
  stored,  \* the keys in the underlying table
  user,    \* the thread that has the object of each key, or NoThread
  pc, key, obj, excl  \* of each thread: where it is, and its arguments

tvars == <<stored, user, pc, key, obj, excl>>
vars  == <<cvars, tvars>>

TableLabels == {"idle", "read", "fill", "store", "cache", "erase", "abort"}

Init ==
  /\ CacheInit
  /\ stored = {}
  /\ user = [k \in Keys |-> NoThread]
  /\ pc = [t \in Threads |-> "idle"]
  /\ key = [t \in Threads |-> NoKey]
  /\ obj = [t \in Threads |-> NoObject]
  /\ excl = [t \in Threads |-> FALSE]

Goto(t, from, to) == pc[t] = from /\ pc' = [pc EXCEPT ![t] = to]

(* A thread may begin on k when the convention among the users allows it.  *)
MayUse(t, k) ==
  OneUser => /\ user[k] \in {t, NoThread}
             /\ \A u \in Threads \ {t} : key[u] # k

(* Objects that are neither cached, nor in use, nor about to be cached.    *)
Unused == Objects \ ({cache_[k] : k \in Cached} \cup {obj[t] : t \in Threads})

Begin(t, k, label, o, x) ==
  /\ Goto(t, "idle", label)
  /\ key' = [key EXCEPT ![t] = k]
  /\ obj' = [obj EXCEPT ![t] = o]
  /\ excl' = [excl EXCEPT ![t] = x]
End(t, from) ==
  /\ Goto(t, from, "idle")
  /\ key' = [key EXCEPT ![t] = NoKey]
  /\ obj' = [obj EXCEPT ![t] = NoObject]
  /\ excl' = [excl EXCEPT ![t] = FALSE]
Abort(t, from) == Goto(t, from, "abort") /\ UNCHANGED <<key, obj, excl>>
Args == <<key, obj, excl>>

(* Mutants of the definitions below.                                       *)
PutInStoreUnchecked(t, create) ==
  /\ Goto(t, "store", "cache")
  /\ create \/ key[t] \in stored
  /\ stored' = stored \cup {key[t]}
  /\ UNCHANGED <<cvars, user, Args>>
DelMissKeepsLive(t, k) ==
  /\ MayUse(t, k) /\ k \notin live_
  /\ Begin(t, k, "erase", NoObject, FALSE)
  /\ UNCHANGED <<cvars, stored, user>>

-----------------------------------------------------------------------------
(* get(): the cache first.                                                 *)
GetCached(t, k) ==
  /\ MayUse(t, k) /\ pc[t] = "idle"
  /\ GetHit(k)
  /\ user' = [user EXCEPT ![k] = t]
  /\ UNCHANGED <<stored, pc, Args>>

GetMiss(t, k) ==
  /\ MayUse(t, k) /\ k \notin Cached
  /\ Begin(t, k, "read", NoObject, FALSE)
  /\ UNCHANGED <<cvars, stored, user>>

(* Then the store, into a new object.                                      *)
Read(t) ==
  /\ \/ key[t] \in stored /\ Goto(t, "read", "fill")
        /\ \E o \in Unused : obj' = [obj EXCEPT ![t] = o]
        /\ UNCHANGED <<key, excl>>
     \/ key[t] \notin stored /\ End(t, "read")
  /\ UNCHANGED <<cvars, stored, user>>

(* put(DS_CREATE | DS_EXCL) in the cache is asserted to succeed.           *)
Fill(t) ==
  /\ pc[t] = "fill"
  /\ \/ key[t] \notin Cached
        /\ PutNew(key[t], obj[t]) /\ user' = [user EXCEPT ![key[t]] = t]
        /\ End(t, "fill")
     \/ key[t] \in Cached /\ Abort(t, "fill") /\ UNCHANGED <<cvars, user>>
  /\ UNCHANGED stored

(* get_copy(): as get(), but the object stays in the cache, live, and the  *)
(* caller has a copy.                                                      *)
GetCopy(t, k) ==
  /\ MayUse(t, k) /\ pc[t] = "idle" /\ k \in Cached
  /\ live_' = live_ \cup {k}
  /\ lru_' = Without(k)
  /\ UNCHANGED <<cache_, size_, policy_, tvars>>

-----------------------------------------------------------------------------
(* put() of the object the thread has, or of a new one.                    *)
PutCall(t, k, x) ==
  /\ MayUse(t, k)
  /\ \/ user[k] = t /\ Begin(t, k, "store", cache_[k], x)
     \/ /\ user[k] # t /\ k \notin stored
        /\ \E o \in Unused : Begin(t, k, "store", o, x)
  /\ UNCHANGED <<cvars, stored, user>>

(* The store refuses an absent key without DS_CREATE (create), and one     *)
(* that exists with DS_EXCL.                                               *)
PutInStore(t, create) ==
  LET k == key[t] IN
    /\ excl[t] => create
    /\ \/ k \notin stored /\ create /\ Goto(t, "store", "cache")
          /\ stored' = stored \cup {k} /\ UNCHANGED Args
       \/ k \in stored /\ ~excl[t] /\ Goto(t, "store", "cache")
          /\ UNCHANGED <<stored, Args>>
       \/ (IF k \in stored THEN excl[t] ELSE ~create) /\ End(t, "store")
          /\ UNCHANGED stored
    /\ UNCHANGED <<cvars, user>>

PutInCache(t) ==
  LET k == key[t] IN
    /\ pc[t] = "cache"
    /\ \/ k \notin Cached
          /\ PutNew(k, obj[t]) /\ user' = [user EXCEPT ![k] = t]
          /\ End(t, "cache")
       \/ k \in Cached /\ ~excl[t] /\ cache_[k] = obj[t]
          /\ End(t, "cache") /\ UNCHANGED <<cvars, user>>
       \/ k \in Cached /\ (excl[t] \/ cache_[k] # obj[t])
          /\ Abort(t, "cache") /\ UNCHANGED <<cvars, user>>
    /\ UNCHANGED stored

-----------------------------------------------------------------------------
(* del(): the cache first, which refuses a live object.                    *)
DelCached(t, k) ==
  /\ MayUse(t, k)
  /\ Del(k)
  /\ Begin(t, k, "erase", NoObject, FALSE)
  /\ UNCHANGED <<stored, user>>

DelMiss(t, k) ==
  /\ MayUse(t, k) /\ k \notin Cached
  /\ Begin(t, k, "erase", NoObject, FALSE)
  /\ UNCHANGED <<cvars, stored, user>>

Erase(t) ==
  /\ End(t, "erase")
  /\ stored' = stored \ {key[t]}
  /\ UNCHANGED <<cvars, user>>

(* The user hands its object back to the cache, or takes it out.           *)
ReleaseObject(t, k) ==
  /\ user[k] = t /\ pc[t] = "idle" /\ Release(k)
  /\ user' = [user EXCEPT ![k] = NoThread]
  /\ UNCHANGED <<stored, pc, Args>>

RemoveObject(t, k) ==
  /\ user[k] = t /\ pc[t] = "idle" /\ RemoveKey(k)
  /\ user' = [user EXCEPT ![k] = NoThread]
  /\ UNCHANGED <<stored, pc, Args>>

ReleaseTwice(t, k) ==
  /\ MayUse(t, k) /\ pc[t] = "idle"
  /\ ReleaseAgain(k)
  /\ UNCHANGED tvars

FlushCache == Flush /\ UNCHANGED tvars

Next == FlushCache \/ \E t \in Threads :
  \/ \E k \in Keys : \/ GetCached(t, k) \/ GetMiss(t, k) \/ GetCopy(t, k)
                     \/ \E x \in BOOLEAN : PutCall(t, k, x)
                     \/ DelCached(t, k) \/ DelMiss(t, k)
                     \/ ReleaseObject(t, k) \/ ReleaseTwice(t, k)
                     \/ RemoveObject(t, k)
  \/ Read(t) \/ Fill(t)
  \/ \E create \in BOOLEAN : PutInStore(t, create)
  \/ PutInCache(t) \/ Erase(t)

Spec == Init /\ [][Next]_vars

-----------------------------------------------------------------------------
TypeOK ==
  /\ CacheTypeOK
  /\ stored \subseteq Keys
  /\ user \in [Keys -> Threads \cup {NoThread}]
  /\ pc \in [Threads -> TableLabels]
  /\ key \in [Threads -> Keys \cup {NoKey}]
  /\ obj \in [Threads -> Objects \cup {NoObject}]
  /\ excl \in [Threads -> BOOLEAN]

(* The cache never refuses the object that the store has just accepted or  *)
(* returned: the assertions of get() and put() hold.                       *)
NoAssertFails == \A t \in Threads : pc[t] # "abort"

(* What the cache has, the store has: get() never returns an object that   *)
(* del() has deleted or put() has refused.                                 *)
CachedIsStored == Cached \subseteq stored

(* The object that a thread was given stays in the cache, live, whatever   *)
(* the other threads put, delete and release.               *)
UserHasLiveObject == \A k \in Keys : user[k] # NoThread => k \in live_
=============================================================================
