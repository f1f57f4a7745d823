# A TLA+ model of oasys

oasys is a C++ library under the DTN reference implementation: threads, locks,
queues and timers (`thread/`), sockets and servers (`io/`), caches and other
utilities (`util/`), and durable tables over several stores (`storage/`). This
directory models the parts in which several threads, or a program and a crash,
meet. The modules are written from the source, with the source's names.

Contents: 1 the inventory, 2 the modules, 3 the runs, 4 the findings,
5 the proofs, 6 what is assumed, 7 what is not modelled, 8 the plan.

## 1. Inventory

| part | state | operations | meets |
|---|---|---|---|
| SpinLock (`thread/SpinLock.cc`, `Lock.h`) | `lock_count_`, `lock_holder_`, `lock_waiters_`, all unsynchronised | lock, unlock, try_lock, is_locked_by_me | everything below uses it |
| Notifier, MsgQueue (`thread/`) | a pipe, `waiter_`, a deque, `notify_when_empty_` | push, pop_blocking, try_pop, notify, wait, drain_pipe | a producer's notify releases the queue's lock when the pipe is full |
| TimerSystem, TimerThread, OnOffNotifier (`thread/Timer.cc`) | heap of timers, `num_cancelled_`, `signals_`, `sigfired_`, `active_` | schedule, cancel, run_expired_timers, post_signal | callbacks under the lock, a signal handler without it |
| Thread (`thread/Thread.cc`) | `flags_`, `setup_in_progress_`, `all_threads_`, the start barrier | start, thread_run, set_should_stop, join, deletion on exit | the owner and the new thread share the object |
| TCPServerThread (`io/TCPServer.cc`) | a Thread, a listening socket, a Notifier | bind_listen_start, run, stop, the destructor | poll of socket and notifier in `io/IO.cc` |
| DurableObjectCache (`storage/`) | `cache_` map, `lru_` list, `size_`, live flags | get, put, release, del, remove, flush | its lock covers one call |
| DurableTable (`storage/`) | the cache and a table of a store | get, get_copy, put, del | two calls, of cache and store, without a lock across them |
| OpenFdCache (`util/`) | list of descriptors with pin counts | get_and_pin, put_and_pin, unpin, close, sync_all | its lock covers one call |
| FileSystemStore (`storage/`) | one file per key, an OpenFdCache | get, put, del, end_transaction | works on a pinned descriptor outside the cache's lock |
| DurableStore over ODBC (`storage/DurableStore.cc`, `ODBCStore.cc`) | `open_txid_`, counters of transactions, the file `.ds_clean` | create_store, begin_transaction, end_transaction, make_transaction_durable, the destructor | one connection to the database; the transaction lock is commented out; crashes |
| FileBackedObject, FileBackedObjectStore (`storage/`) | a file, `fd_`, `cur_offset_`, `open_count_` | read, write, append, truncate, scopes, replacement, Tx by copy and rename | crashes of the process and of the machine |
| CheckedLog (`storage/`) | a file | write_record, force, read_record | crashes of the machine |
| External data store (`storage/DataStoreProxy.cc`, `DataStoreServer.cc`) | a MsgQueue of requests on their callers' stacks, cookies, a connection | execute, the worker's run, shutdown, serve | callers, the worker and the server |
| SparseBitmap (`util/`) | a vector of ranges | set, clear, queries, iterators | |
| SXLock, LockGroup, Mutex (`thread/`) | counts under another lock | shared and exclusive lock | |
| IO (`io/IO.cc`) | none | rwdata, rwvall, poll, adjust_timeout | timeouts and partial progress |
| TokenBucket, RateLimitedSocket | tokens, time of the last update | drain, update, time_to_level | |
| Cache, Ref, queues, buffers (`util/`) | containers | | |
| serialization, logging, Tcl, SMTP, XML, Bluetooth, AX.25 | text, bindings, sockets | | see section 7 |

What makes each part correct, and what is hard to test:

- *SpinLock*: one holder; the two-read ownership test never errs although
  the fields change one store at a time; waiters get in.
- *MsgQueue*: bytes in the pipe and messages agree, although the byte is
  written first and a full pipe lets others in; no wakeup is lost.
- *Timers*: nothing fires early, late in order, or after being cancelled,
  with callbacks that schedule and cancel, and a clock that goes on meanwhile;
  a signal is handled.
- *Thread, server*: the object is not deleted under whoever still uses it; a
  request to stop ends the thread, whichever update of `flags_` is lost.
- *Caches, tables*: what is in use is not evicted, what is cached is stored,
  the sizes agree; files get what was put, on the right descriptor.
- *Objects in files*: a commit is one step to whoever looks, before and after
  a crash; no call works on a file that was replaced.
- *Transactions, log*: a crash leaves whole transactions and no more missing
  than was asked for, and forced records are read back whatever the tail is.
- *External store*: each caller gets the reply to its own request, nothing
  is used after its caller has returned, nobody waits for nothing.
- *SparseBitmap*: the ranges stand for the set of bits, and so do the answers.

The hazards are listed one by one, with their lines, in `PROJECT.json`.

## 2. Modules

| module | models | notes |
|---|---|---|
| `RecursiveLock` | abstract specification: a lock with an owner and a depth | what a Lock promises |
| `SpinLock` | lock and unlock, a step for each load, store and atomic operation | `Owner` and `held` map to `RecursiveLock` |
| `SpinLockTry` | SpinLock with callers of try_lock | for the run `spinlock_try` only |
| `SpinLockProofs` | theorems about SpinLock | section 5 |
| `MsgQueue` | MsgQueue over Notifier, a bounded pipe | a step is what happens between two points where others can act |
| `MsgQueueProofs` | theorems about MsgQueue | section 5 |
| `TimerSystem` | TimerSystem, TimerThread, OnOffNotifier | heap as a set ordered by time and `seqno`; time in half milliseconds, since the code truncates to whole ones |
| `Thread` | life of a Thread object | no `Next` of its own: run() is left open |
| `TCPServer` | extends Thread with a server's run() and stop() | composes them with other threads |
| `DurableObjectCache` | operations of the cache, one step each under its lock | used by the next |
| `DurableTable` | get, put, del as separate steps of cache and store | extends the cache |
| `OpenFdCache` | operations of the descriptor cache, and the kernel's table of open files | the map's entries as functions from keys (`fd_`, `pin_count_`), the LRU list as the sequence of its keys (`open_fds_`) |
| `FileSystemStore` | get, put, del, end_transaction and restart | extends the descriptor cache |
| `TxObject` | abstract specification: an object with transactions, and what crashes may do to it | what FileBackedObject promises |
| `FileBackedObject` | an object in a file, its transaction, the store's three operations, and the kernel | `dir`, `data` and `disk` map to `TxObject` |
| `DurableStore` | transactions and clean shutdown above ODBC | the database is external, SQLite or MySQL |
| `DataStoreProxy` | execute, the worker, shutdown and the server | MsgQueue's push and try_pop as one step each |
| `CheckedLog` | writer, reader and the file between them | the reader as a function of the file |
| `SparseBitmap` | set and clear beside the set they stand for, queries and iterators as operators | |
| `MCBackends` | a sum of the five above: the variable `part` says which of them a behaviour is of | |
| `TCPServerProofs`, `TimerSystemProofs`, `DurableTableProofs`, `FileSystemStoreProofs`, `DataStoreProofs`, `FoldProofs` | theorems about the modules of their names with those they extend; DataStoreProofs: DataStoreProxy, DurableStore and FileBackedObject; FoldProofs: CheckedLog and SparseBitmap, which fold over vectors | section 5 |
| other `MC*` | values of constants and symmetry for TLC | |

State variables carry the names of the fields; `pc`, `tpc`, `rpc`, `spc` say
where a thread is, and a few history variables (`popped`, `held`, `late`,
`last`, `company`, `bits`, `log`, `done`) record what the properties speak of. Each module's
header says where its steps begin and end. Operators named in a section
"Mutants of the definitions below", or standing just before the definition they
resemble, are the wrong versions of one definition; each property is violated
when its definition is replaced by one of them.

## 3. Runs

`tlc -workers 2 -config <cfg> <module>`; the largest is `filestore`, with about 880,000
states and one to two minutes.

**spinlock** - three threads, nested two deep. MutualExclusion,
NoAssertFails (the ASSERTs of lock and unlock), OwnershipTestIsRight,
ImplementsRecursiveLock, EveryWaiterGetsIn. Three threads are needed for a
stale `lock_holder_` to name a thread other than the one that holds the lock
and the one that reads; two nestings reach every branch of unlock. Deadlock is
checked.

**msgqueue** - two producers, one of which pushes at the front too, two
consumers, a pipe of two bytes, two messages each, so that the pipe fills. The
initial states are the uses that the header allows (`Usage`): one consumer that
blocks, one that drains, or two that poll the descriptor, with or without
notify_when_empty. TypeOK (of which the size of the pipe is a part),
NoPanic, BytesMatchQueue, PerProducerOrder, EveryMessageDelivered.

**timer** - two timers (one DELETE_ON_CANCEL), scheduled at most three times by
others and by callbacks, cancelled, one signal, a clock of four half
milliseconds. NumPendingIsRight, FiresDueInOrder, CancelledNeverFires,
ScheduledFires, MarkedIsHandled.

**server** - a server thread and a thread that deletes itself, held by the
start barrier, room for one in `all_threads_`, two connections, two calls of
stop(). DeletedUnused, ListedOnceWhileRunning, InterruptedMeansStop,
AtMostOneMoreAccepted, HookAfterRun, StopEndsServer.

**table** - four keys, a cache of capacity 2 by bytes or by count (chosen at
Init), small and large objects, two threads. CacheAgrees (LruIsNotLive and
SizeIsSum), OverOnlyByLive, NoAssertFails, CachedIsStored, UserHasLiveObject. Four keys,
because an eviction of two objects for a large one while a fourth is live is
the longest case of put.

**filestore** - two keys, two threads, a descriptor cache of limit 1, so that
one key's call evicts the other's descriptor or finds it pinned; a value of one
block and one of two, so that one is written over the longer other; writes
that fail at once (`ShortWrites`); restarts. Descriptor numbers are the
lowest free ones, as the kernel gives them out, so a closed one is reused
at once. PinsAreUsers, FdIsFile, NoFdLeak, GetReturnsLastPut. Transactions end
without `be_durable` in this run: what is synced concerns only
`filestore_durable`, and would multiply the states by four.

**backends** - five parts in one run, since they share nothing; about 385,000
states, under two minutes.

- *Proxy*: two clients with up to three requests each, so that one asks again while the other waits;
  two threads that the worker may have become; a server that goes away; the
  synchronous calls before the start barrier is released; shutdown. Three
  requests make a reply to an earlier one possible. ReplyIsForRequest,
  NoUseAfterReturn, RequestIsNeverLost, ShutdownIsSeen.
- *Object*: files of up to two cells, one OpenScope of an object at a time (two
  give three million states of this part and the same result), three inodes: the object's,
  the transaction's, and one that a name on disk or a descriptor still holds.
  DescriptorAgrees, and CommitIsAtomic, that the module implements `TxObject`.
- *Store*: two threads, four transactions of two puts over any number of sessions, a limit of 0
  or 2 non-durable transactions, both databases. CrashLeavesPrefix,
  CleanMeansNothingLost.
- *Log*: bytes of four values, so that a length of 4 needs both of its bytes; files of 14 cells
  hold two records or three empty ones; the tail may be cut or be zero from
  any cell on. ForcedIsReadBack.
- *Bitmap*: all 512 sets of nine integers around 0, every set and clear.
  BitmapIsSet, that is StandsForBits, QueriesAgree and IteratorsAgree.

The code keeps these properties for callers who follow certain conventions,
and the constants below drop them one by one. They are empty or FALSE in the
run; TLC refutes the property named when one is given:

| constant | what it lets happen | refuted |
|---|---|---|
| `RacingStart` | a second caller, or shutdown, while the worker starts | RequestIsNeverLost, ShutdownIsSeen |
| `Careless` "append" | other calls at an object during append_bytes | DescriptorAgrees |
| `Careless` "scope" | an OpenScope of the object over a commit | DescriptorAgrees |
| `Careless` "leftover" | INIT_BLANK over the file of a lost transaction (needs four inodes) | CommitIsAtomic |
| `Risks` "join" | two threads in one transaction | CrashLeavesPrefix |
| `Risks` "commit" | COMMIT fails | CrashLeavesPrefix, CleanMeansNothingLost |
| `Risks` "reinit" | init_ over an existing database | CleanMeansNothingLost |
| `AppendsTorn` | a log is continued after a torn record | ForcedIsReadBack |
| `FreshBuffer` | the reader's buffer has no room yet, and the tail is zero | ForcedIsReadBack |
| `Lengths` with 2 | a length with a byte in the upper half of its range, which is negative as a char | ForcedIsReadBack |
| `Splits` | clear() of the inside of a range | BitmapIsSet, each of its parts |
| `Unsigned`, with `Negatives` = 0 | an unsigned integer type | the same |

They are hazards and not findings: no document or test of the repository says
otherwise.

Type invariants: msgqueue checks its TypeOK, and those of SpinLock, MsgQueue,
TimerSystem, TCPServer with Thread, and FileSystemStore with OpenFdCache are proved.

Runs that end in a violation: `spinlock_try`, `timer_signal_lost`,
`table_getters`, `filestore_readers`, `filestore_durable`; see section 4.

`CHECK_DEADLOCK FALSE` is given for msgqueue, timer, server and backends: there
the bounds on messages, time and calls, or the end of all threads, stop the
system.

## 4. Findings

1. `SpinLock::try_lock` reads the result of the compare-exchange the wrong way
   round: on a free lock it takes the lock and reports failure (`spinlock_try`).
2. `TimerSystem::handle_signals` clears `sigfired_` and scans `signals_`, while
   post_signal sets them in the same order: a signal that lands in between is
   not handled, although the comment promises at least once
   (`timer_signal_lost`). MarkedIsHandled in the run `timer` says what does hold.
3. `DurableTable::get` and `put` assert that nobody filled the cache between
   their look at the store and their put in the cache (`table_getters`).
4. Two `FileSystemTable::get` of one key share a descriptor's offset, and one of
   them reads nothing (`filestore_readers`).
5. `FileSystemStore::end_transaction(.., true)` syncs only descriptors still in
   the cache; what was evicted since was closed unsynced (`filestore_durable`).

## 5. Proofs

`tlapm <module>` for each of the eight `*Proofs` modules; all of them together
take some ten minutes. A theorem holds for every value of the constants that
the module's ASSUME allows; a convention of the callers that a theorem needs
besides is its hypothesis, and the run shows the same property under the same
convention.

| module | theorems | hypotheses |
|---|---|---|
| `SpinLockProofs` | SpinLockTypeCorrect, SpinLockExcludes, SpinLockAssertsHold, SpinLockOwnershipTestIsRight, SpinLockCountIsDepth, SpinLockRefines | |
| `MsgQueueProofs` | MsgQueueTypeCorrect, MsgQueueBytesMatch, MsgQueueNeverPanics, MsgQueueKeepsOrder | the uses in `Usage` |
| `TimerSystemProofs` | TimerTypeCorrect, TimerNumPendingIsRight, TimerAssertHolds, TimerCancelledNeverFires, TimerFiresDueInOrder | |
| `TCPServerProofs` | ServerTypeCorrect, ThreadListedOnceWhileRunning, ServerInterruptedMeansStop, ServerAtMostOneMoreAccepted, ServerHookAfterRun | |
| | ThreadDeletedUnused | `OwnersLetGo` |
| `DurableTableProofs` | TableCacheAgrees, TableOverOnlyByLive, TableUserHasLiveObject | |
| | TableNoAssertFails, TableCachedIsStored | `OneUser` |
| `FileSystemStoreProofs` | StoreTypeCorrect, StorePinsAreUsers, StoreFdIsFile, StoreNoFdLeak, StoreGetReturnsLastPut | |
| `DataStoreProofs` | ProxyReplyIsForRequest, ProxyNoUseAfterReturn | |
| | ProxyRequestIsNeverLost, ProxyShutdownIsSeen | `~RacingStart` |
| | StoreCleanMeansNothingLost | no "commit", no "reinit" in `Risks` |
| | StoreCrashLeavesPrefix | no "commit", no "join" in `Risks` |
| | ObjectDescriptorAgrees, ObjectCommitIsAtomic | `Careless = {}` |
| `FoldProofs` | ForcedRecordsAreReadBack | `~AppendsTorn`, `~FreshBuffer`, `Readable(len)` for each of `Lengths`: read back as written |
| | BitmapIsItsSet | `~Unsigned`, `~Splits` |

Each property is a consequence of an inductive invariant, proved with a lemma
per action (`...Keeps...`) and one theorem or lemma (`Always...`) that puts them
together. Why an invariant is needed, and the argument:

*SpinLock.* MutualExclusion is not inductive: a thread
between its compare-exchange and its store of `lock_holder_` has the lock and
does not look like it. `IInv` adds that such a thread counts (`Has`), that
`lock_count_` is positive exactly when somebody has the lock, that
`lock_holder_` never names a thread without it, and that a value loaded for a
plain `++` or `--` is still current when stored (`AtLabel`). The proof that a
step preserves it has a case per label. The refinement proof uses that `Owner`,
defined by a CHOOSE, is the thread that has the lock (`OwnerHas`).

*MsgQueue.* BytesMatchQueue speaks of the states in which the lock is free.
`IInv` adds who has the lock at which label, and for each label under the lock
by how much pipe and deque differ there: after notify the pipe is one ahead, at
"take" one behind; a consumer that goes to wait leaves both empty; a consumer
that woke finds a byte. For the order of messages, `OrderInv` says that what was
popped, and after it the deque, is in order for the producers that push only at
the back (`ToBack`), and that no number there exceeds the last one its producer
put on the deque; each step leaves the two sequences, adds one message, or takes
the first (`StepKinds`). push_front breaks the order on purpose.

*Timers.* `num_cancelled_` is the number of timers on the heap that are marked,
so that the subtraction is right and the assertion in pop_timer holds. The
timers on the heap have sequence numbers of their own, so that the order of
TimerCompare has one first timer, `Top`; a step fires no other (`OnlyTopFires`).

*Thread, server.* For each thread, what its owner's and its own label say of
each other and of `flags_` and `setup_in_progress_` (`Life`): the wait in
thread_run keeps the object until the owner is through with start(), and join
keeps it afterwards. Nothing clears DELETE_ON_EXIT of a joinable thread: the
constructor takes it out of its argument after it has copied it
(`Thread.cc:105`), hence `OwnersLetGo`, that nobody joins a thread that deletes
itself. The server's part says which labels of stop() imply SHOULD_STOP, the
byte in the notifier and the end of run().

*Cache, table.* The LRU list has no key twice and is what is cached and not
live, with one key out of place between the halves of an operation. `size_` is
a sum over a set, defined by a fold: two sums are equal, or one is less by an
element, because a least set for which they were not would have an element to
take away. CacheAgrees, OverOnlyByLive and UserHasLiveObject need no convention. With
one user at a time, `Alone` and `Found` say that between a look at the store and
the put in the cache nobody else has the key, so that what was found is still so.

*File store.* `FdInv`: a thread that works with a descriptor has the one in the
cache's entry for its key, the pins of the entry are those threads in number,
entries and threads that have just opened a file have descriptors of their own,
and del() has its key to itself. So an entry with no pins has no users, and
what evict and close() take is nobody's. `GetInv`, on top of it: files of different
keys differ, and a thread that is alone at its key finds offset and buffer as it
left them, for only threads at a key move its descriptor or change its file.
The loops of evict are in the model as the set of keys that go; that this set is the
first of the LRU list is checked and not needed for the proof.

*Proxy.* Cookies grow, so those on the connection and in `pending` differ, and
each names a client and what it asked (`CookieInv`, `AtClient`, `AtWorker`,
`QueueInv`). The two theorems about lost requests and shutdown need a second
layer, `LInv`: there is one worker at a time (`StartInv`), a client that waits is
at one place of its way, queued, pending or being told (`SomewhereInv`), and the
pipe has at least a byte for each message in the queue, and one more once
shutdown has notified (`StopInv`).

*Store.* `BaseInv` says what transactions a thread may have, and that what was
ended is with the database (`DoneIsThere`). `CleanInv`: `.ds_clean` is there only
from the destructor's commit until the next session has looked, and then nothing
is lost. `WholeInv`: each transaction is there whole or not at all, the missing
ones are the last (`MissingAreLast`), and `Counted` bounds them by the
transactions ended since the last commit.

*Objects in files.* `FileInv`: the names, descriptors and inodes that may be in
each phase of replacement, transaction and append (`NamesInv`, `DescriptorInv`,
`AppendInv`, `CopyInv`). ObjectCommitIsAtomic maps each of about thirty steps to
one of `TxObject` or to none: the rename is the commit, and writes to the copy are
writes to the transaction; a crash is a crash, with `disk` giving what it may leave.

*Log.* `LogInv`: there are offsets `pos` at which the records of the log stand one
after another, each as its mark, checksum, length and data (`Placed`, `Stored`);
below `whole` the file is as it was written, and above it, after a crash, zero.
What was forced ends at or below `onDisk`, and no crash cuts or zeroes a cell
there. A record that is whole is read as what it is (`Readable`); one that is cut is
refused for its size; one whose tail is zero either is the record that was written
or has a checksum that is not that of its data, for two strings of cells with the
checksum in common are the same. The checksum is a fold and the reader
a recursive function, of which no induction is to be had: that such a function exists, and
that what holds at the end of a file and is handed down from each record to the one before
holds at all, come from a least number for which they would fail (`LeastNat`).

*Bitmap.* `BitmapInv`: the vector is in order, each range ending at least two
before the next begins, and an integer is in `bits` when a range covers it. What
set() does is followed along its two folds: after some entries on the right the
first so many are in the entry at hand and the others are the rest (`RightSoFar`),
and the same on the left, from the last one down (`LeftSoFar`); `CompactedIs` puts
the parts together, and `WithSetIs` adds where set() stops. clear() concatenates
what it leaves of each entry, and `ClearedSoFar` follows the concatenation. A range
of bits that are set is in one entry because the bit behind an entry is in none
(`BehindIsClear`), which is what is_set() and num_contiguous() rely on. For
the iterators, a place in the vector has a rank, the number of bits before it
(`Rank`, `Counts`); ranks go from 0 to the number of bits and differ (`RanksDiffer`), a step
changes the rank by one and a leap over the rest of an entry by as many steps as it
stands for (`LeapForward`, `LeapBack`), so that where single steps and leaps lead is
settled by the rank. The folds and loops are again recursive functions whose
existence has to be shown (`FoldExists`, `FoldDownExists`, `FlatSteps`); for the
iterators the function from ranks to places is one (`PlaceOf`).

Only model-checked: all liveness properties (EveryWaiterGetsIn,
EveryMessageDelivered, ScheduledFires, MarkedIsHandled, StopEndsServer), which
the provers do not reach. The properties that the violation
runs refute are of course not theorems.

## 6. What is assumed

*Memory.* Sequential consistency. On x86 the order of stores is kept, and
the lock's atomic operations are full fences.

*Fairness.* The operating system runs every thread: weak fairness of each
thread's steps. Nothing makes callers call: LockCall, Schedule, Cancel,
Post and Connect are not fair, nor are errors of poll. A consumer of
a MsgQueue competes for the lock with producers, and a spin lock is not
fair: EveryMessageDelivered assumes strong fairness of consumers, that
is, that a thread which finds the lock free again and again takes it some
day; EveryWaiterGetsIn, of the lock itself, claims no more than weak fairness
gives, that a waiter gets in once the others stop asking. The clock ticks and
a signal handler that has begun goes on.

*Conventions of the callers*, each named where it is used: a timer that is
pending is not scheduled again (the code panics) nor cancelled twice; stop() is
called once run() has begun, since thread_run clears an earlier request; a
table's object has one user at a time (`OneUser`); a del() has its key in the
file store to itself; and those that section 3 lists for `backends`. The hazards
say what happens outside them.

*Real time.* Notifier::notify and start() give up and panic after several
hundred retries with sleeps; the models retry for ever. stop() gives up after
a while, at any point of the model.

*Files.* Directory changes are durable at once, open fails only for a missing
or existing file, a file that was written since its last fsync survives a
crash as it is or is lost. Blocks past the longest value are left out, since
nothing reads them. FileBackedObject has its own, finer file system: names and
cells reach the disk in any order and at any time, rename and create are atomic,
and cells that were not synced may be anything after a crash of the machine;
so commit(), whose fsync finds the descriptor closed unless there is an
OpenScope, promises no more than `TxObject` says. CheckedLog's file is cut or
zero from some cell on after a crash, never shuffled, and its checksum tells any two
records apart.

*Databases.* What is not committed is gone when the process ends; BEGIN in a
transaction fails in SQLite and commits in MySQL. With SQLite an end of a transaction that is not
durable leaves it open, so that the next begin_transaction fails, and a caller that
goes on regardless is in the old one; both are in the model. A caller
that gives up instead never lets the count reach its limit, and the store accepts no
transaction any more: nothing in the code bounds that, and no property does.

*The connection* of the external store is reliable and in order until the server goes.

## 7. Not modelled

Bindings to libraries (Berkeley DB, the SQL of ODBC tables, Tcl, XML parsers,
Bluetooth, AX.25); generated code (`storage/DS.cc`, `DS.h`), vendored code
(`ext/`, `debug/vfprintf.c`, `util/md5-rsa.c`) and build files, which together
are most of the repository's lines; conversions without state (`serialize/`,
text utilities); wrappers of system calls; logging. Of the modelled parts:
LockDebugger, signals sent with Thread::kill, iterators, size() and the creation
of tables, the file store without a descriptor cache. The components in
`PROJECT.json` give the reason for each.

Hazards met on the way that no property covers:

- SXLock's exclusive_lock waits only while there is a writer and a reader
  (`SXLock.h:70`); it has no user.
- A timer cancelled twice while it is on the heap is counted twice
  (`Timer.cc:137`); post_signal takes a spin lock in a signal handler
  (`Timer.cc:161`); Timer.cc:313 polls a notifier that stays active after the
  first signal.
- STOPPED is set before thread_run is through with the object
  (`Thread.cc:370`), so an owner must join and not poll the flag.
- After notify_when_empty one byte stands for the queue; a consumer that mixes
  pop_blocking and try_pop may drain it while messages remain
  (`MsgQueue.tcc:106`).
- put() of a new object panics or not, depending on whether the old one was
  evicted (`DurableTable.tcc:140`).
- adjust_timeout takes the same elapsed time off again after each partial read
  or write (`IO.cc:1029`); rwvall reports an error or end of file and not what
  it had read before (`IO.cc:994-1002`).
- TokenBucket::drain asserts a level that an earlier unconditional drain may
  have made negative (`TokenBucket.cc:91`).
- The proxy's worker stops with requests still in its queue, although
  ~DataStoreProxy is said to "block and wait for the queue to flush"
  (`DataStoreProxy.cc:54-55`); shutdown() hangs if the worker was never started or
  waits for a server that has gone; a synchronous call uses the null reply of a closed connection
  (`DataStoreProxy.cc:420`).

## 8. Plan

Order of work, most important behaviour first. Done, models: SpinLock, MsgQueue,
TimerSystem, Thread with TCPServer, DurableObjectCache with DurableTable,
OpenFdCache with FileSystemStore, FileBackedObject against TxObject, DurableStore
over ODBC, DataStoreProxy, CheckedLog, SparseBitmap. Done, proofs: every safety
property of every run and both refinements.

Next, proofs:
1. TypeOK of the modules that state one and have no theorem for it yet.
2. Action properties that say what a step may not do: pins, `committed` data, cookies.

Models worth adding if the code they are of comes into use: SXLock, the timeouts
of IO, `util/Cache.h`, TokenBucket.
