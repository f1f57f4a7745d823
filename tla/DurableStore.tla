---------------------------- MODULE DurableStore ----------------------------
(***************************************************************************)
(* storage/DurableStore.cc above storage/ODBCStore.cc: transactions that   *)
(* are all on the one connection to the database, every so many of which   *)
(* is closed durably, and the file .ds_clean that says that the store was  *)
(* shut down.  auto_commit_ is off and leave_clean_file_ on.               *)
(*                                                                         *)
(* External: the database.  What a process has not committed is gone when  *)
(* it ends.  BEGIN in a transaction fails in SQLite, says ODBCSQLite.cc,   *)
(* and commits the transaction in MySQL; without one SQLite, set up as     *)
(* that file wants it, commits each statement and MySQL begins one.        *)
(***************************************************************************)
EXTENDS Naturals, FiniteSets

CONSTANTS
  Threads,
  Drivers,    \* of "sqlite" and "mysql"
  Limits,     \* what max_nondurable_transactions_ may be configured to
  Puts,       \* what a transaction puts
  MaxTx,      \* bound: transactions, of all sessions
  Risks       \* what goes on against the advice below

(* "join": threads begin while the transaction of another is open;         *)
(* "reinit": init_ is on though there is a database already;               *)
(* "commit": COMMIT fails.                                                 *)
ASSUME DurableStoreAssumption ==
  /\ Drivers \subseteq {"sqlite", "mysql"}
  /\ Limits \subseteq Nat
  /\ Puts \in Nat \ {0} /\ MaxTx \in Nat
  /\ Risks \subseteq {"join", "reinit", "commit"}

Txs == 1..MaxTx

VARIABLES
  driver,
  session,    \* of the process: "none" before the first, then "down" to "closing"
  cleanFile, clean_shutdown,   \* .ds_clean, and what create_store() has said of it
  store,      \* the DurableStore
  tpc, txn,   \* of each thread: where it is, and its transaction
  begun,      \* transactions so far
  done, wanted,   \* those that were ended, and those that were to be durable
  sqlOpen,    \* BEGIN without COMMIT
  inWork, inDb,   \* the puts of each transaction there are, uncommitted and committed
  lastLost    \* what the session before had ended and lost

storeVars == <<driver, session, cleanFile, clean_shutdown, store, tpc, txn, begun, done,
               wanted, sqlOpen, inWork, inDb, lastLost>>

NewStore(max) == [open_txid_ |-> FALSE, durably_close_next_transaction_ |-> FALSE,
                  num_nondurable_transactions_ |-> 0,
                  max_nondurable_transactions_ |-> max]

Nothing == [x \in Txs |-> 0]
Missing == {x \in done : inDb[x] = 0}

StoreInit ==
  /\ driver \in Drivers
  /\ session = "none"
  /\ cleanFile = FALSE /\ clean_shutdown = FALSE
  /\ store = NewStore(0)
  /\ tpc = [t \in Threads |-> "idle"] /\ txn = [t \in Threads |-> 0]
  /\ begun = 0 /\ done = {} /\ wanted = {}
  /\ sqlOpen = FALSE /\ inWork = Nothing /\ inDb = Nothing
  /\ lastLost = {}

TGoto(t, from, to) == tpc[t] = from /\ tpc' = [tpc EXCEPT ![t] = to]
dbVars == <<sqlOpen, inWork, inDb>>

-----------------------------------------------------------------------------
(* The database.                                                           *)

Commit ==
  /\ inDb' = [x \in Txs |-> inDb[x] + inWork[x]]
  /\ inWork' = Nothing

(* end_transaction() of the implementation: a transaction that need not be *)
(* durable is not committed, and stays open to the database.               *)
impl_end_transaction(be_durable) ==
  \E fails \in IF "commit" \in Risks THEN BOOLEAN ELSE {FALSE} :
    IF be_durable /\ ~fails THEN Commit /\ sqlOpen' = FALSE
    ELSE UNCHANGED dbVars

-----------------------------------------------------------------------------
(* create_store() and ~DurableStore().                                     *)

(* init() of the implementation, then the file.                            *)
create_store(max) ==
  /\ session \in {"none", "down"}
  /\ session' = IF session = "none" THEN "create" ELSE "open"
  /\ store' = NewStore(max)
  /\ UNCHANGED <<driver, cleanFile, clean_shutdown, tpc, txn, begun, done, wanted, dbVars,
                 lastLost>>

CheckCleanFile(init_) ==
  /\ session \in {"create", "open"}
  /\ init_ = (session = "create") \/ "reinit" \in Risks
  /\ clean_shutdown' = (cleanFile \/ init_)
  /\ cleanFile' = FALSE
  /\ session' = "up"
  /\ UNCHANGED <<driver, store, tpc, txn, begun, done, wanted, dbVars, lastLost>>

(* The implementation goes first, and commits; nobody has a transaction.   *)
DeleteImpl ==
  /\ session = "up" /\ session' = "closing"
  /\ \A t \in Threads : tpc[t] = "idle"
  /\ impl_end_transaction(TRUE)
  /\ UNCHANGED <<driver, cleanFile, clean_shutdown, store, tpc, txn, begun, done, wanted,
                 lastLost>>

LeaveCleanFileFirst ==
  /\ \A t \in Threads : tpc[t] = "idle"
  /\ session \in {"up", "closing"} /\ UNCHANGED session
  /\ cleanFile' = TRUE
  /\ UNCHANGED <<driver, clean_shutdown, store, tpc, txn, begun, done, wanted, dbVars, lastLost>>

LeaveCleanFile ==
  /\ session = "closing" /\ UNCHANGED session
  /\ cleanFile' = TRUE
  /\ UNCHANGED <<driver, clean_shutdown, store, tpc, txn, begun, done, wanted, dbVars, lastLost>>

(* The process ends, by itself or not.                                     *)
ProcessEnds ==
  /\ session \notin {"none", "down"} /\ session' = "down"
  /\ lastLost' = Missing /\ done' = done \ Missing
  /\ sqlOpen' = FALSE /\ inWork' = Nothing
  /\ tpc' = [t \in Threads |-> "idle"] /\ txn' = [t \in Threads |-> 0]
  /\ store' = NewStore(0) /\ clean_shutdown' = FALSE
  /\ UNCHANGED <<driver, cleanFile, begun, wanted, inDb>>

-----------------------------------------------------------------------------
(* A transaction.  There is no lock across the parts of a call:            *)
(* transaction_lock_ is commented out.                                     *)

begin_transaction(t) ==
  /\ session = "up"
  /\ begun < MaxTx
  /\ "join" \in Risks \/ \A u \in Threads : tpc[u] = "idle"
  /\ TGoto(t, "idle", IF store.open_txid_ THEN "tx" ELSE "begin")
  /\ begun' = begun + 1
  /\ txn' = [txn EXCEPT ![t] = begun']
  /\ UNCHANGED <<driver, session, cleanFile, clean_shutdown, store, done, wanted, dbVars,
                 lastLost>>

ImplBegin(t) ==
  /\ ~(sqlOpen /\ driver = "sqlite")
  /\ TGoto(t, "begin", "tx")
  /\ IF sqlOpen THEN Commit ELSE UNCHANGED <<inWork, inDb>>
  /\ sqlOpen' = TRUE
  /\ store' = [store EXCEPT !.open_txid_ = TRUE]
  /\ UNCHANGED <<driver, session, cleanFile, clean_shutdown, txn, begun, done, wanted, lastLost>>

(* DS_ERR: the caller goes on, or does without.                            *)
ImplBeginFails(t) ==
  /\ sqlOpen /\ driver = "sqlite"
  /\ \/ TGoto(t, "begin", "tx") /\ UNCHANGED txn
     \/ TGoto(t, "begin", "idle") /\ txn' = [txn EXCEPT ![t] = 0]
  /\ UNCHANGED <<driver, session, cleanFile, clean_shutdown, store, begun, done, wanted, dbVars,
                 lastLost>>

put(t) ==
  LET x == txn[t] IN
  /\ tpc[t] = "tx" /\ UNCHANGED tpc
  /\ inWork[x] + inDb[x] < Puts
  /\ IF sqlOpen \/ driver = "mysql"
     THEN /\ inWork' = [inWork EXCEPT ![x] = @ + 1] /\ sqlOpen' = TRUE /\ UNCHANGED inDb
     ELSE /\ inDb' = [inDb EXCEPT ![x] = @ + 1] /\ UNCHANGED <<inWork, sqlOpen>>
  /\ UNCHANGED <<driver, session, cleanFile, clean_shutdown, store, txn, begun, done, wanted,
                 lastLost>>

make_transaction_durable(t) ==
  /\ tpc[t] = "tx" /\ UNCHANGED tpc
  /\ store' = [store EXCEPT !.durably_close_next_transaction_ = TRUE]
  /\ wanted' = wanted \cup {txn[t]}
  /\ UNCHANGED <<driver, session, cleanFile, clean_shutdown, txn, begun, done, dbVars, lastLost>>

TooManyLate(s) == s.num_nondurable_transactions_ >= s.max_nondurable_transactions_ + 1
TooMany(s)     == s.num_nondurable_transactions_ + 1 > s.max_nondurable_transactions_

end_transaction(t) ==
  /\ TGoto(t, "tx", "end")
  /\ inWork[txn[t]] + inDb[txn[t]] = Puts
  /\ store' = [store EXCEPT !.num_nondurable_transactions_ = @ + 1,
                            !.durably_close_next_transaction_ = @ \/ TooMany(store)]
  /\ UNCHANGED <<driver, session, cleanFile, clean_shutdown, txn, begun, done, wanted, dbVars,
                 lastLost>>

ImplEnd(t) ==
  /\ TGoto(t, "end", "ended")
  /\ impl_end_transaction(store.durably_close_next_transaction_)
  /\ UNCHANGED <<driver, session, cleanFile, clean_shutdown, store, txn, begun, done, wanted,
                 lastLost>>

(* Whatever the implementation has said, the count starts again.           *)
EndReturns(t) ==
  /\ TGoto(t, "ended", "idle")
  /\ store' = IF store.durably_close_next_transaction_
              THEN NewStore(store.max_nondurable_transactions_)
              ELSE [store EXCEPT !.open_txid_ = FALSE]
  /\ done' = done \cup {txn[t]} /\ txn' = [txn EXCEPT ![t] = 0]
  /\ UNCHANGED <<driver, session, cleanFile, clean_shutdown, begun, wanted, dbVars, lastLost>>

StoreNext ==
  \/ \E max \in Limits : create_store(max)
  \/ \E init_ \in BOOLEAN : CheckCleanFile(init_)
  \/ DeleteImpl \/ LeaveCleanFile \/ ProcessEnds
  \/ \E t \in Threads :
       \/ begin_transaction(t) \/ ImplBegin(t) \/ ImplBeginFails(t)
       \/ put(t) \/ make_transaction_durable(t)
       \/ end_transaction(t) \/ ImplEnd(t) \/ EndReturns(t)

StoreSpec == StoreInit /\ [][StoreNext]_storeVars

-----------------------------------------------------------------------------
(* A crash at any time leaves whole transactions, the first so many of     *)
(* those that were ended: at most max_nondurable_transactions_ of the last *)
(* are gone, and none that was to be durable.                              *)
CrashLeavesPrefix ==
  /\ \A x \in Txs : inDb[x] \in {0, Puts}
  /\ Cardinality(Missing) <= store.max_nondurable_transactions_
  /\ \A x \in Missing : x \notin wanted /\ \A y \in done : y > x => y \in Missing

(* create_store() says that the store was shut down cleanly only if the    *)
(* session before has lost nothing.                                        *)
CleanMeansNothingLost == clean_shutdown => lastLost = {}
=============================================================================
