----------------------------- MODULE MCBackends -----------------------------
(***************************************************************************)
(* Parts that share nothing: the external data store behind its proxy,     *)
(* objects in files of their own, the transactions of a store, the checked *)
(* log and the sparse bitmap.  A behaviour is one of one of them.          *)
(***************************************************************************)
EXTENDS DataStoreProxy, FileBackedObject, DurableStore, CheckedLog, SparseBitmap,
        TLC

VARIABLE part

vars == <<part, proxyVars, objectVars, storeVars, logVars, bitmapVars>>

Init ==
  /\ ProxyInit /\ ObjectInit /\ StoreInit /\ LogInit /\ BitmapInit
  /\ part \in {"proxy", "object", "store", "log", "bitmap"}
  /\ part # "store" => driver = "sqlite"

Next ==
  /\ UNCHANGED part
  /\ \/ /\ part = "proxy" /\ ProxyNext
        /\ UNCHANGED <<objectVars, storeVars, logVars, bitmapVars>>
     \/ /\ part = "object" /\ ObjectNext
        /\ UNCHANGED <<proxyVars, storeVars, logVars, bitmapVars>>
     \/ /\ part = "store" /\ StoreNext
        /\ UNCHANGED <<proxyVars, objectVars, logVars, bitmapVars>>
     \/ /\ part = "log" /\ LogNext
        /\ UNCHANGED <<proxyVars, objectVars, storeVars, bitmapVars>>
     \/ /\ part = "bitmap" /\ BitmapNext
        /\ UNCHANGED <<proxyVars, objectVars, storeVars, logVars>>

Spec == Init /\ [][Next]_vars

Symmetry == Permutations(Inodes) \cup Permutations(Workers) \cup Permutations(Threads)
=============================================================================
