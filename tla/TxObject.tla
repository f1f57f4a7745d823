------------------------------ MODULE TxObject ------------------------------
(***************************************************************************)
(* What storage/FileBackedObject.h promises of an object and its           *)
(* transactions: commit replaces the value by the transaction's in one     *)
(* step, a crash of the process changes no value, and a crash of the       *)
(* machine brings back a whole value, unless the one it was to bring back  *)
(* was never synced.                                                       *)
(***************************************************************************)
CONSTANTS
  Contents,
  Absent,   \* there is no object, or no transaction
  Unknown   \* what a crash of the machine leaves may be anything

VARIABLES
  value, synced,      \* the object, and whether its value has been synced
  work, workSynced,   \* the transaction's copy
  stable              \* what a crash of the machine would leave

vars == <<value, synced, work, workSynced, stable>>

Values == Contents \cup {Absent}

Init ==
  /\ value = Absent /\ work = Absent /\ stable = Absent
  /\ synced = TRUE /\ workSynced = TRUE

(* The object is created, replaced, deleted or changed in place, but not   *)
(* under a transaction; it is no promise to anybody until it is synced.    *)
Change ==
  /\ work = Absent
  /\ value' \in Values
  /\ synced' = (value' = Absent)
  /\ stable' \in {stable, Unknown}
  /\ UNCHANGED <<work, workSynced>>

Sync ==
  /\ synced' = TRUE
  /\ stable' \in {stable, value}
  /\ UNCHANGED <<value, work, workSynced>>

Begin ==
  /\ work = Absent
  /\ value # Absent
  /\ \E blank \in BOOLEAN : work' = IF blank THEN <<>> ELSE value
  /\ workSynced' \in BOOLEAN
  /\ UNCHANGED <<value, synced, stable>>

ChangeWork ==
  /\ work # Absent
  /\ work' \in Contents
  /\ workSynced' = FALSE
  /\ UNCHANGED <<value, synced, stable>>

SyncWork ==
  /\ workSynced' = TRUE
  /\ UNCHANGED <<value, synced, work, stable>>

Commit ==
  /\ work # Absent
  /\ value' = work /\ synced' = workSynced
  /\ work' = Absent /\ workSynced' = TRUE
  /\ UNCHANGED stable

(* The transaction is aborted, or its process crashes.                     *)
Discard ==
  /\ work' = Absent /\ workSynced' = TRUE
  /\ UNCHANGED <<value, synced, stable>>

(* The kernel writes back the name of the object, or a value that nobody   *)
(* synced and that is no longer the object's.                              *)
Settle ==
  /\ \/ stable' = IF synced THEN value ELSE Unknown
     \/ stable = Unknown /\ stable' \in Contents
  /\ UNCHANGED <<value, synced, work, workSynced>>

MachineCrash ==
  /\ IF stable = Unknown THEN value' \in Contents ELSE value' = stable
  /\ stable' = value' /\ synced' = TRUE
  /\ work' = Absent /\ workSynced' = TRUE

Next ==
  \/ Change \/ Sync
  \/ Begin \/ ChangeWork \/ SyncWork \/ Commit \/ Discard
  \/ Settle \/ MachineCrash

Spec == Init /\ [][Next]_vars
=============================================================================
