-------------------------- MODULE FileBackedObject --------------------------
(***************************************************************************)
(* storage/FileBackedObject.cc and FileBackedObjectStore.cc: an object     *)
(* that is a file, and transactions that work on a copy of it, the file    *)
(* ".tx", which commit() renames over the object's.  An object opens its   *)
(* file for every operation, or keeps it open while there is an OpenScope, *)
(* and keeps the descriptor's offset in cur_offset_ to save seeks.  One    *)
(* process has a handle of the object, whose operations hold its lock_,    *)
(* and at most one transaction.                                            *)
(*                                                                         *)
(* External: the directory, the files, of which a cell is what one call    *)
(* reads or writes, and what a crash of the machine leaves of them.        *)
(***************************************************************************)
EXTENDS Integers, Sequences, FiniteSets

CONSTANTS
  Bytes,
  MaxSize,     \* bound: cells of a file
  MaxScopes,   \* bound: OpenScopes of an object at a time
  Inodes,      \* bound: files at a time, named, on disk or open
  NoInode,     \* no file, or not open
  NoObject,
  Careless     \* what the application does against the advice below

Hole    == 0
Objects == {"main", "tx"}
Contents == UNION {[1..n -> Bytes \cup {Hole}] : n \in 0..MaxSize}

(* "append": other calls at an object while append_bytes() is at it;       *)
(* "scope": an OpenScope of the object while a transaction commits;        *)
(* "leftover": INIT_BLANK while the file of a lost transaction is there.   *)
Uses == {"append", "scope", "leftover"}

(* The fields of a FileBackedObject, and the offset of its descriptor.     *)
FileObjects == [fd : Inodes \cup {NoInode}, offset : Int, cur_offset_ : Int, open_count_ : Nat]

ASSUME FileBackedObjectAssumption ==
  /\ MaxSize \in Nat \ {0} /\ MaxScopes \in Nat
  /\ Hole \notin Bytes
  /\ NoInode \notin Inodes \cup Contents
  /\ NoObject \notin FileObjects \cup Contents \cup {NoInode}
  /\ Careless \subseteq Uses

VARIABLES
  dir,      \* the inode that the file of each object has, or NoInode
  data,     \* the cells of each inode
  disk,     \* dir["main"] on disk
  dirty,    \* inodes whose cells are not on disk as they are
  object,   \* each FileBackedObject: fd_, offset of fd_, cur_offset_, open_count_
  call,     \* append_bytes() or replace_with_file() under way
  txpc      \* where the transaction is

objectVars == <<dir, data, disk, dirty, object, call, txpc>>

Committing == txpc \in {"synced", "renamed"}
NoCall == [pc |-> "none"]
Calling(o) == call # NoCall /\ call.o = o
NewObject == [fd |-> NoInode, offset |-> 0, cur_offset_ |-> 0, open_count_ |-> 0]

ObjectInit ==
  /\ dir = [o \in Objects |-> NoInode]
  /\ data = [i \in Inodes |-> <<>>]
  /\ disk = NoInode /\ dirty = {}
  /\ object = [o \in Objects |-> NoObject]
  /\ call = NoCall
  /\ txpc = "none"

-----------------------------------------------------------------------------
(* The kernel.                                                             *)

(* An inode that neither a name nor a descriptor has.                      *)
InUse == {dir[o] : o \in Objects} \cup {disk}
           \cup {object[o].fd : o \in {p \in Objects : object[p] # NoObject}}
SetData(i, cells) == data' = [data EXCEPT ![i] = cells] /\ dirty' = dirty \cup {i}

Unused == Inodes \ InUse

(* open(O_CREAT | O_EXCL) of a name that is not there.                     *)
Create(o, cells) ==
  /\ dir[o] = NoInode
  /\ \E i \in Unused : dir' = [dir EXCEPT ![o] = i] /\ SetData(i, cells)

Cell(cells, n)        == IF n <= Len(cells) THEN cells[n] ELSE Hole
Longer(a, b)          == IF a > b THEN a ELSE b
Written(cells, at, b) == [n \in 1..Longer(at + 1, Len(cells)) |->
                            IF n = at + 1 THEN b ELSE Cell(cells, n)]
Truncated(cells, size) == [n \in 1..size |-> Cell(cells, n)]

(* Names or descriptors have gone, and with the last the inode.            *)
FreeUnused ==
  /\ data' = [i \in Inodes |-> IF i \in InUse' THEN data[i] ELSE <<>>]
  /\ dirty' = dirty \cap InUse'

-----------------------------------------------------------------------------
(* A FileBackedObject.  The operators take and give the state of one.      *)

Opened(o, s) == IF s.fd = NoInode
                THEN [s EXCEPT !.fd = dir[o], !.offset = 0, !.cur_offset_ = 0]
                ELSE s

(* What a closed object has left in cur_offset_ is never read.             *)
AsClosed(s) == [s EXCEPT !.fd = NoInode, !.offset = 0, !.cur_offset_ = 0]
Closed(s)   == IF s.open_count_ > 0 THEN s ELSE AsClosed(s)

(* lseek to where a call wants to be, unless cur_offset_ says that the     *)
(* descriptor is there.  An offset of -1, which is that of a failed lseek, *)
(* passes the assertion and leaves the descriptor where it was.            *)
Sought(s, at) ==
  IF s.cur_offset_ = at THEN s
  ELSE [s EXCEPT !.cur_offset_ = at, !.offset = IF at = -1 THEN @ ELSE at]

Moved(s, cc) == [s EXCEPT !.offset = @ + cc, !.cur_offset_ = @ + cc]

SetObject(o, s) == object' = [object EXCEPT ![o] = s]

(* An object that a call may be made on: the original is left alone while  *)
(* a transaction copies it, and nothing else is done to an object while    *)
(* append_bytes() is at it, which holds no lock.                           *)
Usable(o) ==
  /\ object[o] # NoObject
  /\ o = "tx" => txpc = "active"
  /\ Calling(o) => call.pc # "link" /\ "append" \in Careless

(* Changes to the object while there is a transaction are to go through    *)
(* the transaction.                                                        *)
Writable(o) == Usable(o) /\ (o = "main" => txpc = "none")

read_bytes(o, at) ==
  /\ Usable(o)
  /\ LET s  == Sought(Opened(o, object[o]), at)
         cc == IF s.offset < Len(data[s.fd]) THEN 1 ELSE 0
     IN SetObject(o, Closed(Moved(s, cc)))
  /\ UNCHANGED <<dir, data, disk, dirty, call, txpc>>

WriteAt(o, at, b) ==
  LET s == Sought(Opened(o, object[o]), at)
  IN /\ SetObject(o, Closed(Moved(s, 1)))
     /\ SetData(s.fd, Written(data[s.fd], s.offset, b))

write_bytes(o, at, b) ==
  /\ Writable(o)
  /\ WriteAt(o, at, b)
  /\ UNCHANGED <<dir, disk, call, txpc>>

(* append_bytes() looks for the end of the file without the lock and only  *)
(* write_bytes(), which it ends with, takes it.                            *)
AppendOpen(o) ==
  /\ call = NoCall
  /\ Writable(o)
  /\ Len(data[dir[o]]) < MaxSize
  /\ SetObject(o, Opened(o, object[o]))
  /\ call' = [pc |-> "seek", o |-> o, off |-> 0]
  /\ UNCHANGED <<dir, data, disk, dirty, txpc>>

AppendSeek ==
  /\ call.pc = "seek"
  /\ LET s   == object[call.o]
         end == Len(data[dir[call.o]])
         off == IF s.fd # NoInode THEN Len(data[s.fd]) ELSE IF end = 0 THEN 0 ELSE -1
     IN /\ call' = [call EXCEPT !.pc = "set", !.off = off]
        /\ IF s.fd = NoInode THEN UNCHANGED object
           ELSE SetObject(call.o, [s EXCEPT !.offset = off])
  /\ UNCHANGED <<dir, data, disk, dirty, txpc>>

AppendSet ==
  /\ call.pc = "set"
  /\ object' = [object EXCEPT ![call.o].cur_offset_ = call.off]
  /\ call' = [call EXCEPT !.pc = "write"]
  /\ UNCHANGED <<dir, data, disk, dirty, txpc>>

AppendWrite(b) ==
  /\ call.pc = "write"
  /\ call.off < MaxSize
  /\ WriteAt(call.o, call.off, b)
  /\ call' = NoCall
  /\ UNCHANGED <<dir, disk, txpc>>

(* A record of one cell goes to the end of the file, under the lock; a     *)
(* longer one is more of the same write_bytes().                           *)
serialize(o, b) ==
  /\ Writable(o)
  /\ Len(data[dir[o]]) < MaxSize
  /\ WriteAt(o, Len(data[dir[o]]), b)
  /\ UNCHANGED <<dir, disk, call, txpc>>

truncate(o, size) ==
  /\ Writable(o)
  /\ LET s == Opened(o, object[o])
     IN /\ SetObject(o, Closed(s))
        /\ SetData(s.fd, Truncated(data[s.fd], size))
  /\ UNCHANGED <<dir, disk, call, txpc>>

(* On a closed object this is fdatasync(-1).                               *)
fsync_data(o) ==
  /\ Usable(o)
  /\ dirty' = dirty \ {object[o].fd}
  /\ UNCHANGED <<dir, data, disk, object, call, txpc>>

set_flags(o) ==
  /\ Usable(o)
  /\ SetObject(o, Closed(object[o]))
  /\ UNCHANGED <<dir, data, disk, dirty, call, txpc>>

OpenScope(o) ==
  /\ Usable(o)
  /\ object[o].open_count_ < MaxScopes
  /\ Committing => o = "tx" \/ "scope" \in Careless
  /\ SetObject(o, Opened(o, [object[o] EXCEPT !.open_count_ = @ + 1]))
  /\ UNCHANGED <<dir, data, disk, dirty, call, txpc>>

EndOpenScope(o) ==
  /\ Usable(o)
  /\ object[o].open_count_ > 0
  /\ SetObject(o, Closed([object[o] EXCEPT !.open_count_ = @ - 1]))
  /\ UNCHANGED <<dir, data, disk, dirty, call, txpc>>

(* replace_with_file() unlinks the object's file, which closes it whatever *)
(* its open_count_, and links or copies the other.                         *)
ReplaceUnlink ==
  /\ call = NoCall
  /\ Writable("main")
  /\ SetObject("main", AsClosed(object["main"]))
  /\ dir' = [dir EXCEPT !["main"] = NoInode]
  /\ call' = [pc |-> "link", o |-> "main"]
  /\ UNCHANGED <<disk, txpc>>
  /\ FreeUnused

ReplaceLink(cells) ==
  /\ call.pc = "link"
  /\ Create("main", cells)
  /\ call' = NoCall
  /\ UNCHANGED <<disk, object, txpc>>

(* The object has lost its name for good, and its owner deletes it.        *)
ReplaceFails ==
  /\ call.pc = "link"
  /\ SetObject("main", NoObject)
  /\ call' = NoCall
  /\ UNCHANGED <<dir, data, disk, dirty, txpc>>

-----------------------------------------------------------------------------
(* The FileBackedObjectStore.                                              *)

new_object ==
  /\ object["main"] = NoObject
  /\ Create("main", <<>>)
  /\ UNCHANGED <<disk, object, call, txpc>>

get_handle ==
  /\ object["main"] = NoObject
  /\ dir["main"] # NoInode
  /\ SetObject("main", NewObject)
  /\ UNCHANGED <<dir, data, disk, dirty, call, txpc>>

(* The application deletes objects that nobody has a handle of, the file   *)
(* that a lost transaction left among them.                                *)
del_object(o) ==
  /\ object[o] = NoObject
  /\ dir[o] # NoInode
  /\ txpc = "none"
  /\ dir' = [dir EXCEPT ![o] = NoInode]
  /\ UNCHANGED <<disk, object, call, txpc>>
  /\ FreeUnused

-----------------------------------------------------------------------------
(* A transaction.                                                          *)

(* With INIT_BLANK the file is created, and one that is there is taken as  *)
(* it is.                                                                  *)
TxBlank ==
  /\ txpc = "none" /\ call = NoCall
  /\ object["main"] # NoObject
  /\ dir["tx"] # NoInode => "leftover" \in Careless
  /\ IF dir["tx"] = NoInode THEN Create("tx", <<>>) ELSE UNCHANGED <<dir, data, dirty>>
  /\ SetObject("tx", NewObject)
  /\ txpc' = "active"
  /\ UNCHANGED <<disk, call>>

(* Without it the file is created empty and then filled.                   *)
TxCopy ==
  /\ txpc = "none" /\ call = NoCall
  /\ object["main"] # NoObject
  /\ Create("tx", <<>>)
  /\ txpc' = "copy"
  /\ UNCHANGED <<disk, object, call>>

CopyMore ==
  /\ txpc = "copy"
  /\ LET have == data[dir["tx"]]
         all  == data[dir["main"]]
     IN IF Len(have) < Len(all)
        THEN /\ SetData(dir["tx"], Append(have, all[Len(have) + 1]))
             /\ UNCHANGED <<object, txpc>>
        ELSE /\ SetObject("tx", NewObject)
             /\ txpc' = "active"
             /\ UNCHANGED <<data, dirty>>
  /\ UNCHANGED <<dir, disk, call>>

(* commit(), called or left to ~Tx(): fsync_data() of the transaction's    *)
(* object, rename, reload() of the original.  An OpenScope of the          *)
(* transaction's object must have ended, for commit() deletes that.        *)
TxSync ==
  /\ Usable("tx") /\ ~Calling("tx")
  /\ object["tx"].open_count_ = 0
  /\ object["main"].open_count_ = 0 \/ "scope" \in Careless
  /\ dirty' = dirty \ {object["tx"].fd}
  /\ txpc' = "synced"
  /\ UNCHANGED <<dir, data, disk, object, call>>

TxUnlinkThenRename ==
  /\ txpc = "synced"
  /\ IF dir["main"] # NoInode
     THEN dir' = [dir EXCEPT !["main"] = NoInode] /\ UNCHANGED txpc
     ELSE dir' = [main |-> dir["tx"], tx |-> NoInode] /\ txpc' = "renamed"
  /\ UNCHANGED <<disk, object, call>>
  /\ FreeUnused

TxRename ==
  /\ txpc = "synced"
  /\ dir' = [main |-> dir["tx"], tx |-> NoInode]
  /\ txpc' = "renamed"
  /\ UNCHANGED <<disk, object, call>>
  /\ FreeUnused

ReloadedUnclosed(s) == Opened("main", s)

Reloaded(s) == Opened("main", Closed(s))

TxReload ==
  /\ txpc = "renamed"
  /\ object' = [main |-> Reloaded(object["main"]), tx |-> NoObject]
  /\ txpc' = "none"
  /\ UNCHANGED <<dir, disk, call>>
  /\ FreeUnused

TxAbort ==
  /\ Usable("tx") /\ ~Calling("tx")
  /\ object["tx"].open_count_ = 0
  /\ dir' = [dir EXCEPT !["tx"] = NoInode]
  /\ SetObject("tx", NoObject)
  /\ txpc' = "none"
  /\ UNCHANGED <<disk, call>>
  /\ FreeUnused

-----------------------------------------------------------------------------
(* The process ends: by itself, or because start_tx() finds the file of a  *)
(* lost transaction and its assertion fails.                               *)
NoProcess ==
  /\ object' = [o \in Objects |-> NoObject]
  /\ call' = NoCall
  /\ txpc' = "none"

ProcessCrash ==
  /\ object["main"] # NoObject
  /\ NoProcess
  /\ UNCHANGED <<dir, disk>>
  /\ FreeUnused

(* Directory changes and cells reach the disk when the kernel likes.       *)
WriteName ==
  /\ disk' = dir["main"]
  /\ UNCHANGED <<dir, object, call, txpc>>
  /\ FreeUnused

WriteCells(i) ==
  /\ i \in dirty
  /\ dirty' = dirty \ {i}
  /\ UNCHANGED <<dir, data, disk, object, call, txpc>>

(* The object's cells are any if they were not on disk; a transaction's    *)
(* file is there, with nothing in it, or not.                              *)
MachineCrash ==
  /\ NoProcess
  /\ UNCHANGED disk
  /\ \E left \in {NoInode} \cup (Inodes \ {disk}) :
       dir' = [main |-> disk, tx |-> left]
  /\ \E cells \in IF disk \in dirty THEN Contents ELSE {<<>>} :
       data' = [i \in Inodes |-> IF i # disk THEN <<>>
                                ELSE IF i \in dirty THEN cells ELSE data[i]]
  /\ dirty' = {}

ObjectNext ==
  \/ \E o \in Objects :
       \/ \E at \in 0..MaxSize - 1 :
            read_bytes(o, at) \/ \E b \in Bytes : write_bytes(o, at, b)
       \/ \E b \in Bytes : serialize(o, b)
       \/ AppendOpen(o) \/ fsync_data(o) \/ set_flags(o)
       \/ \E size \in 0..MaxSize : truncate(o, size)
       \/ OpenScope(o) \/ EndOpenScope(o)
       \/ del_object(o)
  \/ AppendSeek \/ AppendSet \/ \E b \in Bytes : AppendWrite(b)
  \/ ReplaceUnlink \/ ReplaceFails \/ \E cells \in Contents : ReplaceLink(cells)
  \/ new_object \/ get_handle
  \/ TxBlank \/ TxCopy \/ CopyMore
  \/ TxSync \/ TxRename \/ TxReload \/ TxAbort
  \/ ProcessCrash \/ WriteName \/ (\E i \in Inodes : WriteCells(i)) \/ MachineCrash

ObjectSpec == ObjectInit /\ [][ObjectNext]_objectVars

-----------------------------------------------------------------------------
(* An open object has a descriptor of its file as it is now, and           *)
(* cur_offset_ is where the descriptor is: no call reads or writes a file  *)
(* that a commit or a replacement has done away with, or the wrong cell.   *)
(* append_bytes() and commit() are excepted while they are under way.      *)
DescriptorAgrees ==
  \A o \in Objects :
    object[o] # NoObject /\ object[o].fd # NoInode /\ ~Calling(o) /\ txpc # "renamed" =>
      /\ object[o].fd = dir[o]
      /\ object[o].offset = object[o].cur_offset_

(* Commit is one step to everybody who looks at the object's file, crashes *)
(* of the process and of the machine included.                             *)
InTx == txpc \in {"active", "synced"}

Abstract == INSTANCE TxObject WITH
  Absent     <- NoInode,
  Unknown    <- NoObject,
  value      <- IF dir["main"] = NoInode THEN NoInode ELSE data[dir["main"]],
  synced     <- dir["main"] \notin dirty,
  work       <- IF InTx THEN data[dir["tx"]] ELSE NoInode,
  workSynced <- InTx => dir["tx"] \notin dirty,
  stable     <- IF disk = NoInode THEN NoInode
                ELSE IF disk \in dirty THEN NoObject ELSE data[disk]

CommitIsAtomic == Abstract!Spec
=============================================================================
