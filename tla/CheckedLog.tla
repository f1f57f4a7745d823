----------------------------- MODULE CheckedLog -----------------------------
(***************************************************************************)
(* storage/CheckedLog.cc: records with a checksum and a length in front,   *)
(* written to the end of a file by four writes each and forced to disk now *)
(* and then, and read back after a crash of the machine.                   *)
(*                                                                         *)
(* A cell is a byte, of Base values; the length has two and the checksum   *)
(* is one, which no two records share.  The mark '*' is 1; '!' is written  *)
(* by nobody.                                                              *)
(***************************************************************************)
EXTENDS Integers, Sequences, SequencesExt

CONSTANTS
  Base,
  Lengths,      \* of the records that are written
  Data,         \* the bytes in them
  MaxCells,     \* bound: cells of the file
  AppendsTorn,  \* whether a log is appended to that does not read to its end
  FreshBuffer   \* whether the reader is given an ExpandableBuffer without room

ASSUME CheckedLogAssumption ==
  /\ Base \in Nat \ {0, 1}
  /\ Lengths \subseteq 0..Base * Base - 1
  /\ Data \subseteq 0..Base - 1
  /\ MaxCells \in Nat
  /\ AppendsTorn \in BOOLEAN /\ FreshBuffer \in BOOLEAN

Star == 1
None == <<-1>>     \* no record
Gone == <<None>>   \* no writer

VARIABLES
  file,     \* the cells
  onDisk,   \* how many of them are on disk
  log,      \* the records of the log, the one being written included
  forced,   \* how many of them were there at the last force()
  writer    \* how much write_record() has to write yet, or Gone

logVars == <<file, onDisk, log, forced, writer>>

LogInit == file = <<>> /\ onDisk = 0 /\ log = <<>> /\ forced = 0 /\ writer = Gone

-----------------------------------------------------------------------------
(* The bytes of a record.                                                  *)

LenBuf(len) == <<len \div Base, len % Base>>
Crc(cells)  == FoldLeft(LAMBDA sum, b : sum * Base + b, 1, cells) + Base

Parts(rec) ==
  LET len == LenBuf(Len(rec))
  IN <<<<Star>>, <<Crc(len \o rec)>>, len, rec>>

(* len_buf is of char, which is signed, and goes to an int before it is    *)
(* shifted and put together: a negative byte makes the whole negative.     *)
Char(b) == IF b >= Base \div 2 THEN b - Base ELSE b

LengthIn(buf) ==
  IF Char(buf[2]) < 0 THEN Char(buf[2]) ELSE Char(buf[1]) * Base + buf[2]

-----------------------------------------------------------------------------
(* The reader.                                                             *)

MatchesAlways(crc, cells) == TRUE
Matches(crc, cells) == crc = Crc(cells)

(* What read_record() returns at an offset, of a file that nobody writes   *)
(* to meanwhile.  A length below 0 asks for more memory than there is, and *)
(* a length of 0 for the data of a buffer that may never have had any: the *)
(* process aborts.                                                         *)
read_record(at, fresh) ==
  LET left == Len(file) - at
      len  == LengthIn(SubSeq(file, at + 3, at + 4))
      buf  == SubSeq(file, at + 5, at + 4 + len)
  IN IF left = 0 THEN [ret |-> "END", rec |-> None]
     ELSE IF left < 4 THEN [ret |-> "BAD_CRC", rec |-> None]
     ELSE IF len > left - 4 THEN [ret |-> "BAD_CRC", rec |-> None]
     ELSE IF len < 0 \/ (len = 0 /\ fresh) THEN [ret |-> "abort", rec |-> None]
     ELSE IF Matches(file[at + 2], SubSeq(file, at + 3, at + 4) \o buf)
     THEN [ret |-> "NO_ERR", rec |-> buf]
     ELSE [ret |-> "BAD_CRC", rec |-> None]

(* The log from the record at an offset to the one that is not read.       *)
ReadFrom[at \in 0..Len(file)] ==
  LET r == read_record(at, FreshBuffer /\ at = 0)
  IN IF r.ret # "NO_ERR" THEN [ret |-> r.ret, recs |-> <<>>]
     ELSE LET more == ReadFrom[at + 4 + Len(r.rec)]
          IN [ret |-> more.ret, recs |-> <<r.rec>> \o more.recs]

ReadLog == ReadFrom[0]

-----------------------------------------------------------------------------
(* The writer.  What is on disk at the time it is made is the log.         *)
CheckedLogWriter ==
  /\ writer = Gone
  /\ AppendsTorn \/ ReadLog.ret = "END"
  /\ log' = ReadLog.recs /\ forced' = Len(log')
  /\ writer' = <<>>
  /\ UNCHANGED <<file, onDisk>>

write_record(rec) ==
  /\ writer = <<>>
  /\ Len(file) + 4 + Len(rec) <= MaxCells
  /\ writer' = Parts(rec)
  /\ log' = Append(log, rec)
  /\ UNCHANGED <<file, onDisk, forced>>

Write ==
  /\ writer \notin {<<>>, Gone}
  /\ file' = file \o Head(writer)
  /\ writer' = Tail(writer)
  /\ UNCHANGED <<onDisk, log, forced>>

force ==
  /\ writer = <<>>
  /\ onDisk' = Len(file) /\ forced' = Len(log)
  /\ UNCHANGED <<file, log, writer>>

(* What is not on disk may be missing from some cell on, or have had its   *)
(* place made on disk and be zero from some cell on.                       *)
LogCrash ==
  \E size \in onDisk..Len(file), whole \in onDisk..Len(file) :
    /\ whole <= size
    /\ file' = [n \in 1..size |-> IF n <= whole THEN file[n] ELSE 0]
    /\ onDisk' = size
    /\ writer' = Gone
    /\ UNCHANGED <<log, forced>>

Records == UNION {[1..n -> Data] : n \in Lengths}

LogNext ==
  \/ CheckedLogWriter
  \/ \E rec \in Records : write_record(rec)
  \/ Write \/ force \/ LogCrash

LogSpec == LogInit /\ [][LogNext]_logVars

-----------------------------------------------------------------------------
(* Whatever a crash has left, the reader does not abort and reads records  *)
(* that were written, whole, in order and from the first on, and among     *)
(* them all that force() has returned for.                                 *)
ForcedIsReadBack ==
  LET r == ReadLog
  IN /\ r.ret # "abort"
     /\ IsPrefix(r.recs, log)
     /\ forced <= Len(r.recs)
=============================================================================
