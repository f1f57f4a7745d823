---------------------------- MODULE SparseBitmap ----------------------------
(***************************************************************************)
(* util/SparseBitmap.tcc: a set of integers as a vector of ranges, in      *)
(* order, that neither touch nor overlap.  Beside the vector, bits is the  *)
(* set that it is to stand for.  A signed _inttype_t keeps away from the   *)
(* ends of its type; in an unsigned one 0 - 1 is the largest integer.      *)
(***************************************************************************)
EXTENDS Integers, Sequences, FiniteSets, SequencesExt

CONSTANTS
  Negatives, Highest,   \* bounds: -Negatives to Highest are set and cleared
  Unsigned,             \* whether _inttype_t is, Highest being the largest of it
  Splits                \* whether clear() is used on the inside of a range

ASSUME SparseBitmapAssumption ==
  /\ Negatives \in Nat /\ Highest \in Nat
  /\ Unsigned \in BOOLEAN /\ (Unsigned => Negatives = 0)
  /\ Splits \in BOOLEAN

Ints    == -Negatives..Highest
Lens    == 1..Highest + Negatives + 1
Word(x) == IF Unsigned THEN x % (Highest + 1) ELSE x

VARIABLES bitmap_, bits

bitmapVars == <<bitmap_, bits>>

BitmapInit == bitmap_ = <<>> /\ bits = {}

Entry(start, end) == [start_ |-> start, end_ |-> end]
End(start, len)   == Word(start + len - 1)

-----------------------------------------------------------------------------
(* Where set() stops, and what it makes of the entry there: at the end of  *)
(* the vector or before an entry it inserts one.                           *)
ExtendsRight(e, start)    == start >= e.start_ /\ start <= Word(e.end_ + 1)
ExtendsLeft(e, start, end) == end >= Word(e.start_ - 1) /\ end <= e.end_

StopsAt(start, end) ==
  SelectInSeq(bitmap_,
              LAMBDA e : ExtendsRight(e, start) \/ ExtendsLeft(e, start, end) \/ end < e.start_)

(* The entries that the one at hand reaches are merged with it, those on   *)
(* its right first; the first that it does not reach ends the loop.        *)
TakeRightOverlapping(acc, e) ==
  IF acc.rest = <<>> /\ acc.at.end_ >= e.start_
  THEN [acc EXCEPT !.at.end_ = IF @ < e.end_ THEN e.end_ ELSE @]
  ELSE [acc EXCEPT !.rest = Append(@, e)]

TakeRight(acc, e) ==
  IF acc.rest = <<>> /\ acc.at.end_ >= Word(e.start_ - 1)
  THEN [acc EXCEPT !.at.end_ = IF @ < e.end_ THEN e.end_ ELSE @]
  ELSE [acc EXCEPT !.rest = Append(@, e)]

TakeLeft(e, acc) ==
  IF acc.rest = <<>> /\ e.end_ >= Word(acc.at.start_ - 1)
  THEN [acc EXCEPT !.at.start_ = IF @ > e.start_ THEN e.start_ ELSE @,
                   !.at.end_ = IF @ < e.end_ THEN e.end_ ELSE @]
  ELSE [acc EXCEPT !.rest = <<e>> \o @]

Compacted(left, at, right) ==
  LET r == FoldLeft(TakeRight, [at |-> at, rest |-> <<>>], right)
      l == FoldRight(TakeLeft, left, [at |-> r.at, rest |-> <<>>])
  IN l.rest \o <<l.at>> \o r.rest

WithSet(start, end) ==
  LET i == StopsAt(start, end)
      left == IF i = 0 THEN bitmap_ ELSE SubSeq(bitmap_, 1, i - 1)
      from == IF i = 0 THEN <<>> ELSE SubSeq(bitmap_, i, Len(bitmap_))
  IN IF i = 0 THEN Compacted(left, Entry(start, end), <<>>)
     ELSE LET e == bitmap_[i]
          IN IF ExtendsRight(e, start)
             THEN IF end <= e.end_ THEN bitmap_
                  ELSE Compacted(left, [e EXCEPT !.end_ = end], Tail(from))
             ELSE IF ExtendsLeft(e, start, end)
             THEN IF start >= e.start_ THEN bitmap_
                  ELSE Compacted(left, [e EXCEPT !.start_ = start], Tail(from))
             ELSE Compacted(left, Entry(start, end), from)

set(start, len) ==
  /\ start + len - 1 <= Highest
  /\ bitmap_' = WithSet(start, End(start, len))
  /\ bits' = bits \cup start..start + len - 1

(* What clear() leaves of an entry.  An entry that is split gets its right *)
(* half inserted behind it, which is the next that the loop comes to; when *)
(* the insertion moves the vector the iterator is left behind, and what    *)
(* follows is not modelled.                                                *)
Left(e, start, end) ==
  IF start <= e.start_ /\ end >= e.end_ THEN <<>>
  ELSE IF start <= e.start_ /\ end >= e.start_ THEN <<[e EXCEPT !.start_ = end + 1]>>
  ELSE IF start > e.start_ /\ start <= e.end_
  THEN IF end >= e.end_ THEN <<[e EXCEPT !.end_ = start - 1]>>
       ELSE <<[e EXCEPT !.end_ = start], [e EXCEPT !.start_ = end + 1]>>
  ELSE <<e>>

clear(start, len) ==
  /\ start + len - 1 <= Highest
  /\ Splits \/ \A e \in ToSet(bitmap_) : ~(start > e.start_ /\ End(start, len) < e.end_)
  /\ bitmap_' = FlattenSeq([i \in 1..Len(bitmap_) |-> Left(bitmap_[i], start, End(start, len))])
  /\ bits' = bits \ (start..start + len - 1)

clear_all ==
  /\ bitmap_' = <<>>
  /\ bits' = {}

BitmapNext ==
  \/ \E start \in Ints, len \in Lens : set(start, len) \/ clear(start, len)
  \/ clear_all

BitmapSpec == BitmapInit /\ [][BitmapNext]_bitmapVars

-----------------------------------------------------------------------------
(* The queries.                                                            *)

is_set(start, len) ==
  \E e \in ToSet(bitmap_) : start >= e.start_ /\ End(start, len) <= e.end_

num_contiguous == IF bitmap_ = <<>> THEN 0
                  ELSE Word(Head(bitmap_).end_ - Head(bitmap_).start_ + 1)

num_set == FoldLeft(LAMBDA n, e : Word(n + e.end_ - e.start_ + 1), 0, bitmap_)

(* An iterator: the index of an entry and an offset in it.                 *)
begin == [iter_ |-> 1, offset_ |-> 0]
end_  == [iter_ |-> Len(bitmap_) + 1, offset_ |-> 0]

Deref(it)  == Word(bitmap_[it.iter_].start_ + it.offset_)
Incr(it)   == IF Deref(it) = bitmap_[it.iter_].end_
              THEN [iter_ |-> it.iter_ + 1, offset_ |-> 0]
              ELSE [it EXCEPT !.offset_ = @ + 1]
LastOf(n)  == [iter_ |-> n, offset_ |-> bitmap_[n].end_ - bitmap_[n].start_]
Decr(it)   == IF it.offset_ = 0 THEN LastOf(it.iter_ - 1)
              ELSE [it EXCEPT !.offset_ = @ - 1]

(* it += diff and it -= diff skip whole entries.  At the end and at the    *)
(* beginning, beyond which the code leaves the vector, they stop.          *)
Places == {end_} \cup UNION {[iter_ : {k}, offset_ : 0..LastOf(k).offset_] : k \in 1..Len(bitmap_)}

Plus(it, diff) ==
  LET at[n \in 0..diff] ==
        [i \in Places |->
          IF n = 0 \/ i = end_ THEN i
          ELSE LET space == bitmap_[i.iter_].end_ - (bitmap_[i.iter_].start_ + i.offset_)
               IN IF space >= n THEN [i EXCEPT !.offset_ = @ + n]
                  ELSE at[n - (space + 1)][[iter_ |-> i.iter_ + 1, offset_ |-> 0]]]
  IN at[diff][it]

Minus(it, diff) ==
  LET at[n \in 0..diff] ==
        [i \in Places |->
          IF i.offset_ >= n THEN [i EXCEPT !.offset_ = @ - n]
          ELSE IF i.iter_ = 1 THEN begin
          ELSE at[n - (i.offset_ + 1)][LastOf(i.iter_ - 1)]]
  IN at[diff][it]

-----------------------------------------------------------------------------
(* What set() and clear() leave in the vector stands for the set of the    *)
(* bits that were set and not cleared, and its ranges neither overlap nor  *)
(* touch: the compaction in set() has merged all that it should.           *)
StandsForBits ==
  /\ bits = UNION {e.start_..e.end_ : e \in ToSet(bitmap_)}
  /\ \A i \in 1..Len(bitmap_) - 1 : bitmap_[i].end_ + 1 < bitmap_[i + 1].start_

(* is_set(), num_set() and num_contiguous() answer as the set does: a      *)
(* range is set if all its bits are, which is_set() looks for in a single  *)
(* entry, and the bits that follow the lowest one are those of the first.  *)
QueriesAgree ==
  /\ \A start \in Ints, len \in Lens :
       start + len - 1 <= Highest => is_set(start, len) = (start..start + len - 1 \subseteq bits)
  /\ num_set = Word(Cardinality(bits))
  /\ bits # {} => LET low == CHOOSE b \in bits : \A c \in bits : b <= c
                  IN num_contiguous = Word(Cardinality({b \in bits : low..b \subseteq bits}))

(* An iterator comes to the bits that are set, each once and in order, and *)
(* ends at end(); -- undoes ++, and += and -=, which skip whole entries,   *)
(* lead where as many single steps do.                                     *)
IteratorsAgree ==
  LET size == Cardinality(bits)
      step[n \in 0..size] == IF n = 0 THEN begin ELSE Incr(step[n - 1])
      back[n \in 0..size] == IF n = 0 THEN end_ ELSE Decr(back[n - 1])
  IN /\ \A n \in 0..size - 1 : Deref(step[n]) \in bits
                                /\ n = Cardinality({b \in bits : b < Deref(step[n])})
     /\ step[size] = end_
     /\ \A n \in 0..size : back[n] = step[size - n]
     /\ \A n \in 0..size : \A d \in 0..size - n :
          Plus(step[n], d) = step[n + d] /\ Minus(step[n + d], d) = step[n]

(* The bitmap is the set that its calls make of it, whoever asks.          *)
BitmapIsSet == StandsForBits /\ QueriesAgree /\ IteratorsAgree
=============================================================================
