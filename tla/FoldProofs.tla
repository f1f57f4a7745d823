----------------------------- MODULE FoldProofs -----------------------------
(***************************************************************************)
(* What is computed along a vector: a CheckedLog, whose checksum and whose *)
(* reader go through a file, for any bytes, lengths and bounds, and the    *)
(* SparseBitmap, whose set(), clear() and counts go through its ranges,    *)
(* for any bounds.                                                         *)
(***************************************************************************)
EXTENDS CheckedLog, SparseBitmap, FiniteSetTheorems, SequenceTheorems,
        WellFoundedInduction, TLAPS

-----------------------------------------------------------------------------
(* There is no induction over an operator here: a statement about every    *)
(* natural number up to some bound is proved by the least one that it      *)
(* fails for.                                                              *)
LEMMA LeastNat ==
  ASSUME NEW T, T \subseteq Nat, T # {}
  PROVE  \E n \in T : \A m \in T : n <= m
<1>1. PICK n \in T : \A m \in T : ~(<<m, n>> \in OpToRel(<, Nat))
  BY NatLessThanWellFounded, WFMin
<1>2. \A m \in T : ~(m < n)
  BY <1>1 DEF OpToRel
<1> QED
  BY <1>2

(* Counting up to n, and down from it.                                     *)
LEMMA UpTo ==
  ASSUME NEW n \in Nat, NEW S, 0 \in S, \A k \in 1..n : k - 1 \in S => k \in S
  PROVE  0..n \subseteq S
<1> DEFINE Bad == (0..n) \ S
<1> SUFFICES ASSUME Bad # {} PROVE FALSE
  OBVIOUS
<1>1. PICK k \in Bad : \A i \in Bad : k <= i
  <2>1. Bad \subseteq Nat
    OBVIOUS
  <2> HIDE DEF Bad
  <2> QED
    BY <2>1, LeastNat
<1>2. k \in 1..n /\ k - 1 \in 0..n /\ ~(k <= k - 1)
  BY <1>1
<1>3. k - 1 \notin Bad
  BY <1>1, <1>2
<1> QED
  BY <1>1, <1>2, <1>3

LEMMA DownFrom ==
  ASSUME NEW n \in Nat, NEW S, n \in S, \A k \in 1..n : k \in S => k - 1 \in S
  PROVE  0..n \subseteq S
<1> DEFINE T == {k \in 0..n : n - k \in S}
<1>1. 0 \in T
  OBVIOUS
<1>2. ASSUME NEW k \in 1..n, k - 1 \in T
      PROVE  k \in T
  <2>1. n - (k - 1) \in 1..n /\ n - (k - 1) \in S /\ n - (k - 1) - 1 = n - k /\ k \in 0..n
    BY <1>2
  <2> QED
    BY <2>1
<1>3. 0..n \subseteq T
  <2> HIDE DEF T
  <2> QED
    BY <1>1, <1>2, UpTo
<1>4. \A k \in 0..n : n - k \in 0..n /\ n - (n - k) = k
  OBVIOUS
<1> QED
  BY <1>3, <1>4

-----------------------------------------------------------------------------
(* A fold is a recursive function on the sets of indices; that there is    *)
(* one is shown for the sets of the first k indices, by a least k for      *)
(* which there is none.                                                    *)
Largest(s) == CHOOSE x \in s : \A y \in s : x >= y

IsFold(g, T, base, step, k) ==
  /\ g \in [SUBSET (1..k) -> T]
  /\ g = [s \in SUBSET (1..k) |->
           IF s = {} THEN base ELSE step[<<Largest(s), g[s \ {Largest(s)}]>>]]

(* The largest of a set of the first k numbers that has k in it.           *)
LEMMA LargestIs ==
  ASSUME NEW k \in Nat, NEW s \in SUBSET (1..k), k \in s
  PROVE  Largest(s) = k
<1>1. \A y \in s : k >= y /\ y \in Nat
  OBVIOUS
<1>2. Largest(s) \in s /\ \A y \in s : Largest(s) >= y
  BY <1>1 DEF Largest
<1> DEFINE l == Largest(s)
<1>3. l \in Nat /\ k >= l /\ l >= k
  BY <1>1, <1>2
<1> HIDE DEF l
<1>4. l = k
  BY <1>3
<1> QED
  BY <1>4 DEF l

(* If each step stays in T, there is a fold over the first n indices.      *)
LEMMA FoldExists ==
  ASSUME NEW n \in Nat, NEW T, NEW base \in T, NEW step,
         \A i \in 1..n, a \in T : step[<<i, a>>] \in T
  PROVE  \E g : IsFold(g, T, base, step, n)
<1> DEFINE Bad == {k \in 0..n : ~\E g : IsFold(g, T, base, step, k)}
<1> SUFFICES ASSUME Bad # {} PROVE FALSE
  OBVIOUS
<1>1. PICK k \in Bad : \A i \in Bad : k <= i
  <2> HIDE DEF Bad
  <2>1. Bad \subseteq Nat
    BY DEF Bad
  <2> QED
    BY <2>1, LeastNat
<1>2. k # 0
  <2> DEFINE g == [s \in SUBSET (1..0) |-> base]
  <2>1. IsFold(g, T, base, step, 0)
    <3>1. \A s \in SUBSET (1..0) : s = {}
      OBVIOUS
    <3> QED
      BY <3>1 DEF IsFold
  <2> QED
    BY <1>1, <2>1
<1>3. k - 1 \in 0..n /\ k - 1 \notin Bad /\ k \in Nat
  BY <1>1, <1>2
<1>4. PICK f : IsFold(f, T, base, step, k - 1)
  BY <1>3
<1> DEFINE Step(s, g) == IF s = {} THEN base ELSE step[<<Largest(s), g[s \ {Largest(s)}]>>]
           g == [s \in SUBSET (1..k) |-> IF k \in s THEN step[<<k, f[s \ {k}]>>] ELSE f[s]]
<1>5. ASSUME NEW s \in SUBSET (1..k)
      PROVE  g[s] = Step(s, g) /\ g[s] \in T
  <2>1. CASE k \in s
    <3>1. Largest(s) = k
      BY <1>3, <2>1, LargestIs
    <3>2. s \ {k} \in SUBSET (1..k - 1) /\ s \ {k} \in SUBSET (1..k) /\ k \notin s \ {k}
      BY <1>3
    <3>3. f[s \ {k}] \in T /\ k \in 1..n
      <4>1. f \in [SUBSET (1..k - 1) -> T]
        BY <1>4 DEF IsFold
      <4>2. f[s \ {k}] \in T
        BY <3>2, <4>1
      <4>3. k \in 1..n
        BY <1>3, <2>1
      <4> QED
        BY <4>2, <4>3
    <3>4. step[<<k, f[s \ {k}]>>] \in T
      BY <3>3
    <3> QED
      BY <2>1, <3>1, <3>2, <3>4
  <2>2. CASE k \notin s
    <3>1. s \in SUBSET (1..k - 1)
      BY <1>3, <2>2
    <3>4. f[s] \in T
      BY <1>4, <3>1 DEF IsFold
    <3>2. CASE s = {}
      BY <1>4, <2>2, <3>1, <3>2, <3>4 DEF IsFold
    <3>3. CASE s # {} 
      <4>0. s \ {Largest(s)} \in SUBSET (1..k) /\ k \notin s \ {Largest(s)}
        BY <2>2
      <4>1. f[s] = step[<<Largest(s), f[s \ {Largest(s)}]>>]
        BY <1>4, <3>1, <3>3 DEF IsFold
      <4> QED
        BY <2>2, <3>3, <3>4, <4>0, <4>1
    <3> QED
      BY <3>2, <3>3
  <2> QED
    BY <2>1, <2>2
<1>6. IsFold(g, T, base, step, k)
  <2> HIDE DEF Step
  <2>1. g = [s \in SUBSET (1..k) |-> Step(s, g)] /\ g \in [SUBSET (1..k) -> T]
    BY <1>5
  <2> QED
    BY <2>1 DEF IsFold, Step
<1> QED
  BY <1>1, <1>6

LEMMA LargestIn ==
  ASSUME NEW n \in Nat, NEW s \in SUBSET (1..n), s # {}
  PROVE  Largest(s) \in s /\ \A y \in s : Largest(s) >= y
<1> DEFINE Down == {n - x : x \in s}
<1>1. Down \subseteq Nat /\ Down # {}
  <2>1. \A x \in s : x \in Nat /\ n - x \in Nat
    OBVIOUS
  <2> QED
    BY <2>1
<1>2. PICK d \in Down : \A e \in Down : d <= e
  <2> HIDE DEF Down
  <2> QED
    BY <1>1, LeastNat
<1>3. PICK x \in s : d = n - x
  OBVIOUS
<1>4. \A y \in s : n - x <= n - y
  BY <1>2, <1>3
<1>5. \A y \in s : x >= y
  BY <1>3, <1>4
<1> QED
  BY <1>5 DEF Largest

(* The fold from the other end is the fold of the indices counted from it. *)
Smallest(s) == CHOOSE x \in s : \A y \in s : x =< y

LEMMA SmallestIs ==
  ASSUME NEW n \in Nat, NEW s \in SUBSET (1..n), NEW x \in s, \A y \in s : x <= y
  PROVE  Smallest(s) = x
<1> DEFINE l == Smallest(s)
<1>1. l \in s /\ \A y \in s : l <= y
  BY DEF Smallest
<1> HIDE DEF l
<1>2. l <= x /\ x <= l /\ l \in Int /\ x \in Int
  BY <1>1
<1>3. l = x
  BY <1>2
<1> QED
  BY <1>3 DEF l

IsFoldDown(g, T, base, step, k) ==
  /\ g \in [SUBSET (1..k) -> T]
  /\ g = [s \in SUBSET (1..k) |->
           IF s = {} THEN base ELSE step[<<Smallest(s), g[s \ {Smallest(s)}]>>]]

LEMMA FoldDownExists ==
  ASSUME NEW n \in Nat, NEW T, NEW base \in T, NEW step,
         \A i \in 1..n, a \in T : step[<<i, a>>] \in T
  PROVE  \E g : IsFoldDown(g, T, base, step, n)
<1> DEFINE Other(i) == n + 1 - i
           Others(s) == {Other(i) : i \in s}
           pets == [x \in (1..n) \X T |-> step[<<Other(x[1]), x[2]>>]]
<1>1. \A i \in 1..n : Other(i) \in 1..n /\ Other(Other(i)) = i
  OBVIOUS
<1>2. \A i \in 1..n, a \in T : pets[<<i, a>>] = step[<<Other(i), a>>]
  OBVIOUS
<1>3. \A i \in 1..n, a \in T : pets[<<i, a>>] \in T
  BY <1>1, <1>2
<1>4. PICK f : IsFold(f, T, base, pets, n)
  <2> HIDE DEF pets
  <2> QED
    BY <1>3, FoldExists
<1> DEFINE g == [s \in SUBSET (1..n) |-> f[Others(s)]]
<1>5. ASSUME NEW s \in SUBSET (1..n)
      PROVE  /\ g[s] \in T
             /\ g[s] = IF s = {} THEN base ELSE step[<<Smallest(s), g[s \ {Smallest(s)}]>>]
  <2>1. Others(s) \in SUBSET (1..n)
    BY <1>1
  <2>2. f[Others(s)] \in T
    <3> HIDE DEF Others
    <3> QED
      BY <1>4, <2>1 DEF IsFold
  <2>3. CASE s = {}
    <3>1. Others(s) = {}
      BY <2>3
    <3> HIDE DEF Others
    <3> QED
      BY <1>4, <2>1, <2>2, <2>3, <3>1 DEF IsFold
  <2>4. CASE s # {}
    <3>1. Others(s) # {}
      BY <2>4
    <3> DEFINE l == Largest(Others(s))
    <3>2. l \in Others(s) /\ \A y \in Others(s) : l >= y
      <4> HIDE DEF Others
      <4> QED
        BY <2>1, <3>1, LargestIn
    <3> HIDE DEF l
    <3>3. Other(l) \in s /\ l \in 1..n /\ Other(Other(l)) = l
      BY <1>1, <2>1, <3>2
    <3>4. \A y \in s : Other(l) <= y
      <4>1. \A y \in s : l >= Other(y)
        BY <3>2
      <4> QED
        BY <3>3, <4>1
    <3>5. Smallest(s) = Other(l)
      BY <3>3, <3>4, SmallestIs
    <3>6. Others(s \ {Other(l)}) = Others(s) \ {l}
      <4>1. \A x : x \in Others(s \ {Other(l)}) => x \in Others(s) \ {l}
        <5> SUFFICES ASSUME NEW i \in s \ {Other(l)}
                     PROVE  Other(i) \in Others(s) /\ Other(i) # l
          OBVIOUS
        <5> QED
          BY <1>1, <3>3
      <4>2. \A x : x \in Others(s) \ {l} => x \in Others(s \ {Other(l)})
        <5> SUFFICES ASSUME NEW i \in s, Other(i) # l
                     PROVE  i # Other(l)
          OBVIOUS
        <5> QED
          BY <3>3
      <4> QED
        BY <4>1, <4>2
    <3>7. s \ {Other(l)} \in SUBSET (1..n) /\ g[s \ {Other(l)}] = f[Others(s) \ {l}]
      BY <3>6
    <3>8. f[Others(s)] = pets[<<l, f[Others(s) \ {l}]>>] /\ f[Others(s) \ {l}] \in T
      <4>1. Others(s) \ {l} \in SUBSET (1..n)
        BY <2>1
      <4> HIDE DEF Others
      <4> QED
        BY <1>4, <2>1, <3>1, <4>1 DEF IsFold, l
    <3> QED
      BY <1>2, <2>2, <2>4, <3>3, <3>5, <3>7, <3>8
  <2> QED
    BY <2>3, <2>4
<1>6. IsFoldDown(g, T, base, step, n)
  <2>1. g \in [SUBSET (1..n) -> T]
    BY <1>5
  <2> HIDE DEF g
  <2>2. g = [s \in SUBSET (1..n) |-> g[s]]
    BY <2>1
  <2> QED
    BY <1>5, <2>1, <2>2 DEF IsFoldDown
<1> QED
  BY <1>6

-----------------------------------------------------------------------------
(* A CheckedLog: the sum of the checksum, cell by cell.                    *)
Sums(sum, cells) ==
  /\ sum \in [0..Len(cells) -> Nat \ {0}]
  /\ sum[0] = 1
  /\ \A k \in 1..Len(cells) : sum[k] = sum[k - 1] * Base + cells[k]

IsSumFold(g, cells) ==
  g = [s \in SUBSET (DOMAIN cells) |->
        IF s = {} THEN 1 ELSE g[s \ {Largest(s)}] * Base + cells[Largest(s)]]

(* FoldLeft, by its definition in the library.                             *)
LEMMA CrcIsFold ==
  ASSUME NEW cells
  PROVE  Crc(cells) = (CHOOSE g : IsSumFold(g, cells))[DOMAIN cells] + Base
BY DEF Crc, FoldLeft, MapThenFoldSet, IsSumFold, Largest, Max

LEMMA TimesBase ==
  ASSUME NEW a \in Nat \ {0}
  PROVE  a * Base \in Nat /\ a * Base >= Base
<1>1. Base \in Nat
  BY CheckedLogAssumption
<1>2. PICK e \in Nat : a = 1 + e
  <2>1. a - 1 \in Nat /\ a = 1 + (a - 1)
    OBVIOUS
  <2> QED
    BY <2>1
<1>3. a * Base = Base + e * Base
  BY <1>1, <1>2
<1>4. e * Base \in Nat
  BY <1>1
<1> QED
  BY <1>1, <1>3, <1>4

(* The checksum of a sequence is the last of its sums.                     *)
LEMMA CrcSums ==
  ASSUME NEW cells \in Seq(Nat)
  PROVE  \E sum : Sums(sum, cells) /\ Crc(cells) = sum[Len(cells)] + Base
<1> USE CheckedLogAssumption
<1> DEFINE n == Len(cells)
           T == Nat \ {0}
           step == [x \in (1..n) \X T |-> x[2] * Base + cells[x[1]]]
<1>1. n \in Nat /\ DOMAIN cells = 1..n /\ \A i \in 1..n : cells[i] \in Nat
  BY LenProperties
<1> HIDE DEF n
<1>2. ASSUME NEW i \in 1..n, NEW a \in T
      PROVE  step[<<i, a>>] = a * Base + cells[i] /\ step[<<i, a>>] \in T
  <2>1. step[<<i, a>>] = a * Base + cells[i]
    OBVIOUS
  <2>2. a * Base \in Nat /\ a * Base >= Base /\ cells[i] \in Nat
    BY <1>1, TimesBase
  <2> QED
    BY <2>1, <2>2
<1> HIDE DEF step
<1>3. PICK g : IsFold(g, T, 1, step, n)
  <2>1. 1 \in T /\ \A i \in 1..n, a \in T : step[<<i, a>>] \in T
    BY <1>2
  <2> HIDE DEF T
  <2> QED
    BY <1>1, <2>1, FoldExists
<1>4. ASSUME NEW s \in SUBSET (1..n), s # {}
      PROVE  Largest(s) \in s
  <2>1. s \subseteq Int /\ \E x \in s : \A y \in s : x >= y
    <3> DEFINE Down == {n - x : x \in s}
    <3>1. Down \subseteq Nat /\ Down # {}
      <4>1. \A x \in s : x \in Nat /\ n - x \in Nat
        BY <1>1
      <4> QED
        BY <1>4, <4>1
    <3>2. PICK d \in Down : \A e \in Down : d <= e
      <4> HIDE DEF Down
      <4> QED
        BY <3>1, LeastNat
    <3>3. PICK x \in s : d = n - x
      OBVIOUS
    <3>4. \A y \in s : n - x <= n - y
      BY <3>2, <3>3
    <3> QED
      BY <1>1, <3>4
  <2> QED
    BY <2>1 DEF Largest
<1>5. IsSumFold(g, cells)
  <2>1. ASSUME NEW s \in SUBSET (1..n)
        PROVE  g[s] = IF s = {} THEN 1 ELSE g[s \ {Largest(s)}] * Base + cells[Largest(s)]
    <3>1. CASE s # {}
      <4>1. Largest(s) \in 1..n /\ s \ {Largest(s)} \in SUBSET (1..n)
        BY <1>4, <3>1
      <4>2. g[s \ {Largest(s)}] \in T
        BY <1>3, <4>1 DEF IsFold
      <4>3. g[s] = step[<<Largest(s), g[s \ {Largest(s)}]>>]
        BY <1>3, <3>1 DEF IsFold
      <4> QED
        BY <1>2, <3>1, <4>1, <4>2, <4>3
    <3>2. CASE s = {}
      BY <1>3, <3>2 DEF IsFold
    <3> QED
      BY <3>1, <3>2
  <2>2. g = [s \in SUBSET (1..n) |-> g[s]]
    BY <1>3 DEF IsFold
  <2> QED
    BY <1>1, <2>1, <2>2 DEF IsSumFold
<1>6. PICK h : IsSumFold(h, cells) /\ Crc(cells) = h[1..n] + Base
  <2> DEFINE h == CHOOSE f : IsSumFold(f, cells)
  <2>1. IsSumFold(h, cells)
    BY <1>5
  <2> QED
    BY <1>1, <2>1, CrcIsFold
<1> DEFINE sum == [k \in 0..n |-> h[1..k]]
<1>7. h[1..0] = 1
  <2>1. 1..0 = {}
    OBVIOUS
  <2> QED
    BY <1>6, <2>1 DEF IsSumFold
<1>8. ASSUME NEW k \in 1..n
      PROVE  h[1..k] = h[1..k - 1] * Base + cells[k]
  <2>1. 1..k \in SUBSET (1..n) /\ k \in 1..k /\ (1..k) \ {k} = 1..k - 1 /\ k \in Nat
    BY <1>1
  <2>2. Largest(1..k) = k
    BY <2>1, LargestIs
  <2> QED
    BY <1>1, <1>6, <2>1, <2>2 DEF IsSumFold
<1> DEFINE Bad == {k \in 0..n : h[1..k] \notin T}
<1>9. Bad = {}
  <2> SUFFICES ASSUME Bad # {} PROVE FALSE
    OBVIOUS
  <2>1. PICK k \in Bad : \A i \in Bad : k <= i
    <3>1. Bad \subseteq Nat
      BY <1>1
    <3> HIDE DEF Bad
    <3> QED
      BY <3>1, LeastNat
  <2>2. k \in 1..n /\ k - 1 \in 0..n /\ k - 1 \notin Bad
    BY <1>1, <1>7, <2>1
  <2>3. h[1..k - 1] \in T /\ cells[k] \in Nat /\ h[1..k] = h[1..k - 1] * Base + cells[k]
    BY <1>1, <1>8, <2>2
  <2>4. h[1..k - 1] * Base \in Nat /\ h[1..k - 1] * Base >= Base
    BY <2>3, TimesBase
  <2>5. h[1..k] \in T
    <3>1. PICK x \in Nat, c \in Nat : x = h[1..k - 1] * Base /\ c = cells[k]
      BY <2>3, <2>4
    <3>2. h[1..k] = x + c /\ x >= Base
      BY <2>3, <2>4, <3>1
    <3>3. x + c \in Nat \ {0}
      BY <1>1, <3>2
    <3> QED
      BY <3>2, <3>3
  <2> QED
    BY <2>1, <2>5
<1>10. Sums(sum, cells)
  <2>1. \A k \in 0..n : h[1..k] \in T
    BY <1>9
  <2>2. sum \in [0..n -> T]
    BY <2>1
  <2>3. sum[0] = 1
    BY <1>1, <1>7
  <2>4. \A k \in 1..n : k - 1 \in 0..n /\ k \in 0..n
    BY <1>1
  <2>5. \A k \in 1..n : sum[k] = sum[k - 1] * Base + cells[k]
    BY <1>8, <2>4
  <2> HIDE DEF sum
  <2> QED
    BY <2>2, <2>3, <2>5 DEF Sums, n
<1>11. Crc(cells) = sum[Len(cells)] + Base
  BY <1>1, <1>6 DEF n
<1> QED
  BY <1>10, <1>11

(* A number has one last digit and one rest.                               *)
LEMMA Digits ==
  ASSUME NEW a \in Nat, NEW b \in Nat, NEW x \in 0..Base - 1, NEW y \in 0..Base - 1,
         a * Base + x = b * Base + y
  PROVE  a = b /\ x = y
<1>1. Base \in Nat /\ Base > 0
  BY CheckedLogAssumption
<1>2. ASSUME NEW c \in Nat, NEW d \in Nat, c > d
      PROVE  c * Base >= d * Base + Base
  <2>1. PICK e \in Nat : c = d + 1 + e
    <3>1. c - d - 1 \in Nat /\ c = d + 1 + (c - d - 1)
      BY <1>2
    <3> QED
      BY <3>1
  <2>2. c * Base = d * Base + Base + e * Base
    BY <1>1, <2>1
  <2>3. e * Base \in Nat /\ d * Base \in Nat
    BY <1>1
  <2> QED
    BY <1>1, <2>2, <2>3
<1>3. a * Base \in Nat /\ b * Base \in Nat
  BY <1>1
<1>4. a = b
  <2>1. ~(a > b)
    <3> SUFFICES ASSUME a > b PROVE FALSE
      OBVIOUS
    <3>1. a * Base >= b * Base + Base
      BY <1>2
    <3> QED
      BY <1>1, <1>3, <3>1
  <2>2. ~(b > a)
    <3> SUFFICES ASSUME b > a PROVE FALSE
      OBVIOUS
    <3>1. b * Base >= a * Base + Base
      BY <1>2
    <3> QED
      BY <1>1, <1>3, <3>1
  <2> QED
    BY <2>1, <2>2
<1> QED
  BY <1>1, <1>3, <1>4

(* No two sequences of bytes share a checksum, as the model promises: the  *)
(* sums are compared from the last one down.                               *)
LEMMA CrcInjective ==
  ASSUME NEW s \in Seq(0..Base - 1), NEW t \in Seq(0..Base - 1), Crc(s) = Crc(t)
  PROVE  s = t
<1>1. Base \in Nat /\ Base > 1
  BY CheckedLogAssumption
<1>2. s \in Seq(Nat) /\ t \in Seq(Nat)
  BY <1>1, SeqMonotonic
<1>3. PICK a : Sums(a, s) /\ Crc(s) = a[Len(s)] + Base
  BY <1>2, CrcSums
<1>4. PICK b : Sums(b, t) /\ Crc(t) = b[Len(t)] + Base
  BY <1>2, CrcSums
<1>5. PICK m \in Nat, n \in Nat : m = Len(s) /\ n = Len(t)
  BY <1>2, LenProperties
<1>6. /\ a \in [0..m -> Nat \ {0}] /\ a[0] = 1
      /\ \A k \in 1..m : a[k] = a[k - 1] * Base + s[k] /\ s[k] \in 0..Base - 1
  BY <1>3, <1>5, ElementOfSeq DEF Sums
<1>7. /\ b \in [0..n -> Nat \ {0}] /\ b[0] = 1
      /\ \A k \in 1..n : b[k] = b[k - 1] * Base + t[k] /\ t[k] \in 0..Base - 1
  BY <1>4, <1>5, ElementOfSeq DEF Sums
<1>8. a[m] = b[n]
  <2>1. a[m] \in Nat /\ b[n] \in Nat
    BY <1>6, <1>7
  <2>2. a[m] + Base = b[n] + Base
    BY <1>3, <1>4, <1>5
  <2>3. \A x, y \in Nat : x + Base = y + Base => x = y
    BY <1>1
  <2> QED
    BY <2>1, <2>2, <2>3
<1>9. ASSUME NEW i \in Nat, i < m, i < n, a[m - i] = b[n - i]
      PROVE  a[m - i - 1] = b[n - i - 1] /\ s[m - i] = t[n - i]
  <2>1. m - i \in 1..m /\ n - i \in 1..n /\ m - i - 1 \in 0..m /\ n - i - 1 \in 0..n
    BY <1>9
  <2>2. a[m - i - 1] * Base + s[m - i] = b[n - i - 1] * Base + t[n - i]
    BY <1>6, <1>7, <1>9, <2>1
  <2>3. /\ a[m - i - 1] \in Nat /\ b[n - i - 1] \in Nat
        /\ s[m - i] \in 0..Base - 1 /\ t[n - i] \in 0..Base - 1
    BY <1>6, <1>7, <2>1
  <2> QED
    BY <2>2, <2>3, Digits
<1>10. \A i \in Nat : i <= m /\ i <= n => a[m - i] = b[n - i]
  <2> DEFINE Bad == {i \in Nat : i <= m /\ i <= n /\ a[m - i] # b[n - i]}
  <2> SUFFICES ASSUME Bad # {} PROVE FALSE
    OBVIOUS
  <2>1. PICK i \in Bad : \A j \in Bad : i <= j
    <3>1. Bad \subseteq Nat
      OBVIOUS
    <3> HIDE DEF Bad
    <3> QED
      BY <3>1, LeastNat
  <2>2. i # 0
    BY <1>8, <2>1
  <2>3. i - 1 \in Nat /\ i - 1 < m /\ i - 1 < n /\ a[m - (i - 1)] = b[n - (i - 1)]
    <3>1. i - 1 \in Nat /\ i - 1 < m /\ i - 1 < n /\ ~(i <= i - 1)
      BY <2>1, <2>2
    <3>2. i - 1 \notin Bad
      BY <2>1, <3>1
    <3> QED
      BY <3>1, <3>2
  <2>4. a[m - (i - 1) - 1] = b[n - (i - 1) - 1]
    BY <1>9, <2>3
  <2>5. m - (i - 1) - 1 = m - i /\ n - (i - 1) - 1 = n - i /\ a[m - i] # b[n - i]
    BY <2>1
  <2> QED
    BY <2>4, <2>5
<1>11. m = n
  <2>1. ~(m < n)
    <3> SUFFICES ASSUME m < n PROVE FALSE
      OBVIOUS
    <3>1. a[m - m] = b[n - m]
      BY <1>10
    <3>2. b[n - m] = 1
      BY <1>6, <3>1
    <3>3. n - m \in 1..n /\ n - m - 1 \in 0..n
      OBVIOUS
    <3>4. b[n - m] = b[n - m - 1] * Base + t[n - m] /\ b[n - m - 1] \in Nat \ {0} /\ t[n - m] \in Nat
      BY <1>1, <1>7, <3>3
    <3>5. b[n - m - 1] * Base >= Base
      BY <3>4, TimesBase
    <3> QED
      BY <1>1, <3>2, <3>4, <3>5
  <2>2. ~(n < m)
    <3> SUFFICES ASSUME n < m PROVE FALSE
      OBVIOUS
    <3>1. a[m - n] = b[n - n]
      BY <1>10
    <3>2. a[m - n] = 1
      BY <1>7, <3>1
    <3>3. m - n \in 1..m /\ m - n - 1 \in 0..m
      OBVIOUS
    <3>4. a[m - n] = a[m - n - 1] * Base + s[m - n] /\ a[m - n - 1] \in Nat \ {0} /\ s[m - n] \in Nat
      BY <1>1, <1>6, <3>3
    <3>5. a[m - n - 1] * Base >= Base
      BY <3>4, TimesBase
    <3> QED
      BY <1>1, <3>2, <3>4, <3>5
  <2> QED
    BY <2>1, <2>2
<1>12. \A k \in 1..m : s[k] = t[k]
  <2> SUFFICES ASSUME NEW k \in 1..m PROVE s[k] = t[k]
    OBVIOUS
  <2>1. PICK i \in Nat : i = m - k
    OBVIOUS
  <2>2. i < m /\ i < n /\ i <= m /\ i <= n /\ m - i = k /\ n - i = k
    BY <1>11, <2>1
  <2>3. a[m - i] = b[n - i]
    BY <1>10, <2>2
  <2>4. s[m - i] = t[n - i]
    BY <1>9, <2>2, <2>3
  <2> QED
    BY <2>2, <2>4
<1> QED
  BY <1>5, <1>11, <1>12, SeqEqual

-----------------------------------------------------------------------------
(* A record in the file.                                                   *)
LenOf(rec) == LenBuf(Len(rec))

CellOf(rec, j) ==
  IF j = 1 THEN Star
  ELSE IF j = 2 THEN Crc(LenOf(rec) \o rec)
  ELSE IF j \in 3..4 THEN LenOf(rec)[j - 2]
  ELSE rec[j - 4]

(* It is at an offset, as far as the file goes, and zero from a cell on.   *)
Stored(whole, at, rec) ==
  \A j \in 1..4 + Len(rec) :
    at + j <= Len(file) => file[at + j] = IF at + j <= whole THEN CellOf(rec, j) ELSE 0

(* The lengths that are read as they were written.                         *)
Readable(len) == \A i \in 1..2 : LenBuf(len)[i] < Base \div 2

LEMMA RecordFacts ==
  ASSUME NEW rec \in Records
  PROVE  /\ rec \in Seq(0..Base - 1) /\ Len(rec) \in Lengths /\ Len(rec) \in Nat
         /\ rec \in Seq(Data)
<1>1. PICK n \in Lengths : rec \in [1..n -> Data]
  BY DEF Records
<1>2. n \in Nat /\ Data \subseteq 0..Base - 1
  BY CheckedLogAssumption
<1>3. rec \in Seq(Data) /\ Len(rec) = n
  BY <1>1, <1>2, SeqDef
<1> QED
  BY <1>2, <1>3, SeqMonotonic

(* The two bytes of a length.                                              *)
LEMMA LenBufFacts ==
  ASSUME NEW n \in Lengths
  PROVE  /\ n \in Nat /\ n \div Base \in 0..Base - 1 /\ n % Base \in 0..Base - 1
         /\ n = (n \div Base) * Base + (n % Base)
<1>1. Base \in Nat /\ Base > 1 /\ n \in Nat /\ n < Base * Base
  BY CheckedLogAssumption
<1>2. n % Base \in 0..Base - 1 /\ n \div Base \in Nat /\ n = Base * (n \div Base) + (n % Base)
  BY <1>1
<1> DEFINE q == n \div Base
           m == n % Base
<1>3. q \in Nat /\ m \in 0..Base - 1 /\ n = q * Base + m
  BY <1>1, <1>2
<1> HIDE DEF q, m
<1>4. q < Base
  <2> SUFFICES ASSUME q >= Base PROVE FALSE
    BY <1>1, <1>3
  <2>1. PICK e \in Nat : q = Base + e
    <3>1. q - Base \in Nat /\ q = Base + (q - Base)
      BY <1>1, <1>3
    <3> QED
      BY <3>1
  <2>2. q * Base = Base * Base + e * Base
    BY <1>1, <2>1
  <2>3. e * Base \in Nat /\ Base * Base \in Nat
    BY <1>1
  <2> QED
    BY <1>1, <1>3, <2>2, <2>3
<1> QED
  BY <1>1, <1>3, <1>4 DEF q, m

(* Of a length that is readable, bytes may be zero from one on.            *)
LEMMA LengthInFacts ==
  ASSUME NEW n \in Lengths, Readable(n),
         NEW buf, Len(buf) = 2,
         \/ buf[1] = LenBuf(n)[1] /\ buf[2] \in {LenBuf(n)[2], 0}
         \/ buf[1] = 0 /\ buf[2] = 0
  PROVE  /\ LengthIn(buf) \in 0..n
         /\ buf[1] \in 0..Base - 1 /\ buf[2] \in 0..Base - 1
         /\ buf[1] = LenBuf(n)[1] /\ buf[2] = LenBuf(n)[2] => LengthIn(buf) = n
<1>1. Base \in Nat /\ Base > 1 /\ Base \div 2 \in Nat /\ Base \div 2 > 0 /\ Base \div 2 < Base
  <2>1. Base \in Nat /\ Base > 1
    BY CheckedLogAssumption
  <2>2. \A b \in Nat : b > 1 => b \div 2 \in Nat /\ b \div 2 > 0 /\ b \div 2 < b
    OBVIOUS
  <2> QED
    BY <2>1, <2>2
<1>2. PICK q \in 0..Base - 1, m \in 0..Base - 1 :
        /\ n \in Nat /\ n = q * Base + m /\ LenBuf(n) = <<q, m>>
        /\ q < Base \div 2 /\ m < Base \div 2
  BY LenBufFacts DEF LenBuf, Readable
<1>3. /\ buf[1] \in {0, q} /\ buf[2] \in {0, m} /\ (buf[1] = q \/ (buf[1] = 0 /\ buf[2] = 0))
      /\ buf[1] \in Nat /\ buf[2] \in Nat
      /\ buf[1] < Base \div 2 /\ buf[2] < Base \div 2
  BY <1>1, <1>2
<1>4. Char(buf[1]) = buf[1] /\ Char(buf[2]) = buf[2]
  BY <1>1, <1>3 DEF Char
<1>5. LengthIn(buf) = buf[1] * Base + buf[2]
  BY <1>1, <1>3, <1>4 DEF LengthIn
<1>6. q * Base \in Nat /\ 0 * Base = 0
  BY <1>1, <1>2
<1>9. buf[1] \in 0..Base - 1 /\ buf[2] \in 0..Base - 1
  BY <1>1, <1>3
<1>7. CASE buf[1] = q
  <2>1. buf[1] * Base = q * Base
    BY <1>7
  <2>2. LengthIn(buf) = q * Base + buf[2]
    BY <1>5, <2>1
  <2>3. \A a \in Nat : a + buf[2] \in 0..a + m
    BY <1>2, <1>3
  <2>4. LengthIn(buf) \in 0..n
    BY <1>2, <1>6, <2>2, <2>3
  <2>5. buf[2] = m => LengthIn(buf) = n
    BY <1>2, <2>2
  <2>6. LenBuf(n)[1] = q /\ LenBuf(n)[2] = m
    BY <1>2
  <2> QED
    BY <1>9, <2>4, <2>5, <2>6
<1>8. CASE buf[1] = 0 /\ buf[2] = 0
  BY <1>1, <1>2, <1>5, <1>6, <1>8
<1> QED
  BY <1>3, <1>7, <1>8

(* What is read of the cells of a record.                                  *)
LEMMA CellFacts ==
  ASSUME NEW rec \in Records, Readable(Len(rec))
  PROVE  /\ CellOf(rec, 1) = Star /\ CellOf(rec, 2) = Crc(LenOf(rec) \o rec)
         /\ CellOf(rec, 3) = LenOf(rec)[1] /\ CellOf(rec, 4) = LenOf(rec)[2]
         /\ \A i \in 1..Len(rec) : CellOf(rec, i + 4) = rec[i] /\ rec[i] \in 0..Base - 1
         /\ LenOf(rec) \o rec \in Seq(0..Base - 1) /\ LenOf(rec) \in Seq(0..Base - 1)
         /\ Len(LenOf(rec)) = 2
<1>1. rec \in Seq(0..Base - 1) /\ Len(rec) \in Lengths /\ Len(rec) \in Nat
  BY RecordFacts
<1>2. LenOf(rec) \in Seq(0..Base - 1) /\ Len(LenOf(rec)) = 2
  BY <1>1, LenBufFacts DEF LenOf, LenBuf
<1>3. LenOf(rec) \o rec \in Seq(0..Base - 1)
  BY <1>1, <1>2, ConcatProperties
<1>4. \A i \in 1..Len(rec) : rec[i] \in 0..Base - 1
  BY <1>1, ElementOfSeq
<1>5. \A i \in 1..Len(rec) : CellOf(rec, i + 4) = rec[i]
  BY <1>1 DEF CellOf
<1> QED
  BY <1>2, <1>3, <1>4, <1>5 DEF CellOf

(* No checksum is zero, so that a cell which a crash has zeroed is not     *)
(* one.                                                                    *)
LEMMA CrcIsLarge ==
  ASSUME NEW cells \in Seq(Nat)
  PROVE  Crc(cells) \in Nat /\ Crc(cells) > 0
<1>1. PICK sum : Sums(sum, cells) /\ Crc(cells) = sum[Len(cells)] + Base
  BY CrcSums
<1>2. sum[Len(cells)] \in Nat /\ Base \in Nat /\ Base > 0
  BY <1>1, CheckedLogAssumption, LenProperties DEF Sums
<1> QED
  BY <1>1, <1>2

LEMMA SeqOver ==
  ASSUME NEW S, NEW n \in Nat, NEW s \in [1..n -> S]
  PROVE  s \in Seq(S)
BY SeqDef

(* Two concatenations that are equal, of which the first parts are as      *)
(* long.                                                                   *)
LEMMA SameHeads ==
  ASSUME NEW S, NEW a \in Seq(S), NEW b \in Seq(S), NEW s \in Seq(S), NEW t \in Seq(S),
         Len(a) = Len(b), a \o s = b \o t
  PROVE  a = b /\ s = t
<1>1. /\ Len(a \o s) = Len(a) + Len(s) /\ Len(b \o t) = Len(b) + Len(t)
      /\ \A i \in 1..Len(a) : (a \o s)[i] = a[i] /\ (b \o t)[i] = b[i]
      /\ \A i \in 1..Len(s) : (a \o s)[Len(a) + i] = s[i]
      /\ \A i \in 1..Len(t) : (b \o t)[Len(b) + i] = t[i]
      /\ Len(a) \in Nat /\ Len(s) \in Nat /\ Len(t) \in Nat
  <2>1. Len(a) \in Nat /\ Len(s) \in Nat /\ Len(t) \in Nat
    BY LenProperties
  <2>2. /\ Len(a \o s) = Len(a) + Len(s)
        /\ \A i \in 1..Len(a) + Len(s) : (a \o s)[i] = IF i <= Len(a) THEN a[i] ELSE s[i - Len(a)]
    BY ConcatProperties
  <2>3. /\ Len(b \o t) = Len(b) + Len(t)
        /\ \A i \in 1..Len(b) + Len(t) : (b \o t)[i] = IF i <= Len(b) THEN b[i] ELSE t[i - Len(b)]
    BY ConcatProperties
  <2>4. \A i \in 1..Len(a) : (a \o s)[i] = a[i] /\ (b \o t)[i] = b[i]
    BY <2>1, <2>2, <2>3
  <2>7. \A p, q \in Nat : \A i \in 1..q : p + i \in 1..p + q /\ ~(p + i <= p) /\ p + i - p = i
    OBVIOUS
  <2>5. ASSUME NEW i \in 1..Len(s)
        PROVE  (a \o s)[Len(a) + i] = s[i]
    <3>1. PICK c : c = Len(a) + i
      OBVIOUS
    <3>2. c \in 1..Len(a) + Len(s) /\ ~(c <= Len(a)) /\ c - Len(a) = i
      BY <2>1, <2>7, <3>1
    <3>3. (a \o s)[c] = s[c - Len(a)]
      BY <2>2, <3>2
    <3> QED
      BY <3>1, <3>2, <3>3
  <2>6. ASSUME NEW i \in 1..Len(t)
        PROVE  (b \o t)[Len(b) + i] = t[i]
    <3>1. PICK c : c = Len(b) + i
      OBVIOUS
    <3>2. c \in 1..Len(b) + Len(t) /\ ~(c <= Len(b)) /\ c - Len(b) = i
      BY <2>1, <2>7, <3>1
    <3>3. (b \o t)[c] = t[c - Len(b)]
      BY <2>3, <3>2
    <3> QED
      BY <3>1, <3>2, <3>3
  <2> QED
    BY <2>1, <2>2, <2>3, <2>4, <2>5, <2>6
<1>2. \A i \in 1..Len(a) : a[i] = b[i]
  BY <1>1
<1>3. Len(s) = Len(t)
  BY <1>1
<1>4. \A i \in 1..Len(s) : s[i] = t[i]
  BY <1>1, <1>3
<1> QED
  BY <1>2, <1>3, <1>4, SeqEqual

(* The reader at a record: it takes the record or nothing, and does take   *)
(* it when all of it is there.                                             *)
Got(at) == read_record(at, FALSE)

LEMMA ReadOne ==
  ASSUME file \in Seq(Nat), NEW at \in 0..Len(file), NEW rec \in Records, Readable(Len(rec)),
         NEW whole \in Nat, Stored(whole, at, rec),
         NEW n \in Nat, n = Len(rec), NEW size \in Nat, size = Len(file),
         NEW r, r = Got(at)
  PROVE  /\ r.ret \in {"END", "BAD_CRC", "NO_ERR"}
         /\ r.ret = "END" => at = size
         /\ r.ret = "NO_ERR" => r.rec = rec /\ at + 4 + n <= size /\ Stored(size, at, rec)
         /\ at + 4 + n <= whole /\ whole <= size => r.ret = "NO_ERR"
<1>0. n \in Lengths /\ rec \in Seq(0..Base - 1) /\ Base \in Nat /\ Base > 1
      /\ \A i \in 1..size : file[i] \in Nat
  BY RecordFacts, CheckedLogAssumption, ElementOfSeq
<1>1. CASE at = size
  <2>1. r = [ret |-> "END", rec |-> None]
    BY <1>1 DEF Got, read_record
  <2> QED
    BY <1>1, <2>1
<1>2. CASE at # size /\ size - at < 4
  <2>1. r = [ret |-> "BAD_CRC", rec |-> None]
    BY <1>2 DEF Got, read_record
  <2> QED
    BY <1>2, <2>1
<1>3. CASE size - at >= 4
  <2>0. PICK buf : buf = SubSeq(file, at + 3, at + 4)
    OBVIOUS
  <2>1. /\ buf \in Seq(Nat) /\ Len(buf) = 2
        /\ buf[1] = file[at + 3] /\ buf[2] = file[at + 4]
    <3>1. at + 3 \in Int /\ at + 4 \in Int /\ at + 3 <= at + 4
      OBVIOUS
    <3>2. \A i \in at + 3..at + 4 : file[i] \in Nat
      BY <1>0, <1>3
    <3>3. at + 4 - (at + 3) + 1 = 2 /\ at + 3 + 1 - 1 = at + 3 /\ at + 3 + 2 - 1 = at + 4
      OBVIOUS
    <3>4. buf \in Seq(Nat) /\ Len(buf) = 2 /\ \A i \in 1..2 : buf[i] = file[at + 3 + i - 1]
      BY <2>0, <3>1, <3>2, <3>3, SubSeqProperties
    <3> QED
      BY <3>3, <3>4
  <2>2. PICK crc, len : crc = file[at + 2] /\ len = LengthIn(buf) /\ crc \in Nat
    BY <1>0, <1>3
  <2>3. PICK bytes : bytes = SubSeq(file, at + 5, at + 4 + len)
    OBVIOUS
  <2>4. /\ crc = IF at + 2 <= whole THEN Crc(LenOf(rec) \o rec) ELSE 0
        /\ buf[1] = IF at + 3 <= whole THEN LenOf(rec)[1] ELSE 0
        /\ buf[2] = IF at + 4 <= whole THEN LenOf(rec)[2] ELSE 0
    <3>1. \A j \in 1..4 : j \in 1..4 + Len(rec) /\ at + j <= Len(file)
      BY <1>3
    <3>2. \A j \in 1..4 : file[at + j] = IF at + j <= whole THEN CellOf(rec, j) ELSE 0
      BY <3>1 DEF Stored
    <3>3. /\ CellOf(rec, 2) = Crc(LenOf(rec) \o rec)
          /\ CellOf(rec, 3) = LenOf(rec)[1] /\ CellOf(rec, 4) = LenOf(rec)[2]
      BY CellFacts
    <3>4. /\ file[at + 2] = IF at + 2 <= whole THEN CellOf(rec, 2) ELSE 0
          /\ file[at + 3] = IF at + 3 <= whole THEN CellOf(rec, 3) ELSE 0
          /\ file[at + 4] = IF at + 4 <= whole THEN CellOf(rec, 4) ELSE 0
      BY <3>2
    <3> QED
      BY <2>1, <2>2, <3>3, <3>4
  <2>5. /\ len \in 0..n /\ buf[1] \in 0..Base - 1 /\ buf[2] \in 0..Base - 1
        /\ buf[1] = LenOf(rec)[1] /\ buf[2] = LenOf(rec)[2] => len = n
    <3>1. \/ buf[1] = LenOf(rec)[1] /\ buf[2] \in {LenOf(rec)[2], 0}
          \/ buf[1] = 0 /\ buf[2] = 0
      BY <2>4
    <3>2. Readable(n) /\ LenOf(rec) = LenBuf(n)
      BY DEF LenOf
    <3>3. /\ LengthIn(buf) \in 0..n /\ buf[1] \in 0..Base - 1 /\ buf[2] \in 0..Base - 1
          /\ buf[1] = LenBuf(n)[1] /\ buf[2] = LenBuf(n)[2] => LengthIn(buf) = n
      BY <1>0, <2>1, <3>1, <3>2, LengthInFacts
    <3> QED
      BY <2>2, <3>2, <3>3
  <2>6. r = IF len > size - at - 4 THEN [ret |-> "BAD_CRC", rec |-> None]
            ELSE IF crc = Crc(buf \o bytes) THEN [ret |-> "NO_ERR", rec |-> bytes]
            ELSE [ret |-> "BAD_CRC", rec |-> None]
    <3>1. ~(size - at = 0) /\ ~(size - at < 4) /\ ~(len < 0)
      BY <1>3, <2>5
    <3>2. r = IF Len(file) - at = 0 THEN [ret |-> "END", rec |-> None]
              ELSE IF Len(file) - at < 4 THEN [ret |-> "BAD_CRC", rec |-> None]
              ELSE IF len > Len(file) - at - 4 THEN [ret |-> "BAD_CRC", rec |-> None]
              ELSE IF len < 0 \/ (len = 0 /\ FALSE) THEN [ret |-> "abort", rec |-> None]
              ELSE IF crc = Crc(buf \o bytes) THEN [ret |-> "NO_ERR", rec |-> bytes]
              ELSE [ret |-> "BAD_CRC", rec |-> None]
      BY <2>0, <2>2, <2>3, Zenon DEF Got, read_record, Matches
    <3> QED
      BY <3>1, <3>2
  <2>7. CASE len > size - at - 4
    <3>1. r = [ret |-> "BAD_CRC", rec |-> None]
      BY <2>6, <2>7
    <3>2. ~(at + 4 + n <= whole /\ whole <= size)
      BY <2>5, <2>7
    <3> QED
      BY <3>1, <3>2
  <2>8. CASE len <= size - at - 4
    <3>1. /\ bytes \in Seq(Nat) /\ Len(bytes) = len
          /\ \A i \in 1..len : bytes[i] = file[at + 4 + i]
      <4>1. at + 5 \in Int /\ at + 4 + len \in Int /\ len \in Nat
        BY <2>5
      <4>2. \A i \in at + 5..at + 4 + len : file[i] \in Nat
        BY <1>0, <1>3, <2>8, <4>1
      <4>3. /\ at + 4 + len - (at + 5) + 1 = len /\ \A i \in 1..len : at + 5 + i - 1 = at + 4 + i
            /\ (IF at + 5 <= at + 4 + len THEN len ELSE 0) = len
        BY <4>1
      <4>4. bytes \in Seq(Nat)
        BY <2>3, <4>1, <4>2, SubSeqProperties
      <4>5. Len(bytes) = len
        BY <2>3, <4>1, <4>2, <4>3, SubSeqProperties
      <4>6. \A i \in 1..len : bytes[i] = file[at + 5 + i - 1]
        BY <2>3, <4>1, <4>2, <4>3, SubSeqProperties
      <4> QED
        BY <4>3, <4>4, <4>5, <4>6
    <3>2. \A i \in 1..len : bytes[i] = IF at + 4 + i <= whole THEN rec[i] ELSE 0
      <4> SUFFICES ASSUME NEW i \in 1..len
                   PROVE  bytes[i] = IF at + 4 + i <= whole THEN rec[i] ELSE 0
        OBVIOUS
      <4>1. /\ i \in 1..Len(rec) /\ i + 4 \in 1..4 + Len(rec)
            /\ at + (i + 4) <= Len(file) /\ at + (i + 4) = at + 4 + i
        BY <2>5, <2>8
      <4>2. file[at + (i + 4)] = IF at + (i + 4) <= whole THEN CellOf(rec, i + 4) ELSE 0
        BY <4>1 DEF Stored
      <4>3. CellOf(rec, i + 4) = rec[i]
        BY <4>1, CellFacts
      <4> QED
        BY <3>1, <4>1, <4>2, <4>3
    <3>3. bytes \in Seq(0..Base - 1) /\ buf \in Seq(0..Base - 1)
      <4>1. 0 \in 0..Base - 1
        BY <1>0
      <4>2. \A i \in 1..len : bytes[i] \in 0..Base - 1
        <5>0. \A i \in 1..Len(rec) : rec[i] \in 0..Base - 1
          BY <1>0, ElementOfSeq
        <5>1. \A i \in 1..len : rec[i] \in 0..Base - 1
          BY <2>5, <5>0
        <5> QED
          BY <3>2, <4>1, <5>1
      <4>3. \A i \in 1..2 : buf[i] \in 0..Base - 1
        BY <2>5
      <4>4. bytes = [i \in 1..len |-> bytes[i]] /\ buf = [i \in 1..2 |-> buf[i]]
        BY <2>1, <3>1, LenProperties
      <4>5. bytes \in [1..len -> 0..Base - 1] /\ buf \in [1..2 -> 0..Base - 1]
        BY <4>2, <4>3, <4>4
      <4>6. len \in Nat /\ 2 \in Nat
        BY <2>5
      <4>7. bytes \in Seq(0..Base - 1)
        BY <4>5, <4>6, SeqOver
      <4>8. buf \in Seq(0..Base - 1)
        BY <4>5, <4>6, SeqOver
      <4> QED
        BY <4>7, <4>8
    <3>4. buf \o bytes \in Seq(0..Base - 1) /\ buf \o bytes \in Seq(Nat)
      BY <2>1, <3>1, <3>3, ConcatProperties
    <3>5. CASE buf = LenOf(rec) /\ bytes = rec /\ at + 2 <= whole
      <4>1. crc = Crc(buf \o bytes) /\ len = n
        BY <2>4, <2>5, <3>5
      <4>2. r = [ret |-> "NO_ERR", rec |-> rec]
        BY <2>6, <2>8, <3>5, <4>1
      <4>3. at + 4 + n <= size
        BY <2>8, <4>1
      <4>4. Stored(size, at, rec)
        <5> SUFFICES ASSUME NEW j \in 1..4 + Len(rec)
                     PROVE  file[at + j] = CellOf(rec, j)
          BY DEF Stored
        <5>1. CASE j \in 3..4
          BY <2>1, <3>5, <5>1, CellFacts
        <5>2. CASE j \in 1..2
          <6>1. at + j <= whole /\ at + j <= Len(file)
            BY <1>3, <3>5, <5>2
          <6> QED
            BY <6>1 DEF Stored
        <5>3. CASE j > 4
          <6>1. j - 4 \in 1..Len(rec) /\ j - 4 + 4 = j /\ at + 4 + (j - 4) = at + j /\ j - 4 \in 1..len
            BY <4>1, <5>3
          <6>2. bytes[j - 4] = file[at + j] /\ CellOf(rec, j) = rec[j - 4]
            BY <3>1, <6>1, CellFacts
          <6> QED
            BY <3>5, <6>2
        <5> QED
          BY <5>1, <5>2, <5>3
      <4> QED
        BY <4>2, <4>3, <4>4
    <3>6. CASE ~(buf = LenOf(rec) /\ bytes = rec /\ at + 2 <= whole)
      <4>1. crc # Crc(buf \o bytes)
        <5>1. Crc(buf \o bytes) > 0
          BY <3>4, CrcIsLarge
        <5>2. CASE at + 2 > whole
          BY <2>4, <5>1, <5>2
        <5>3. CASE at + 2 <= whole
          <6> SUFFICES ASSUME Crc(LenOf(rec) \o rec) = Crc(buf \o bytes)
                       PROVE  FALSE
            BY <2>4, <5>3
          <6>1. LenOf(rec) \o rec = buf \o bytes
            BY <3>4, CrcInjective, CellFacts
          <6> DEFINE S == 0..Base - 1
          <6>2. /\ LenOf(rec) \in Seq(S) /\ rec \in Seq(S) /\ buf \in Seq(S) /\ bytes \in Seq(S)
                /\ Len(LenOf(rec)) = Len(buf)
            BY <1>0, <2>1, <3>3, CellFacts
          <6> HIDE DEF S
          <6>3. LenOf(rec) = buf /\ rec = bytes
            BY <6>1, <6>2, SameHeads
          <6> QED
            BY <3>6, <5>3, <6>3
        <5> QED
          BY <5>2, <5>3
      <4>2. r = [ret |-> "BAD_CRC", rec |-> None]
        BY <2>6, <2>8, <4>1
      <4>3. ~(at + 4 + n <= whole /\ whole <= size)
        <5> SUFFICES ASSUME at + 4 + n <= whole
                     PROVE  FALSE
          OBVIOUS
        <5>1. at + 2 <= whole /\ at + 3 <= whole /\ at + 4 <= whole
          OBVIOUS
        <5>2. buf[1] = LenOf(rec)[1] /\ buf[2] = LenOf(rec)[2]
          BY <2>4, <5>1
        <5>3. buf = LenOf(rec)
          <6>1. \A i \in 1..Len(buf) : buf[i] = LenOf(rec)[i]
            BY <2>1, <5>2
          <6> DEFINE S == 0..Base - 1
          <6>2. buf \in Seq(S) /\ LenOf(rec) \in Seq(S) /\ Len(buf) = Len(LenOf(rec))
            BY <2>1, <3>3, CellFacts
          <6> HIDE DEF S
          <6> QED
            BY <6>1, <6>2, SeqEqual
        <5>4. len = n /\ \A i \in 1..len : at + 4 + i <= whole
          BY <2>5, <5>2
        <5>5. bytes = rec
          BY <1>0, <3>1, <3>2, <3>3, <5>4, SeqEqual
        <5> QED
          BY <3>6, <5>1, <5>3, <5>5
      <4> QED
        BY <4>2, <4>3
    <3> QED
      BY <3>5, <3>6
  <2> QED
    BY <2>5, <2>7, <2>8
<1> QED
  BY <1>1, <1>2, <1>3

-----------------------------------------------------------------------------
(* The log that is read.  ReadFrom is a recursive function on offsets; that *)
(* there is one is shown for the last k of them, by a least k for which     *)
(* there is none.                                                           *)
ReadStep(at, f) ==
  IF Got(at).ret # "NO_ERR" THEN [ret |-> Got(at).ret, recs |-> <<>>]
  ELSE [ret  |-> f[at + 4 + Len(Got(at).rec)].ret,
        recs |-> <<Got(at).rec>> \o f[at + 4 + Len(Got(at).rec)].recs]

IsReadFrom(f, low) == f = [at \in low..Len(file) |-> ReadStep(at, f)]

(* Who has read a record goes on behind it.                                *)
LEMMA GotMovesOn ==
  ASSUME file \in Seq(Nat), NEW at \in 0..Len(file), Got(at).ret = "NO_ERR"
  PROVE  at + 4 + Len(Got(at).rec) \in at + 1..Len(file)
<1>1. PICK size \in Nat : size = Len(file) /\ \A i \in 1..size : file[i] \in Nat
  BY LenProperties, ElementOfSeq
<1>2. PICK len, bytes :
        /\ len = LengthIn(SubSeq(file, at + 3, at + 4))
        /\ bytes = SubSeq(file, at + 5, at + 4 + len)
  OBVIOUS
<1>3. /\ size - at >= 4 /\ ~(len > size - at - 4) /\ ~(len < 0)
      /\ Got(at).rec = bytes
  <2>1. size # at
    BY <1>1, <1>2 DEF Got, read_record
  <2>2. ~(size - at < 4)
    BY <1>1, <1>2, <2>1 DEF Got, read_record
  <2>3. ~(len > size - at - 4) /\ ~(len < 0) /\ Got(at).rec = bytes
    BY <1>1, <1>2, <2>1, <2>2 DEF Got, read_record
  <2> QED
    BY <1>1, <2>2, <2>3
<1>4. len \in Int
  <2>1. at + 3 \in Int /\ at + 4 \in Int /\ \A i \in at + 3..at + 4 : file[i] \in Nat
    BY <1>1, <1>3
  <2>2. at + 4 - (at + 3) + 1 = 2 /\ at + 3 + 1 - 1 = at + 3 /\ at + 3 + 2 - 1 = at + 4
    OBVIOUS
  <2>3. PICK buf : buf = SubSeq(file, at + 3, at + 4)
    OBVIOUS
  <2>4. \A i \in 1..2 : buf[i] = file[at + 3 + i - 1]
    BY <2>1, <2>2, <2>3, SubSeqProperties
  <2>5. buf[1] \in Nat /\ buf[2] \in Nat
    BY <1>1, <1>3, <2>2, <2>4
  <2>6. Base \in Nat
    BY CheckedLogAssumption
  <2>7. Char(buf[1]) \in Int /\ Char(buf[2]) \in Int
    BY <2>5, <2>6 DEF Char
  <2>8. Char(buf[1]) * Base \in Int
    BY <2>6, <2>7
  <2> QED
    BY <1>2, <2>3, <2>5, <2>7, <2>8 DEF LengthIn
<1>5. Len(bytes) = len
  <2>1. at + 5 \in Int /\ at + 4 + len \in Int /\ \A i \in at + 5..at + 4 + len : file[i] \in Nat
    BY <1>1, <1>3, <1>4
  <2>2. PICK m \in Int, n \in Int : m = at + 5 /\ n = at + 4 + len
    BY <2>1
  <2>3. \A i \in m..n : file[i] \in Nat
    BY <2>1, <2>2
  <2>4. Len(SubSeq(file, m, n)) = IF m <= n THEN n - m + 1 ELSE 0
    BY <2>3, SubSeqProperties
  <2>5. n - m + 1 = len /\ (m <= n => len >= 1) /\ (~(m <= n) => len <= 0) /\ len >= 0
    BY <1>3, <1>4, <2>2
  <2>6. Len(SubSeq(file, m, n)) = len
    BY <1>4, <2>4, <2>5
  <2> QED
    BY <1>2, <2>2, <2>6
<1> QED
  BY <1>1, <1>3, <1>4, <1>5

LEMMA ReadFromExists ==
  ASSUME file \in Seq(Nat)
  PROVE  \E f : IsReadFrom(f, 0)
<1>1. PICK size \in Nat : size = Len(file)
  BY LenProperties
<1> DEFINE Bad == {k \in 0..size : ~\E f : IsReadFrom(f, size - k)}
<1>2. Bad = {}
  <2> SUFFICES ASSUME Bad # {} PROVE FALSE
    OBVIOUS
  <2>1. PICK k \in Bad : \A i \in Bad : k <= i
    <3>1. Bad \subseteq Nat
      OBVIOUS
    <3> HIDE DEF Bad
    <3> QED
      BY <3>1, LeastNat
  <2>2. \E f : \A at \in size - k + 1..size : f[at] = ReadStep(at, f)
    <3>1. CASE k = 0
      BY <3>1
    <3>2. CASE k # 0
      <4>0. k - 1 \in 0..size /\ ~(k <= k - 1) /\ size - (k - 1) = size - k + 1
        BY <2>1, <3>2
      <4>1. k - 1 \notin Bad
        BY <2>1, <4>0
      <4>2. PICK f : IsReadFrom(f, size - k + 1)
        BY <4>0, <4>1
      <4>3. \A at \in size - k + 1..size : f[at] = ReadStep(at, f)
        BY <1>1, <4>2 DEF IsReadFrom
      <4> QED
        BY <4>3
    <3> QED
      BY <3>1, <3>2
  <2>3. PICK f : \A at \in size - k + 1..size : f[at] = ReadStep(at, f)
    BY <2>2
  <2> DEFINE g == [at \in size - k..size |-> ReadStep(at, f)]
  <2>4. ASSUME NEW at \in size - k..size
        PROVE  ReadStep(at, f) = ReadStep(at, g)
    <3>1. CASE Got(at).ret # "NO_ERR"
      BY <3>1 DEF ReadStep
    <3>2. CASE Got(at).ret = "NO_ERR"
      <4>1. PICK to : to = at + 4 + Len(Got(at).rec)
        OBVIOUS
      <4>2. at \in 0..size /\ to \in at + 1..size
        <5>1. at \in 0..Len(file)
          BY <1>1
        <5> QED
          BY <1>1, <3>2, <4>1, <5>1, GotMovesOn
      <4>3. to \in size - k + 1..size /\ to \in size - k..size
        BY <4>2
      <4>4. f[to] = g[to]
        BY <2>3, <4>3
      <4> QED
        BY <3>2, <4>1, <4>4 DEF ReadStep
    <3> QED
      BY <3>1, <3>2
  <2>5. IsReadFrom(g, size - k)
    BY <1>1, <2>4 DEF IsReadFrom
  <2> QED
    BY <2>1, <2>5
<1>3. size \in 0..size /\ size - size = 0
  OBVIOUS
<1>4. size \notin Bad
  BY <1>2
<1> QED
  BY <1>3, <1>4

(* The recursion is what its definition says.                              *)
LEMMA ReadFromIs ==
  ASSUME file \in Seq(Nat), ~FreshBuffer
  PROVE  \A at \in 0..Len(file) : ReadFrom[at] = ReadStep(at, ReadFrom)
<1> DEFINE R(at) == read_record(at, FreshBuffer /\ at = 0)
           Body(at, f) ==
             IF R(at).ret # "NO_ERR" THEN [ret |-> R(at).ret, recs |-> <<>>]
             ELSE [ret  |-> f[at + 4 + Len(R(at).rec)].ret,
                   recs |-> <<R(at).rec>> \o f[at + 4 + Len(R(at).rec)].recs]
<1>1. ASSUME NEW at
      PROVE  R(at) = Got(at)
  BY DEF read_record, Got
<1>2. ReadFrom = CHOOSE f : f = [at \in 0..Len(file) |-> Body(at, f)]
  BY DEF ReadFrom
<1> HIDE DEF R
<1>3. ASSUME NEW at, NEW f
      PROVE  Body(at, f) = ReadStep(at, f)
  BY <1>1 DEF ReadStep
<1> HIDE DEF Body
<1>4. PICK g : g = [at \in 0..Len(file) |-> Body(at, g)]
  <2>1. PICK g : IsReadFrom(g, 0)
    BY ReadFromExists
  <2>2. g = [at \in 0..Len(file) |-> Body(at, g)]
    BY <1>3, <2>1 DEF IsReadFrom
  <2> QED
    BY <2>2
<1>5. ReadFrom = [at \in 0..Len(file) |-> Body(at, ReadFrom)]
  BY <1>2, <1>4
<1> QED
  BY <1>3, <1>5

-----------------------------------------------------------------------------
(* Where the records of the log are.                                       *)
Placed(pos) ==
  /\ pos \in [1..Len(log) + 1 -> Nat]
  /\ pos[1] = 0
  /\ \A n \in 1..Len(log) : pos[n + 1] = pos[n] + 4 + Len(log[n])

LEMMA PlacedInOrder ==
  ASSUME log \in Seq(Records), NEW pos, Placed(pos)
  PROVE  \A i, j \in 1..Len(log) + 1 : i <= j => pos[i] <= pos[j]
<1>1. PICK last \in Nat : last = Len(log) + 1
  BY LenProperties
<1>2. /\ \A n \in 1..last : pos[n] \in Nat
      /\ \A n \in 1..last - 1 : pos[n] <= pos[n + 1]
  <2>1. \A n \in 1..last : pos[n] \in Nat
    BY <1>1 DEF Placed
  <2>2. ASSUME NEW n \in 1..last - 1
        PROVE  pos[n] <= pos[n + 1]
    <3>1. n \in 1..Len(log) /\ n \in 1..last
      BY <1>1, LenProperties
    <3>2. Len(log[n]) \in Nat
      BY <3>1, ElementOfSeq, RecordFacts
    <3>3. pos[n + 1] = pos[n] + 4 + Len(log[n])
      BY <3>1 DEF Placed
    <3> QED
      BY <2>1, <3>1, <3>2, <3>3
  <2> QED
    BY <2>1, <2>2
<1> SUFFICES ASSUME NEW i \in 1..last
             PROVE  \A j \in i..last : pos[i] <= pos[j]
  BY <1>1
<1> DEFINE Bad == {j \in i..last : ~(pos[i] <= pos[j])}
<1> SUFFICES ASSUME Bad # {} PROVE FALSE
  OBVIOUS
<1>3. PICK j \in Bad : \A k \in Bad : j <= k
  <2>1. Bad \subseteq Nat
    OBVIOUS
  <2> HIDE DEF Bad
  <2> QED
    BY <2>1, LeastNat
<1>4. j # i
  BY <1>2, <1>3
<1>5. j - 1 \in i..last /\ ~(j <= j - 1) /\ j - 1 \in 1..last - 1 /\ j - 1 + 1 = j /\ j \in 1..last
  BY <1>3, <1>4
<1>6. j - 1 \notin Bad
  BY <1>3, <1>5
<1>7. pos[i] <= pos[j - 1]
  BY <1>5, <1>6
<1>8. pos[j - 1] <= pos[j] /\ pos[i] \in Nat /\ pos[j - 1] \in Nat /\ pos[j] \in Nat
  BY <1>2, <1>5
<1>9. ~(pos[i] <= pos[j])
  BY <1>3
<1> QED
  BY <1>7, <1>8, <1>9

-----------------------------------------------------------------------------
(* The inductive invariant.  The file is the records of the log one after  *)
(* the other, as far as it goes and zero from a cell on that a crash has   *)
(* left; what was there at the last force() is in front of that cell and   *)
(* on disk.  A writer that is there has lost nothing and is between two    *)
(* records or has some parts of the last one to write.                     *)
Before(k) == IF k = 1 THEN 0 ELSE IF k = 2 THEN 1 ELSE IF k = 3 THEN 2 ELSE 4

Writes(pos, whole) ==
  \/ writer = Gone /\ onDisk = Len(file)
  \/ writer = <<>> /\ whole = Len(file) /\ Len(file) = pos[Len(log) + 1]
  \/ \E k \in 1..4 : /\ writer = SubSeq(Parts(log[Len(log)]), k, 4)
                     /\ whole = Len(file) /\ Len(log) # 0
                     /\ Len(file) = pos[Len(log)] + Before(k)

Lies(pos, whole) ==
  /\ Placed(pos)
  /\ whole \in 0..Len(file) /\ Len(file) <= pos[Len(log) + 1]
  /\ \A n \in 1..Len(log) : Stored(whole, pos[n], log[n])
  /\ pos[forced + 1] <= whole /\ pos[forced + 1] <= onDisk

LogTypeOK ==
  /\ file \in Seq(Nat) /\ log \in Seq(Records)
  /\ forced \in 0..Len(log) /\ onDisk \in 0..Len(file)

LogInv ==
  /\ LogTypeOK
  /\ \E pos : \E whole : Lies(pos, whole) /\ Writes(pos, whole)

-----------------------------------------------------------------------------
(* What the reader makes of it, from the n-th record on.                   *)
ReadsFrom(pos, n) ==
  LET r == ReadFrom[pos[n]]
      m == Len(r.recs)
  IN /\ r.ret \in {"END", "BAD_CRC"}
     /\ r.recs \in Seq(Records) /\ n + m <= Len(log) + 1
     /\ \A i \in 1..m : r.recs[i] = log[n - 1 + i]
     /\ forced + 1 <= n + m
     /\ r.ret = "END" => pos[n + m] = Len(file)
     /\ \A i \in n..n + m - 1 : Stored(Len(file), pos[i], log[i])

LEMMA ReadsNothing ==
  ASSUME log \in Seq(Records), NEW pos, NEW n \in 1..Len(log) + 1, forced + 1 <= n,
         NEW ret \in {"END", "BAD_CRC"}, ReadFrom[pos[n]] = [ret |-> ret, recs |-> <<>>],
         ret = "END" => pos[n] = Len(file)
  PROVE  ReadsFrom(pos, n)
<1>1. PICK r : r = ReadFrom[pos[n]] /\ r.ret = ret /\ r.recs = <<>>
  OBVIOUS
<1>2. Len(r.recs) = 0 /\ r.recs \in Seq(Records) /\ n + 0 = n
  BY <1>1, EmptySeq
<1>3. Len(log) \in Nat /\ n <= Len(log) + 1
  BY LenProperties
<1>4. n..n + 0 - 1 = {} /\ 1..0 = {}
  OBVIOUS
<1> QED
  BY <1>1, <1>2, <1>3, <1>4 DEF ReadsFrom

LEMMA ReadsOneMore ==
  ASSUME log \in Seq(Records), NEW pos, NEW n \in 1..Len(log), ReadsFrom(pos, n + 1),
         Stored(Len(file), pos[n], log[n]),
         ReadFrom[pos[n]] = [ret  |-> ReadFrom[pos[n + 1]].ret,
                             recs |-> <<log[n]>> \o ReadFrom[pos[n + 1]].recs]
  PROVE  ReadsFrom(pos, n)
<1>1. PICK r, s : /\ r = ReadFrom[pos[n]] /\ s = ReadFrom[pos[n + 1]]
                  /\ r.ret = s.ret /\ r.recs = <<log[n]>> \o s.recs
  <2>1. PICK r, s : r = ReadFrom[pos[n]] /\ s = ReadFrom[pos[n + 1]]
    OBVIOUS
  <2>2. r = [ret |-> s.ret, recs |-> <<log[n]>> \o s.recs]
    BY <2>1
  <2>3. r.ret = s.ret /\ r.recs = <<log[n]>> \o s.recs
    BY <2>2
  <2> QED
    BY <2>1, <2>3
<1>2. PICK m \in Nat : /\ s.ret \in {"END", "BAD_CRC"}
                       /\ s.recs \in Seq(Records) /\ m = Len(s.recs) /\ n + 1 + m <= Len(log) + 1
                       /\ \A i \in 1..m : s.recs[i] = log[n + 1 - 1 + i]
                       /\ forced + 1 <= n + 1 + m
                       /\ s.ret = "END" => pos[n + 1 + m] = Len(file)
                       /\ \A i \in n + 1..n + 1 + m - 1 : Stored(Len(file), pos[i], log[i])
  <2>1. s.recs \in Seq(Records)
    BY <1>1 DEF ReadsFrom
  <2>2. PICK m \in Nat : m = Len(s.recs)
    BY <2>1, LenProperties
  <2>3. PICK u : u = n + 1 /\ ReadsFrom(pos, u) /\ s = ReadFrom[pos[u]]
    BY <1>1
  <2>4. s.ret \in {"END", "BAD_CRC"} /\ u + m <= Len(log) + 1 /\ forced + 1 <= u + m
    BY <2>2, <2>3 DEF ReadsFrom
  <2>5. \A i \in 1..m : s.recs[i] = log[u - 1 + i]
    BY <2>2, <2>3 DEF ReadsFrom
  <2>6. s.ret = "END" => pos[u + m] = Len(file)
    BY <2>2, <2>3 DEF ReadsFrom
  <2>7. \A i \in u..u + m - 1 : Stored(Len(file), pos[i], log[i])
    BY <2>2, <2>3 DEF ReadsFrom
  <2>8. n + 1 + m <= Len(log) + 1 /\ forced + 1 <= n + 1 + m
    BY <2>3, <2>4
  <2>9. s.ret = "END" => pos[n + 1 + m] = Len(file)
    BY <2>3, <2>6
  <2>10. \A i \in 1..m : s.recs[i] = log[n + 1 - 1 + i]
    BY <2>3, <2>5
  <2>11. \A i \in n + 1..n + 1 + m - 1 : Stored(Len(file), pos[i], log[i])
    BY <2>3, <2>7
  <2> QED
    BY <2>1, <2>2, <2>4, <2>8, <2>9, <2>10, <2>11
<1>3. log[n] \in Records /\ <<log[n]>> \in Seq(Records) /\ Len(<<log[n]>>) = 1 /\ <<log[n]>>[1] = log[n]
  BY ElementOfSeq
<1>4. /\ r.recs \in Seq(Records) /\ Len(r.recs) = 1 + m
      /\ \A i \in 1..1 + m : r.recs[i] = IF i <= 1 THEN log[n] ELSE s.recs[i - 1]
  <2>1. PICK h : h = <<log[n]>>
    OBVIOUS
  <2>2. h \in Seq(Records) /\ Len(h) = 1 /\ h[1] = log[n] /\ r.recs = h \o s.recs
    BY <1>1, <1>3, <2>1
  <2>3. /\ h \o s.recs \in Seq(Records) /\ Len(h \o s.recs) = Len(h) + Len(s.recs)
        /\ \A i \in 1..Len(h) + Len(s.recs) :
             (h \o s.recs)[i] = IF i <= Len(h) THEN h[i] ELSE s.recs[i - Len(h)]
    <3>1. PICK t \in Seq(Records) : t = s.recs
      BY <1>2
    <3>2. /\ h \o t \in Seq(Records) /\ Len(h \o t) = Len(h) + Len(t)
          /\ \A i \in 1..Len(h) + Len(t) : (h \o t)[i] = IF i <= Len(h) THEN h[i] ELSE t[i - Len(h)]
      BY <2>2, ConcatProperties
    <3> QED
      BY <3>1, <3>2
  <2>4. /\ r.recs \in Seq(Records) /\ Len(r.recs) = 1 + m
        /\ \A i \in 1..1 + m : r.recs[i] = IF i <= 1 THEN h[i] ELSE s.recs[i - 1]
    BY <1>2, <2>2, <2>3
  <2>5. \A i \in 1..1 + m : i <= 1 => i = 1
    OBVIOUS
  <2> QED
    BY <2>2, <2>4, <2>5
<1>5. ASSUME NEW i \in 1..1 + m
      PROVE  r.recs[i] = log[n - 1 + i]
  <2>1. CASE i = 1
    BY <1>4, <2>1
  <2>2. CASE i # 1
    <3>1. i - 1 \in 1..m /\ n + 1 - 1 + (i - 1) = n - 1 + i /\ ~(i <= 1)
      BY <2>2
    <3> QED
      BY <1>2, <1>4, <3>1
  <2> QED
    BY <2>1, <2>2
<1>6. n + (1 + m) = n + 1 + m /\ Len(log) \in Nat /\ n + (1 + m) - 1 = n + 1 + m - 1
  BY LenProperties
<1>7. \A i \in n..n + (1 + m) - 1 : i = n \/ i \in n + 1..n + 1 + m - 1
  OBVIOUS
<1>8. \A i \in n..n + (1 + m) - 1 : Stored(Len(file), pos[i], log[i])
  BY <1>2, <1>7
<1> QED
  BY <1>1, <1>2, <1>4, <1>5, <1>6, <1>8 DEF ReadsFrom

(* A step of the recursion, from the last record back to the first: the    *)
(* record at hand is read or the reader stops there, and it does not stop  *)
(* at one that was forced.                                                 *)
LEMMA ReadsOn ==
  ASSUME LogTypeOK, ~FreshBuffer, \A len \in Lengths : Readable(len),
         NEW pos, NEW whole, Lies(pos, whole),
         NEW n \in 1..Len(log) + 1, pos[n] <= Len(file),
         n <= Len(log) /\ pos[n + 1] <= Len(file) => ReadsFrom(pos, n + 1)
  PROVE  ReadsFrom(pos, n)
<1>1. PICK size \in Nat, last \in Nat : size = Len(file) /\ last = Len(log)
  BY LenProperties DEF LogTypeOK
<1>2. /\ pos[n] \in Nat /\ pos[n] \in 0..Len(file) /\ forced \in 0..last /\ n \in 1..last + 1
      /\ file \in Seq(Nat) /\ log \in Seq(Records) /\ Placed(pos)
  <2>1. file \in Seq(Nat) /\ log \in Seq(Records) /\ Placed(pos) /\ forced \in 0..last
    BY <1>1 DEF LogTypeOK, Lies
  <2>2. pos[n] \in Nat /\ n \in 1..last + 1
    BY <1>1, <2>1 DEF Placed
  <2>3. pos[n] \in 0..Len(file)
    BY <1>1, <2>2
  <2> QED
    BY <2>1, <2>2, <2>3
<1>3. PICK at, r : at \in 0..Len(file) /\ at = pos[n] /\ r = Got(at)
  BY <1>2
<1>4. ReadFrom[at] = ReadStep(at, ReadFrom)
  BY <1>2, <1>3, ReadFromIs
<1>5. CASE n = last + 1
  <2>1. at = size
    BY <1>1, <1>2, <1>3, <1>5 DEF Lies
  <2>2. r.ret = "END"
    BY <1>1, <1>3, <2>1 DEF Got, read_record
  <2>3. ReadFrom[pos[n]] = [ret |-> "END", recs |-> <<>>]
    BY <1>3, <1>4, <2>2 DEF ReadStep
  <2>4. forced + 1 <= n
    BY <1>2, <1>5
  <2> QED
    BY <1>1, <1>2, <1>3, <2>1, <2>3, <2>4, ReadsNothing
<1>6. CASE n # last + 1
  <2>1. n \in 1..Len(log) /\ n + 1 \in 1..Len(log) + 1
    BY <1>1, <1>2, <1>6
  <2>2. PICK rec \in Records, m \in Nat : rec = log[n] /\ m = Len(rec) /\ m \in Lengths
    BY <1>2, <2>1, ElementOfSeq, RecordFacts
  <2>3. pos[n + 1] = at + 4 + m /\ Stored(whole, at, rec) /\ whole \in Nat /\ whole <= size
    BY <1>1, <1>3, <2>1, <2>2 DEF Lies, Placed
  <2>4. /\ r.ret \in {"END", "BAD_CRC", "NO_ERR"}
        /\ r.ret = "END" => at = size
        /\ r.ret = "NO_ERR" => r.rec = rec /\ at + 4 + m <= size /\ Stored(size, at, rec)
        /\ at + 4 + m <= whole /\ whole <= size => r.ret = "NO_ERR"
    <3>1. file \in Seq(Nat) /\ Readable(Len(rec)) /\ whole \in Nat /\ Stored(whole, at, rec)
      BY <1>2, <2>2, <2>3
    <3>2. at \in 0..Len(file) /\ m = Len(rec) /\ size = Len(file) /\ r = Got(at)
      BY <1>1, <1>3, <2>2
    <3> QED
      BY <3>1, <3>2, ReadOne
  <2>5. CASE r.ret # "NO_ERR"
    <3>1. ReadFrom[pos[n]] = [ret |-> r.ret, recs |-> <<>>]
      BY <1>3, <1>4, <2>5 DEF ReadStep
    <3>2. forced + 1 <= n
      <4> SUFFICES ASSUME ~(forced + 1 <= n) PROVE FALSE
        OBVIOUS
      <4>1. n + 1 <= forced + 1 /\ forced + 1 \in 1..Len(log) + 1
        BY <1>1, <1>2
      <4>2. pos[n + 1] <= pos[forced + 1] /\ pos[n + 1] \in Nat /\ pos[forced + 1] \in Nat
        BY <1>2, <2>1, <4>1, PlacedInOrder DEF Placed
      <4>3. pos[forced + 1] <= whole
        BY DEF Lies
      <4> QED
        BY <2>3, <2>4, <2>5, <4>2, <4>3
    <3>3. r.ret \in {"END", "BAD_CRC"} /\ (r.ret = "END" => pos[n] = Len(file))
      BY <1>1, <1>3, <2>4, <2>5
    <3> QED
      BY <1>2, <3>1, <3>2, <3>3, ReadsNothing
  <2>6. CASE r.ret = "NO_ERR"
    <3>1. r.rec = rec /\ at + 4 + m <= size /\ Stored(Len(file), at, rec)
      BY <1>1, <2>4, <2>6
    <3>2. ReadsFrom(pos, n + 1)
      BY <1>1, <2>1, <2>3, <3>1
    <3>3. ReadFrom[pos[n]] = [ret  |-> ReadFrom[pos[n + 1]].ret,
                             recs |-> <<log[n]>> \o ReadFrom[pos[n + 1]].recs]
      BY <1>3, <1>4, <2>2, <2>3, <2>6, <3>1 DEF ReadStep
    <3> QED
      BY <1>2, <1>3, <2>1, <2>2, <3>1, <3>2, <3>3, ReadsOneMore
  <2> QED
    BY <2>5, <2>6
<1> QED
  BY <1>5, <1>6

LEMMA ReaderReads ==
  ASSUME LogTypeOK, ~FreshBuffer, \A len \in Lengths : Readable(len),
         NEW pos, NEW whole, Lies(pos, whole)
  PROVE  ReadsFrom(pos, 1) /\ pos[1] = 0
<1>1. PICK last \in Nat : last = Len(log) + 1 /\ last >= 1
  BY LenProperties DEF LogTypeOK
<1> DEFINE Bad == {k \in 0..last - 1 : pos[last - k] <= Len(file) /\ ~ReadsFrom(pos, last - k)}
<1>2. Bad = {}
  <2> SUFFICES ASSUME Bad # {} PROVE FALSE
    OBVIOUS
  <2>1. PICK k \in Bad : \A i \in Bad : k <= i
    <3>1. Bad \subseteq Nat
      OBVIOUS
    <3> HIDE DEF Bad
    <3> QED
      BY <3>1, LeastNat
  <2>2. PICK n \in 1..last : n = last - k
    BY <1>1, <2>1
  <2>3. pos[n] <= Len(file) /\ ~ReadsFrom(pos, n)
    BY <2>1, <2>2
  <2>4. ASSUME n <= Len(log), pos[n + 1] <= Len(file)
        PROVE  ReadsFrom(pos, n + 1)
    <3>1. k - 1 \in 0..last - 1 /\ ~(k <= k - 1) /\ last - (k - 1) = n + 1
      BY <1>1, <2>1, <2>2, <2>4
    <3>2. k - 1 \notin Bad
      BY <2>1, <3>1
    <3> QED
      BY <2>4, <3>1, <3>2
  <2>5. n \in 1..Len(log) + 1
    BY <1>1
  <2> QED
    BY <2>3, <2>4, <2>5, ReadsOn
<1>3. last - 1 \in 0..last - 1 /\ last - (last - 1) = 1
  BY <1>1
<1>4. last - 1 \notin Bad
  BY <1>2
<1>5. pos[1] = 0 /\ 0 <= Len(file)
  BY LenProperties DEF Lies, Placed, LogTypeOK
<1> QED
  BY <1>3, <1>4, <1>5

(* What it says of ReadLog.                                                *)
LEMMA ReadLogReads ==
  ASSUME LogInv, ~FreshBuffer, \A len \in Lengths : Readable(len),
         NEW pos, NEW whole, Lies(pos, whole), NEW r, r = ReadLog
  PROVE  /\ r.ret \in {"END", "BAD_CRC"} /\ r.recs \in Seq(Records)
         /\ Len(r.recs) \in forced..Len(log)
         /\ \A i \in 1..Len(r.recs) : r.recs[i] = log[i]
         /\ r.ret = "END" => /\ pos[Len(r.recs) + 1] = Len(file)
                            /\ \A i \in 1..Len(r.recs) : Stored(Len(file), pos[i], log[i])
<1>0. LogTypeOK
  BY DEF LogInv
<1>1. ReadsFrom(pos, 1) /\ pos[1] = 0
  BY <1>0, ReaderReads
<1>2. r = ReadFrom[pos[1]]
  BY <1>1 DEF ReadLog
<1>3. r.ret \in {"END", "BAD_CRC"} /\ r.recs \in Seq(Records)
  BY <1>1, <1>2 DEF ReadsFrom
<1>4. PICK m \in Nat : m = Len(r.recs)
  BY <1>3, LenProperties
<1>5. /\ 1 + m <= Len(log) + 1 /\ forced + 1 <= 1 + m
      /\ r.ret = "END" => pos[1 + m] = Len(file)
  BY <1>1, <1>2, <1>4 DEF ReadsFrom
<1>6. \A i \in 1..m : r.recs[i] = log[1 - 1 + i]
  BY <1>1, <1>2, <1>4 DEF ReadsFrom
<1>7. r.ret = "END" => \A i \in 1..1 + m - 1 : Stored(Len(file), pos[i], log[i])
  BY <1>1, <1>2, <1>4 DEF ReadsFrom
<1>8. Len(log) \in Nat /\ forced \in Nat /\ 1 + m - 1 = m /\ 1 + m = m + 1
      /\ \A i \in 1..m : 1 - 1 + i = i
  BY <1>0, LenProperties DEF LogTypeOK
<1>9. m \in forced..Len(log)
  BY <1>5, <1>8
<1>10. \A i \in 1..m : r.recs[i] = log[i]
  BY <1>6, <1>8
<1> QED
  BY <1>3, <1>4, <1>5, <1>7, <1>8, <1>9, <1>10

(* The invariant gives the property.                                       *)
LEMMA InvReadsBack ==
  ASSUME LogInv, ~FreshBuffer, \A len \in Lengths : Readable(len)
  PROVE  ForcedIsReadBack
<1>1. PICK pos, whole : Lies(pos, whole)
  BY DEF LogInv
<1>2. PICK r : r = ReadLog
  OBVIOUS
<1>3. /\ r.ret \in {"END", "BAD_CRC"} /\ r.recs \in Seq(Records)
      /\ Len(r.recs) \in forced..Len(log)
      /\ \A i \in 1..Len(r.recs) : r.recs[i] = log[i]
  BY <1>1, <1>2, ReadLogReads
<1>4. PICK m \in Nat, last \in Nat : /\ m = Len(r.recs) /\ last = Len(log) /\ m <= last /\ forced <= m
                                     /\ log \in Seq(Records)
  BY <1>3, LenProperties DEF LogInv, LogTypeOK
<1>5. SubSeq(r.recs, 1, m) = SubSeq(log, 1, m)
  <2>1. \A i \in 1..m : r.recs[i] \in Records /\ log[i] \in Records
    BY <1>3, <1>4, ElementOfSeq
  <2>2. PICK a, b : a = SubSeq(r.recs, 1, m) /\ b = SubSeq(log, 1, m)
    OBVIOUS
  <2>3. m - 1 + 1 = m /\ (IF 1 <= m THEN m - 1 + 1 ELSE 0) = m /\ \A i \in 1..m : 1 + i - 1 = i
    OBVIOUS
  <2>4. a \in Seq(Records) /\ Len(a) = m /\ \A i \in 1..m : a[i] = r.recs[i]
    BY <2>1, <2>2, <2>3, SubSeqProperties
  <2>5. b \in Seq(Records) /\ Len(b) = m /\ \A i \in 1..m : b[i] = log[i]
    BY <2>1, <2>2, <2>3, SubSeqProperties
  <2>6. a = b
    BY <1>3, <1>4, <2>4, <2>5, SeqEqual
  <2> QED
    BY <2>2, <2>6
<1>6. IsPrefix(r.recs, log)
  BY <1>4, <1>5 DEF IsPrefix
<1>7. r.ret # "abort" /\ forced <= Len(r.recs)
  BY <1>3, <1>4
<1> QED
  BY <1>2, <1>6, <1>7 DEF ForcedIsReadBack

-----------------------------------------------------------------------------
(* The steps.                                                              *)
LEMMA NotGone ==
  ASSUME NEW rec \in Records, NEW k \in 1..4
  PROVE  /\ Parts(rec) \in Seq(Seq(Nat)) /\ Len(Parts(rec)) = 4
         /\ SubSeq(Parts(rec), k, 4) # Gone /\ SubSeq(Parts(rec), k, 4) # <<>>
         /\ Head(SubSeq(Parts(rec), k, 4)) = Parts(rec)[k]
         /\ Tail(SubSeq(Parts(rec), k, 4)) = SubSeq(Parts(rec), k + 1, 4)
         /\ SubSeq(Parts(rec), 5, 4) = <<>> /\ SubSeq(Parts(rec), 1, 4) = Parts(rec)
<1>1. rec \in Seq(Nat) /\ LenOf(rec) \in Seq(Nat) /\ LenOf(rec) \o rec \in Seq(Nat)
  <2>1. Len(rec) \in Lengths /\ rec \in Seq(0..Base - 1) /\ 0..Base - 1 \subseteq Nat
    BY RecordFacts
  <2>2. rec \in Seq(Nat)
    BY <2>1, SeqMonotonic
  <2>3. LenOf(rec) \in Seq(Nat)
    BY <2>1, LenBufFacts DEF LenOf, LenBuf
  <2> QED
    BY <2>2, <2>3, ConcatProperties
<1>2. Crc(LenOf(rec) \o rec) \in Nat
  BY <1>1, CrcIsLarge
<1>3. Parts(rec) = <<<<Star>>, <<Crc(LenOf(rec) \o rec)>>, LenOf(rec), rec>>
  BY DEF Parts, LenOf
<1>4. PICK a \in Seq(Nat), b \in Seq(Nat) : a = <<Star>> /\ b = <<Crc(LenOf(rec) \o rec)>>
  <2>1. \A x \in Nat : <<x>> \in Seq(Nat)
    OBVIOUS
  <2>2. Star \in Nat
    BY DEF Star
  <2> QED
    BY <1>2, <2>1, <2>2
<1>5. PICK c \in Seq(Nat) : c = LenOf(rec)
  BY <1>1
<1>6. Parts(rec) = <<a, b, c, rec>>
  BY <1>3, <1>4, <1>5
<1>7. Parts(rec) \in Seq(Seq(Nat)) /\ Len(Parts(rec)) = 4
  BY <1>1, <1>6
<1>8. PICK s : s = Parts(rec)
  OBVIOUS
<1>9. s \in Seq(Seq(Nat)) /\ Len(s) = 4 /\ k \in 1..Len(s) /\ Len(s) \in k..Len(s)
  <2>1. s \in Seq(Seq(Nat)) /\ Len(s) = 4
    BY <1>7, <1>8
  <2>2. k \in 1..4 /\ 4 \in k..4
    OBVIOUS
  <2> QED
    BY <2>1, <2>2
<1>10. Head(SubSeq(s, k, Len(s))) = s[k] /\ Tail(SubSeq(s, k, Len(s))) = SubSeq(s, k + 1, Len(s))
  BY <1>9, HeadTailOfSubSeq
<1>11. SubSeq(s, 5, 4) = <<>>
  BY SubSeqEmpty
<1>12. SubSeq(s, 1, Len(s)) = s
  BY <1>9, SubSeqFull
<1>13. PICK q : q = SubSeq(s, k, 4) /\ Len(q) = 4 - k + 1 /\ q[1] = s[k] /\ s[k] \in Seq(Nat)
  <2>0. \A i \in 1..4 : s[i] \in Seq(Nat)
    BY <1>9, ElementOfSeq
  <2>8. \A i \in k..4 : i \in 1..4
    OBVIOUS
  <2>1. \A i \in k..4 : s[i] \in Seq(Nat)
    BY <2>0, <2>8
  <2>2. k \in Int /\ 4 \in Int /\ k <= 4 /\ 1 \in 1..4 - k + 1 /\ k + 1 - 1 = k
    OBVIOUS
  <2>3. PICK q : q = SubSeq(s, k, 4)
    OBVIOUS
  <2>4. Len(q) = IF k <= 4 THEN 4 - k + 1 ELSE 0
    BY <2>1, <2>2, <2>3, SubSeqProperties
  <2>5. \A i \in 1..4 - k + 1 : q[i] = s[k + i - 1]
    BY <2>1, <2>2, <2>3, SubSeqProperties
  <2>6. q[1] = s[k]
    BY <2>2, <2>5
  <2>7. Len(q) = 4 - k + 1
    BY <2>2, <2>4
  <2> QED
    BY <2>0, <2>3, <2>6, <2>7
<1>14. q # <<>>
  <2>1. Len(<<>>) = 0 /\ 4 - k + 1 # 0
    OBVIOUS
  <2> QED
    BY <1>13, <2>1
<1>15. q # Gone
  <2> SUFFICES ASSUME q = Gone PROVE FALSE
    OBVIOUS
  <2>1. s[k] = None
    BY <1>13 DEF Gone
  <2>2. None[1] = -1 /\ Len(None) = 1
    BY DEF None
  <2>3. None \in Seq(Nat)
    BY <1>13, <2>1
  <2>4. None[1] \in Nat
    <3>1. 1 \in 1..Len(None)
      BY <2>2
    <3> QED
      BY <2>3, <3>1, ElementOfSeq
  <2> QED
    BY <2>2, <2>4
<1> QED
  BY <1>7, <1>8, <1>9, <1>10, <1>11, <1>12, <1>13, <1>14, <1>15

(* A part is the cells from an offset in the record on.                    *)
IsPart(p, rec, k) ==
  /\ p \in Seq(Nat)
  /\ \A j \in 1..Len(p) : p[j] = CellOf(rec, Before(k) + j)
  /\ Before(k) + Len(p) = IF k = 4 THEN 4 + Len(rec) ELSE Before(k + 1)

LEMMA PartIsCells ==
  ASSUME NEW rec \in Records, Readable(Len(rec)), NEW k \in 1..4, NEW p, p = Parts(rec)[k]
  PROVE  IsPart(p, rec, k)
<1>1. Parts(rec) = <<<<Star>>, <<Crc(LenOf(rec) \o rec)>>, LenOf(rec), rec>>
  BY DEF Parts, LenOf
<1>2. /\ CellOf(rec, 1) = Star /\ CellOf(rec, 2) = Crc(LenOf(rec) \o rec)
      /\ CellOf(rec, 3) = LenOf(rec)[1] /\ CellOf(rec, 4) = LenOf(rec)[2]
      /\ \A i \in 1..Len(rec) : CellOf(rec, i + 4) = rec[i]
      /\ Len(LenOf(rec)) = 2 /\ Len(rec) \in Nat
  BY CellFacts, RecordFacts
<1>3. p \in Seq(Nat)
  BY NotGone, ElementOfSeq
<1>4. CASE k = 1
  <2>1. p = <<Star>>
    BY <1>1, <1>4
  <2> QED
    BY <1>2, <1>3, <1>4, <2>1 DEF Before, IsPart
<1>5. CASE k = 2
  <2>1. p = <<Crc(LenOf(rec) \o rec)>>
    BY <1>1, <1>5
  <2>2. Len(p) = 1 /\ p[1] = CellOf(rec, 2)
    BY <1>2, <2>1
  <2>3. Before(k) = 1 /\ Before(k + 1) = 2 /\ k # 4 /\ 1 + 1 = 2
    BY <1>5 DEF Before
  <2>4. \A j \in 1..1 : j = 1
    OBVIOUS
  <2> QED
    BY <1>3, <2>2, <2>3, <2>4 DEF IsPart
<1>6. CASE k = 3
  <2>1. p = LenOf(rec)
    BY <1>1, <1>6
  <2>2. Len(p) = 2 /\ p[1] = CellOf(rec, 3) /\ p[2] = CellOf(rec, 4)
    BY <1>2, <2>1
  <2>3. Before(k) = 2 /\ Before(k + 1) = 4 /\ k # 4 /\ 2 + 1 = 3 /\ 2 + 2 = 4
    BY <1>6 DEF Before
  <2>4. \A j \in 1..2 : j = 1 \/ j = 2
    OBVIOUS
  <2>5. \A j \in 1..2 : p[j] = CellOf(rec, 2 + j)
    BY <2>2, <2>3, <2>4
  <2> QED
    BY <1>3, <2>2, <2>3, <2>5 DEF IsPart
<1>7. CASE k = 4
  <2>1. p = rec
    BY <1>1, <1>7
  <2>2. Before(k) = 4
    BY <1>7 DEF Before
  <2>3. \A i \in 1..Len(rec) : 4 + i = i + 4
    BY <1>2
  <2> QED
    BY <1>2, <1>3, <1>7, <2>1, <2>2, <2>3 DEF IsPart
<1> QED
  BY <1>4, <1>5, <1>6, <1>7

LEMMA InitHoldsLogInv ==
  LogInit => LogInv
<1> SUFFICES ASSUME LogInit PROVE LogInv
  OBVIOUS
<1>1. Len(file) = 0 /\ Len(log) = 0 /\ LogTypeOK /\ forced = 0 /\ onDisk = 0
  BY EmptySeq DEF LogInit, LogTypeOK
<1>2. PICK pos : pos = [n \in 1..1 |-> 0]
  OBVIOUS
<1>3. Placed(pos)
  BY <1>1, <1>2 DEF Placed
<1>4. Lies(pos, 0)
  BY <1>1, <1>2, <1>3 DEF Lies
<1>5. Writes(pos, 0)
  BY <1>1 DEF Writes, LogInit
<1> QED
  BY <1>1, <1>4, <1>5 DEF LogInv

LEMMA ForceKeepsLogInv ==
  ASSUME LogInv, force
  PROVE  LogInv'
<1>1. PICK pos, whole : Lies(pos, whole) /\ Writes(pos, whole)
  BY DEF LogInv
<1>2. /\ writer = <<>> /\ onDisk' = Len(file) /\ forced' = Len(log)
      /\ file' = file /\ log' = log /\ writer' = writer
  BY DEF force
<1>3. whole = Len(file) /\ Len(file) = pos[Len(log) + 1]
  <2>1. writer # Gone
    BY <1>2, EmptySeq DEF Gone
  <2>2. ASSUME NEW k \in 1..4, writer = SubSeq(Parts(log[Len(log)]), k, 4), Len(log) # 0
        PROVE  FALSE
    <3>1. log[Len(log)] \in Records
      BY <2>2, ElementOfSeq, LenProperties DEF LogInv, LogTypeOK
    <3> QED
      BY <1>2, <2>2, <3>1, NotGone
  <2> QED
    BY <1>1, <2>1, <2>2 DEF Writes
<1>4. Len(log) \in Nat /\ Len(file) \in Nat /\ file \in Seq(Nat) /\ log \in Seq(Records)
  BY LenProperties DEF LogInv, LogTypeOK
<1>5. LogTypeOK'
  BY <1>2, <1>4 DEF LogTypeOK
<1>6. Lies(pos, whole)'
  <2>1. Placed(pos)'
    BY <1>1, <1>2 DEF Lies, Placed
  <2>2. \A n \in 1..Len(log) : Stored(whole, pos[n], log[n])'
    BY <1>1, <1>2 DEF Lies, Stored
  <2> QED
    BY <1>1, <1>2, <1>3, <1>4, <2>1, <2>2 DEF Lies
<1>7. Writes(pos, whole)'
  BY <1>2, <1>3 DEF Writes
<1> QED
  BY <1>5, <1>6, <1>7 DEF LogInv

LEMMA UnchangedKeepsLogInv ==
  ASSUME LogInv, UNCHANGED logVars
  PROVE  LogInv'
<1>1. PICK pos, whole : Lies(pos, whole) /\ Writes(pos, whole)
  BY DEF LogInv
<1>2. file' = file /\ onDisk' = onDisk /\ log' = log /\ forced' = forced /\ writer' = writer
  BY DEF logVars
<1>3. LogTypeOK'
  BY <1>2 DEF LogInv, LogTypeOK
<1>4. Lies(pos, whole)'
  <2>1. Placed(pos)'
    BY <1>1, <1>2 DEF Lies, Placed
  <2>2. \A n \in 1..Len(log) : Stored(whole, pos[n], log[n])'
    BY <1>1, <1>2 DEF Lies, Stored
  <2> QED
    BY <1>1, <1>2, <2>1, <2>2 DEF Lies
<1>5. Writes(pos, whole)'
  BY <1>1, <1>2 DEF Writes
<1> QED
  BY <1>3, <1>4, <1>5 DEF LogInv

(* A crash leaves less of the file, and zeroes some of what it leaves, all *)
(* of it behind what is on disk.                                           *)
LEMMA CrashKeepsLogInv ==
  ASSUME LogInv, LogCrash
  PROVE  LogInv'
<1>1. PICK pos, whole : Lies(pos, whole)
  BY DEF LogInv
<1>2. PICK size \in onDisk..Len(file), w \in onDisk..Len(file) :
        /\ w <= size
        /\ file' = [n \in 1..size |-> IF n <= w THEN file[n] ELSE 0]
        /\ onDisk' = size /\ writer' = Gone /\ log' = log /\ forced' = forced
  BY DEF LogCrash
<1>3. PICK total \in Nat : /\ total = Len(file) /\ file \in Seq(Nat) /\ onDisk \in Nat
                           /\ log \in Seq(Records) /\ Len(log) \in Nat /\ forced \in 0..Len(log)
                           /\ \A i \in 1..total : file[i] \in Nat
  BY LenProperties, ElementOfSeq DEF LogInv, LogTypeOK
<1>4. size \in Nat /\ size <= total /\ w \in Nat /\ w <= size /\ onDisk <= w
  BY <1>2, <1>3
<1>5. /\ file' \in Seq(Nat) /\ Len(file') = size
      /\ \A i \in 1..size : file'[i] = IF i <= w THEN file[i] ELSE 0
  <2>1. \A i \in 1..size : file[i] \in Nat
    BY <1>3, <1>4
  <2>2. file' \in [1..size -> Nat]
    BY <1>2, <2>1
  <2>3. file' \in Seq(Nat)
    BY <1>4, <2>2, SeqOver
  <2>4. Len(file') = size
    BY <1>4, <2>2, <2>3, LenProperties
  <2> QED
    BY <1>2, <2>3, <2>4
<1>6. PICK rest \in Nat : rest = IF whole <= w THEN whole ELSE w
  BY <1>1, <1>3, <1>4 DEF Lies
<1>7. LogTypeOK'
  BY <1>2, <1>3, <1>4, <1>5 DEF LogTypeOK
<1>8. ASSUME NEW n \in 1..Len(log)
      PROVE  Stored(rest, pos[n], log[n])'
  <2>1. PICK at, rec : at = pos[n] /\ rec = log[n] /\ at \in Nat /\ Len(rec) \in Nat
    <3>1. pos \in [1..Len(log) + 1 -> Nat]
      BY <1>1 DEF Lies, Placed
    <3>2. n \in 1..Len(log) + 1
      BY <1>3
    <3>3. pos[n] \in Nat /\ log[n] \in Records
      BY <1>3, <3>1, <3>2, ElementOfSeq
    <3> QED
      BY <3>3, RecordFacts
  <2>2. Stored(whole, at, rec) /\ whole \in Nat
    BY <1>1, <1>3, <2>1 DEF Lies
  <2>3. ASSUME NEW j \in 1..4 + Len(rec), at + j <= size
        PROVE  file'[at + j] = IF at + j <= rest THEN CellOf(rec, j) ELSE 0
    <3>1. at + j \in 1..size /\ at + j \in Nat
      BY <1>4, <2>1, <2>3
    <3>2. file'[at + j] = IF at + j <= w THEN file[at + j] ELSE 0
      BY <1>5, <3>1
    <3>3. file[at + j] = IF at + j <= whole THEN CellOf(rec, j) ELSE 0
      <4>1. at + j <= Len(file)
        BY <1>3, <1>4, <2>3, <3>1
      <4> QED
        BY <2>2, <4>1 DEF Stored
    <3> QED
      BY <1>4, <1>6, <2>2, <3>1, <3>2, <3>3
  <2>4. Stored(rest, at, rec)'
    BY <1>5, <2>3 DEF Stored
  <2> QED
    BY <1>2, <2>1, <2>4
<1>9. Lies(pos, rest)'
  <2>1. Placed(pos)'
    BY <1>1, <1>2 DEF Lies, Placed
  <2>2. pos[Len(log) + 1] \in Nat /\ pos[forced + 1] \in Nat /\ whole \in Nat
    <3>1. pos \in [1..Len(log) + 1 -> Nat] /\ whole \in 0..Len(file)
      BY <1>1 DEF Lies, Placed
    <3>2. Len(log) + 1 \in 1..Len(log) + 1 /\ forced + 1 \in 1..Len(log) + 1
      BY <1>3
    <3>3. pos[Len(log) + 1] \in Nat
      BY <3>1, <3>2
    <3>4. pos[forced + 1] \in Nat
      BY <3>1, <3>2
    <3> QED
      BY <1>3, <3>1, <3>3, <3>4
  <2>3. rest \in 0..Len(file') /\ Len(file') <= pos[Len(log) + 1]
    BY <1>1, <1>3, <1>4, <1>5, <1>6, <2>2 DEF Lies
  <2>4. pos[forced + 1] <= rest /\ pos[forced + 1] <= onDisk'
    BY <1>1, <1>2, <1>3, <1>4, <1>6, <2>2 DEF Lies
  <2> QED
    BY <1>2, <1>8, <2>1, <2>3, <2>4 DEF Lies
<1>10. Writes(pos, rest)'
  BY <1>2, <1>5 DEF Writes
<1> QED
  BY <1>7, <1>9, <1>10 DEF LogInv

LEMMA RecordKeepsLogInv ==
  ASSUME LogInv, NEW rec \in Records, write_record(rec)
  PROVE  LogInv'
<1>1. PICK pos, whole : Lies(pos, whole) /\ Writes(pos, whole)
  BY DEF LogInv
<1>2. /\ writer = <<>> /\ writer' = Parts(rec) /\ log' = Append(log, rec)
      /\ file' = file /\ onDisk' = onDisk /\ forced' = forced
  BY DEF write_record
<1>3. PICK last \in Nat : /\ last = Len(log) /\ file \in Seq(Nat) /\ log \in Seq(Records)
                          /\ Len(file) \in Nat /\ forced \in 0..last /\ onDisk \in 0..Len(file)
  BY LenProperties DEF LogInv, LogTypeOK
<1>4. whole = Len(file) /\ Len(file) = pos[last + 1]
  <2>1. writer # Gone
    BY <1>2, EmptySeq DEF Gone
  <2>2. ASSUME NEW k \in 1..4, writer = SubSeq(Parts(log[Len(log)]), k, 4), Len(log) # 0
        PROVE  FALSE
    <3>1. log[Len(log)] \in Records
      BY <1>3, <2>2, ElementOfSeq
    <3> QED
      BY <1>2, <2>2, <3>1, NotGone
  <2> QED
    BY <1>1, <1>3, <2>1, <2>2 DEF Writes
<1>5. /\ log' \in Seq(Records) /\ Len(log') = last + 1 /\ log'[last + 1] = rec
      /\ \A n \in 1..last : log'[n] = log[n]
  BY <1>2, <1>3, AppendProperties
<1>6. Len(rec) \in Nat
  BY RecordFacts
<1>7. /\ pos \in [1..last + 1 -> Nat] /\ pos[1] = 0
      /\ \A n \in 1..last : pos[n + 1] = pos[n] + 4 + Len(log[n])
  BY <1>1, <1>3 DEF Lies, Placed
<1>8. PICK to : to = [n \in 1..last + 2 |-> IF n = last + 2 THEN pos[last + 1] + 4 + Len(rec) ELSE pos[n]]
  OBVIOUS
<1>9. /\ to \in [1..last + 2 -> Nat] /\ \A n \in 1..last + 1 : to[n] = pos[n]
      /\ to[last + 2] = pos[last + 1] + 4 + Len(rec) /\ pos[last + 1] \in Nat
  <2>1. \A n \in 1..last + 1 : pos[n] \in Nat /\ n \in 1..last + 2 /\ n # last + 2
    BY <1>7
  <2>2. pos[last + 1] \in Nat /\ pos[last + 1] + 4 + Len(rec) \in Nat
    BY <1>6, <2>1
  <2>3. \A n \in 1..last + 2 : n # last + 2 => n \in 1..last + 1
    OBVIOUS
  <2>4. to \in [1..last + 2 -> Nat]
    BY <1>8, <2>1, <2>2, <2>3
  <2> QED
    BY <1>8, <2>1, <2>2, <2>4
<1>10. Placed(to)'
  <2>1. ASSUME NEW n \in 1..last + 1
        PROVE  to[n + 1] = to[n] + 4 + Len(log'[n])
    <3>1. CASE n = last + 1
      <4>1. to[n] = pos[last + 1] /\ to[n + 1] = pos[last + 1] + 4 + Len(rec) /\ log'[n] = rec
        <5>1. n + 1 = last + 2
          BY <3>1
        <5> QED
          BY <1>5, <1>9, <3>1, <5>1
      <4> QED
        BY <4>1
    <3>2. CASE n # last + 1
      <4>1. n \in 1..last /\ n + 1 \in 1..last + 1
        BY <3>2
      <4> QED
        BY <1>5, <1>7, <1>9, <4>1
    <3> QED
      BY <3>1, <3>2
  <2>2. to[1] = 0 /\ last + 1 + 1 = last + 2
    BY <1>7, <1>9
  <2> QED
    BY <1>5, <1>9, <2>1, <2>2 DEF Placed
<1>11. ASSUME NEW n \in 1..last + 1
       PROVE  Stored(whole, to[n], log[n])'
  <2>1. CASE n = last + 1
    <3>1. to[n] = Len(file) /\ log'[n] = rec
      BY <1>4, <1>5, <1>9, <2>1
    <3>2. PICK at \in Nat : at = Len(file)
      BY <1>3
    <3>3. \A j \in 1..4 + Len(rec) : ~(at + j <= Len(file'))
      BY <1>2, <1>6, <3>2
    <3>4. Stored(whole, at, rec)'
      BY <3>3 DEF Stored
    <3> QED
      BY <3>1, <3>2, <3>4
  <2>2. CASE n # last + 1
    <3>1. n \in 1..last
      BY <2>2
    <3>2. to[n] = pos[n] /\ log'[n] = log[n] /\ Stored(whole, pos[n], log[n])
      BY <1>1, <1>3, <1>5, <1>9, <3>1 DEF Lies
    <3> QED
      BY <1>2, <3>2 DEF Stored
  <2> QED
    BY <2>1, <2>2
<1>12. LogTypeOK'
  BY <1>2, <1>3, <1>5 DEF LogTypeOK
<1>13. Lies(to, whole)'
  <2>1. to[forced + 1] = pos[forced + 1] /\ to[last + 2] \in Nat /\ pos[last + 1] <= to[last + 2]
    <3>1. PICK x \in Nat, m \in Nat : x = pos[last + 1] /\ m = Len(rec) /\ x <= x + 4 + m
      BY <1>6, <1>9
    <3>2. to[last + 2] = x + 4 + m
      BY <1>9, <3>1
    <3>3. forced + 1 \in 1..last + 1
      BY <1>3
    <3>4. to[forced + 1] = pos[forced + 1]
      BY <1>9, <3>3
    <3> QED
      BY <3>1, <3>2, <3>4
  <2>2. whole \in 0..Len(file') /\ Len(file') <= to[Len(log') + 1]
    <3>1. Len(log') + 1 = last + 2
      BY <1>5
    <3> QED
      BY <1>2, <1>3, <1>4, <2>1, <3>1
  <2>3. to[forced' + 1] <= whole /\ to[forced' + 1] <= onDisk'
    BY <1>1, <1>2, <2>1 DEF Lies
  <2>4. \A n \in 1..Len(log') : Stored(whole, to[n], log[n])'
    BY <1>5, <1>11
  <2> QED
    BY <1>10, <2>2, <2>3, <2>4 DEF Lies
<1>14. Writes(to, whole)'
  <2>1. writer' = SubSeq(Parts(log'[Len(log')]), 1, 4)
    BY <1>2, <1>5, NotGone
  <2>2. Len(log') # 0 /\ Len(file') = to[Len(log')] + Before(1) /\ whole = Len(file')
    <3>1. Before(1) = 0 /\ to[last + 1] = pos[last + 1] /\ pos[last + 1] + 0 = pos[last + 1]
      BY <1>9 DEF Before
    <3> QED
      BY <1>2, <1>4, <1>5, <3>1
  <2> QED
    BY <2>1, <2>2 DEF Writes
<1> QED
  BY <1>12, <1>13, <1>14 DEF LogInv

(* A writer that goes on with a log has read it to its end: the log is the *)
(* records that were read, and all of the file is theirs.                  *)
LEMMA WriterKeepsLogInv ==
  ASSUME LogInv, CheckedLogWriter, ~AppendsTorn, ~FreshBuffer, \A len \in Lengths : Readable(len)
  PROVE  LogInv'
<1>1. PICK pos, whole : Lies(pos, whole) /\ Writes(pos, whole)
  BY DEF LogInv
<1>2. PICK r : r = ReadLog
  OBVIOUS
<1>3. /\ writer = Gone /\ r.ret = "END" /\ log' = r.recs /\ forced' = Len(log')
      /\ writer' = <<>> /\ file' = file /\ onDisk' = onDisk
  BY <1>2 DEF CheckedLogWriter
<1>4. /\ r.recs \in Seq(Records) /\ Len(r.recs) \in forced..Len(log)
      /\ \A i \in 1..Len(r.recs) : r.recs[i] = log[i]
      /\ pos[Len(r.recs) + 1] = Len(file)
      /\ \A i \in 1..Len(r.recs) : Stored(Len(file), pos[i], log[i])
  BY <1>1, <1>2, <1>3, ReadLogReads
<1>5. PICK last \in Nat : /\ last = Len(log) /\ file \in Seq(Nat) /\ log \in Seq(Records)
                          /\ Len(file) \in Nat /\ forced \in 0..last /\ onDisk \in 0..Len(file)
  BY LenProperties DEF LogInv, LogTypeOK
<1>6. PICK m \in Nat : m = Len(r.recs) /\ m <= last
  BY <1>4, <1>5
<1>7. onDisk = Len(file)
  <2>1. writer # <<>>
    BY <1>3, EmptySeq DEF Gone
  <2>2. ASSUME NEW k \in 1..4, writer = SubSeq(Parts(log[Len(log)]), k, 4), Len(log) # 0
        PROVE  FALSE
    <3>1. log[Len(log)] \in Records
      BY <1>5, <2>2, ElementOfSeq
    <3> QED
      BY <1>3, <2>2, <3>1, NotGone
  <2> QED
    BY <1>1, <2>1, <2>2 DEF Writes
<1>8. /\ pos \in [1..last + 1 -> Nat] /\ pos[1] = 0
      /\ \A n \in 1..last : pos[n + 1] = pos[n] + 4 + Len(log[n])
  BY <1>1, <1>5 DEF Lies, Placed
<1>9. PICK to : to = [n \in 1..m + 1 |-> pos[n]]
  OBVIOUS
<1>10. /\ to \in [1..m + 1 -> Nat] /\ to[m + 1] = Len(file)
       /\ \A n \in 1..m + 1 : to[n] = pos[n]
  <2>1. \A n \in 1..m + 1 : n \in 1..last + 1
    BY <1>6
  <2>2. m + 1 \in 1..m + 1
    OBVIOUS
  <2>3. to[m + 1] = Len(file)
    BY <1>4, <1>6, <1>9, <2>2
  <2>4. to \in [1..m + 1 -> Nat]
    BY <1>8, <1>9, <2>1
  <2> QED
    BY <1>9, <2>3, <2>4
<1>11. /\ log' \in Seq(Records) /\ Len(log') = m /\ \A n \in 1..m : log'[n] = log[n]
  BY <1>3, <1>4, <1>6
<1>12. Placed(to)'
  <2>1. \A n \in 1..m : n \in 1..last /\ n \in 1..m + 1 /\ n + 1 \in 1..m + 1
    BY <1>6
  <2>2. \A n \in 1..m : to[n + 1] = to[n] + 4 + Len(log'[n])
    BY <1>8, <1>10, <1>11, <2>1
  <2>3. to[1] = 0
    BY <1>8, <1>10
  <2> QED
    BY <1>10, <1>11, <2>2, <2>3 DEF Placed
<1>13. ASSUME NEW n \in 1..m
       PROVE  Stored(Len(file), to[n], log[n])'
  <2>1. n \in 1..m + 1 /\ to[n] = pos[n] /\ log'[n] = log[n] /\ Stored(Len(file), pos[n], log[n])
    BY <1>4, <1>6, <1>10, <1>11
  <2> QED
    BY <1>3, <2>1 DEF Stored
<1>14. LogTypeOK'
  BY <1>3, <1>5, <1>11 DEF LogTypeOK
<1>15. PICK size \in Nat : size = Len(file)
  BY <1>5
<1>16. Lies(to, size)'
  <2>1. to[forced' + 1] = size /\ onDisk' = size /\ to[Len(log') + 1] = size /\ Len(file') = size
    BY <1>3, <1>7, <1>10, <1>11, <1>15
  <2>2. \A n \in 1..Len(log') : Stored(size, to[n], log[n])'
    <3>1. ASSUME NEW n \in 1..m
          PROVE  Stored(size, to[n], log[n])'
      BY <1>3, <1>13, <1>15 DEF Stored
    <3> QED
      BY <1>11, <3>1
  <2> QED
    BY <1>12, <2>1, <2>2 DEF Lies
<1>17. Writes(to, size)'
  BY <1>3, <1>10, <1>11, <1>15 DEF Writes
<1> QED
  BY <1>14, <1>16, <1>17 DEF LogInv

(* A part of a record is written behind the others, and is the cells of    *)
(* its record that come next.                                              *)
LEMMA WriteKeepsLogInv ==
  ASSUME LogInv, Write, \A len \in Lengths : Readable(len)
  PROVE  LogInv'
<1>1. PICK pos, whole : Lies(pos, whole) /\ Writes(pos, whole)
  BY DEF LogInv
<1>2. /\ writer # <<>> /\ writer # Gone /\ file' = file \o Head(writer) /\ writer' = Tail(writer)
      /\ onDisk' = onDisk /\ log' = log /\ forced' = forced
  BY DEF Write
<1>3. PICK last \in Nat : /\ last = Len(log) /\ file \in Seq(Nat) /\ log \in Seq(Records)
                          /\ Len(file) \in Nat /\ forced \in 0..last /\ onDisk \in 0..Len(file)
  BY LenProperties DEF LogInv, LogTypeOK
<1>4. PICK k \in 1..4 : /\ writer = SubSeq(Parts(log[last]), k, 4) /\ last # 0
                        /\ whole = Len(file) /\ Len(file) = pos[last] + Before(k)
  BY <1>1, <1>2, <1>3 DEF Writes
<1>5. PICK rec \in Records : rec = log[last]
  BY <1>3, <1>4, ElementOfSeq
<1>6. PICK p : p = Parts(rec)[k]
  OBVIOUS
<1>7. /\ Head(writer) = p /\ Tail(writer) = SubSeq(Parts(rec), k + 1, 4)
      /\ k = 4 => Tail(writer) = <<>>
  BY <1>4, <1>5, <1>6, NotGone
<1>8. Readable(Len(rec)) /\ Len(rec) \in Nat
  BY RecordFacts
<1>9. /\ p \in Seq(Nat) /\ Len(p) \in Nat
      /\ \A j \in 1..Len(p) : p[j] = CellOf(rec, Before(k) + j)
      /\ Before(k) + Len(p) = IF k = 4 THEN 4 + Len(rec) ELSE Before(k + 1)
  <2>1. /\ p \in Seq(Nat)
        /\ \A j \in 1..Len(p) : p[j] = CellOf(rec, Before(k) + j)
        /\ Before(k) + Len(p) = IF k = 4 THEN 4 + Len(rec) ELSE Before(k + 1)
    <3>1. IsPart(p, rec, k)
      BY <1>6, <1>8, PartIsCells
    <3> QED
      BY <3>1 DEF IsPart
  <2>2. Len(p) \in Nat
    BY <2>1, LenProperties
  <2> QED
    BY <2>1, <2>2
<1>10. Before(k) \in Nat /\ Before(k) + Len(p) <= 4 + Len(rec)
  BY <1>8, <1>9 DEF Before
<1>11. PICK size \in Nat : size = Len(file)
  BY <1>3
<1>12. /\ file' \in Seq(Nat) /\ Len(file') = size + Len(p)
       /\ \A i \in 1..size + Len(p) : file'[i] = IF i <= size THEN file[i] ELSE p[i - size]
  BY <1>2, <1>3, <1>7, <1>9, <1>11, ConcatProperties
<1>13. PICK more \in Nat : more = size + Len(p)
  BY <1>9
<1>14. /\ pos \in [1..last + 1 -> Nat]
       /\ pos[last + 1] = pos[last] + 4 + Len(rec) /\ last \in 1..last + 1
       /\ pos[last] \in Nat /\ size = pos[last] + Before(k)
  <2>1. pos \in [1..last + 1 -> Nat] /\ \A n \in 1..last : pos[n + 1] = pos[n] + 4 + Len(log[n])
    BY <1>1, <1>3 DEF Lies, Placed
  <2>2. last \in 1..last /\ last \in 1..last + 1
    BY <1>4
  <2> QED
    BY <1>4, <1>5, <1>11, <2>1, <2>2
<1>20. PICK x \in Nat, b \in Nat, q \in Nat, m \in Nat :
         /\ x = pos[last] /\ b = Before(k) /\ q = Len(p) /\ m = Len(rec)
         /\ size = x + b /\ more = size + q /\ b + q <= 4 + m /\ pos[last + 1] = x + 4 + m
         /\ k = 4 => b + q = 4 + m
         /\ k # 4 => b + q = Before(k + 1)
  BY <1>8, <1>9, <1>10, <1>13, <1>14
<1>21. size = x + b /\ more = size + q /\ b + q <= 4 + m
  BY <1>20
<1>22. more <= x + 4 + m /\ (b + q = 4 + m => more = x + 4 + m)
  BY <1>21
<1>15. ASSUME NEW n \in 1..last
       PROVE  Stored(more, pos[n], log[n])'
  <2>1. PICK at \in Nat, old \in Records : at = pos[n] /\ old = log[n]
    <3>1. n \in 1..last + 1
      OBVIOUS
    <3> QED
      BY <1>3, <1>14, <3>1, ElementOfSeq
  <2>2. Stored(size, at, old) /\ Len(old) \in Nat
    BY <1>1, <1>3, <1>4, <1>11, <2>1, RecordFacts DEF Lies
  <2>3. ASSUME NEW j \in 1..4 + Len(old), at + j <= more
        PROVE  file'[at + j] = CellOf(old, j)
    <3>1. at + j \in 1..size + Len(p) /\ at + j \in Nat
      BY <1>13, <2>1, <2>2, <2>3
    <3>2. CASE at + j <= size
      <4>1. file'[at + j] = file[at + j]
        BY <1>12, <3>1, <3>2
      <4>2. file[at + j] = CellOf(old, j)
        BY <1>11, <2>2, <3>2 DEF Stored
      <4> QED
        BY <4>1, <4>2
    <3>3. CASE ~(at + j <= size)
      <4>1. n = last
        <5> SUFFICES ASSUME n # last PROVE FALSE
          OBVIOUS
        <5>1. n + 1 \in 1..last + 1 /\ n + 1 <= last /\ last \in 1..last + 1
          BY <1>14
        <5>2. pos[n + 1] = at + 4 + Len(old)
          BY <1>1, <1>3, <2>1 DEF Lies, Placed
        <5>3. pos[n + 1] <= pos[last]
          BY <1>1, <1>3, <5>1, PlacedInOrder DEF Lies
        <5> QED
          <6>1. at + 4 + Len(old) <= x
            BY <1>20, <5>2, <5>3
          <6>2. x <= size /\ at + j <= x
            BY <1>21, <2>2, <6>1
          <6> QED
            BY <3>1, <3>3, <6>2
      <4>2. old = rec /\ at = pos[last]
        BY <1>5, <2>1, <4>1
      <4>3. PICK i \in 1..Len(p) : at + j = size + i /\ at + j - size = i /\ Before(k) + i = j
        <5>1. at + j - size \in 1..Len(p)
          BY <1>9, <1>13, <2>3, <3>1, <3>3
        <5>3. j \in Nat /\ at = x
          BY <1>20, <2>2, <4>2
        <5>4. b + (at + j - size) = j /\ at + j = size + (at + j - size)
          BY <1>21, <5>3
        <5>2. Before(k) + (at + j - size) = j /\ at + j = size + (at + j - size)
          BY <1>20, <5>4
        <5> QED
          BY <5>1, <5>2
      <4>4. file'[at + j] = p[i]
        <5>1. PICK c : c = at + j
          OBVIOUS
        <5>2. c \in 1..size + Len(p) /\ ~(c <= size) /\ c - size = i
          BY <3>1, <3>3, <4>3, <5>1
        <5>3. file'[c] = p[c - size]
          BY <1>12, <5>2
        <5> QED
          BY <5>1, <5>2, <5>3
      <4> QED
        BY <1>9, <4>2, <4>3, <4>4
    <3> QED
      BY <3>2, <3>3
  <2>4. Stored(more, at, old)'
    BY <1>12, <1>13, <2>3 DEF Stored
  <2> QED
    BY <1>2, <2>1, <2>4
<1>16. LogTypeOK'
  <2>1. onDisk \in 0..Len(file')
    BY <1>3, <1>9, <1>11, <1>12
  <2> QED
    BY <1>2, <1>3, <1>12, <2>1 DEF LogTypeOK
<1>17. Lies(pos, more)'
  <2>1. Placed(pos)'
    BY <1>1, <1>2 DEF Lies, Placed
  <2>2. more \in 0..Len(file') /\ Len(file') <= pos[Len(log') + 1]
    <3>1. Len(file') = more /\ pos[Len(log') + 1] = pos[last + 1]
      BY <1>2, <1>3, <1>12, <1>13
    <3> QED
      BY <1>20, <1>22, <3>1
  <2>3. pos[forced + 1] \in Nat /\ pos[forced + 1] <= size /\ pos[forced + 1] <= onDisk
    <3>1. forced + 1 \in 1..last + 1
      BY <1>3
    <3> QED
      BY <1>1, <1>4, <1>11, <1>14, <3>1 DEF Lies
  <2>4. pos[forced' + 1] <= more /\ pos[forced' + 1] <= onDisk'
    BY <1>2, <1>9, <1>13, <2>3
  <2>5. \A n \in 1..Len(log') : Stored(more, pos[n], log[n])'
    BY <1>2, <1>3, <1>15
  <2> QED
    BY <2>1, <2>2, <2>4, <2>5 DEF Lies
<1>18. Writes(pos, more)'
  <2>1. CASE k = 4
    <3>1. writer' = <<>> /\ more = Len(file')
      BY <1>2, <1>7, <1>12, <1>13, <2>1
    <3>2. Len(file') = pos[Len(log') + 1]
      <4>1. Len(file') = more /\ pos[Len(log') + 1] = pos[last + 1]
        BY <1>2, <1>3, <1>12, <1>13
      <4>2. more = x + 4 + m
        BY <1>20, <1>22, <2>1
      <4> QED
        BY <1>20, <4>1, <4>2
    <3> QED
      BY <3>1, <3>2 DEF Writes
  <2>2. CASE k # 4
    <3>1. k + 1 \in 1..4 /\ writer' = SubSeq(Parts(log'[Len(log')]), k + 1, 4)
      BY <1>2, <1>3, <1>5, <1>7, <2>2
    <3>2. more = Len(file') /\ Len(log') # 0
      BY <1>2, <1>3, <1>4, <1>12, <1>13
    <3>3. Len(file') = pos[Len(log')] + Before(k + 1)
      <4>1. Len(file') = more /\ pos[Len(log')] = x
        BY <1>2, <1>3, <1>12, <1>13, <1>20
      <4>2. more = x + (b + q)
        BY <1>21
      <4> QED
        BY <1>20, <2>2, <4>1, <4>2
    <3> QED
      BY <3>1, <3>2, <3>3 DEF Writes
  <2> QED
    BY <2>1, <2>2
<1> QED
  BY <1>16, <1>17, <1>18 DEF LogInv

(* Whatever a crash of the machine has left of the file, read_record()     *)
(* takes every record that force() has returned for, and no other than     *)
(* were written, in order: for records of any bytes and of any lengths     *)
(* that read_record() takes for what they are, and any bound on the file,  *)
(* if a log is continued only after it was read to its end and the         *)
(* reader's buffer has some room.                                          *)
THEOREM ForcedRecordsAreReadBack ==
  LogSpec /\ ~AppendsTorn /\ ~FreshBuffer /\ (\A len \in Lengths : Readable(len)) => []ForcedIsReadBack
<1> SUFFICES ASSUME ~AppendsTorn, ~FreshBuffer, \A len \in Lengths : Readable(len)
             PROVE  LogSpec => []ForcedIsReadBack
  OBVIOUS
<1>1. LogInit => LogInv
  BY InitHoldsLogInv
<1>2. LogInv /\ [LogNext]_logVars => LogInv'
  BY CrashKeepsLogInv, RecordKeepsLogInv, WriterKeepsLogInv, WriteKeepsLogInv,
     ForceKeepsLogInv, UnchangedKeepsLogInv DEF LogNext
<1>3. LogInv => ForcedIsReadBack
  BY InvReadsBack
<1> QED
  BY <1>1, <1>2, <1>3, PTL DEF LogSpec

-----------------------------------------------------------------------------
(* A SparseBitmap: ranges, and vectors of them.                            *)
Ranges  == {e \in [start_ : Int, end_ : Int] : e.start_ <= e.end_}
Bits(e) == e.start_..e.end_
Accs    == [at : Ranges, rest : Seq(Ranges)]

InOrder(s) ==
  /\ s \in Seq(Ranges)
  /\ \A i, j \in 1..Len(s) : i < j => s[i].end_ + 1 < s[j].start_

Covers(s, x) == \E i \in 1..Len(s) : x \in Bits(s[i])

LEMMA RangeFacts ==
  ASSUME NEW e \in Ranges
  PROVE  /\ e.start_ \in Int /\ e.end_ \in Int /\ e.start_ <= e.end_
         /\ \A x \in Int : x \in Bits(e) <=> e.start_ <= x /\ x <= e.end_
         /\ \A x \in Bits(e) : x \in Int
BY DEF Ranges, Bits

LEMMA EntryIsRange ==
  ASSUME NEW start \in Int, NEW end \in Int, start <= end
  PROVE  /\ Entry(start, end) \in Ranges
         /\ Entry(start, end).start_ = start /\ Entry(start, end).end_ = end
BY DEF Entry, Ranges

LEMMA OtherEnd ==
  ASSUME NEW e \in Ranges, NEW x \in Int
  PROVE  /\ e.start_ <= x => /\ [e EXCEPT !.end_ = x] \in Ranges
                             /\ [e EXCEPT !.end_ = x].start_ = e.start_
                             /\ [e EXCEPT !.end_ = x].end_ = x
         /\ x <= e.end_ => /\ [e EXCEPT !.start_ = x] \in Ranges
                           /\ [e EXCEPT !.start_ = x].start_ = x
                           /\ [e EXCEPT !.start_ = x].end_ = e.end_
BY DEF Ranges

LEMMA SeqFacts ==
  ASSUME NEW s \in Seq(Ranges)
  PROVE  Len(s) \in Nat /\ DOMAIN s = 1..Len(s) /\ \A i \in 1..Len(s) : s[i] \in Ranges
BY LenProperties, ElementOfSeq

LEMMA Joined ==
  ASSUME NEW s \in Seq(Ranges), NEW t \in Seq(Ranges)
  PROVE  /\ s \o t \in Seq(Ranges) /\ Len(s \o t) = Len(s) + Len(t)
         /\ \A i \in 1..Len(s) : (s \o t)[i] = s[i]
         /\ \A i \in 1..Len(t) : (s \o t)[Len(s) + i] = t[i]
<1>1. PICK a \in Nat, b \in Nat : a = Len(s) /\ b = Len(t)
  BY LenProperties
<1>2. /\ s \o t \in Seq(Ranges) /\ Len(s \o t) = a + b
      /\ \A i \in 1..a + b : (s \o t)[i] = IF i <= a THEN s[i] ELSE t[i - a]
  BY <1>1, ConcatProperties
<1>3. \A i \in 1..a : i \in 1..a + b /\ i <= a
  OBVIOUS
<1>4. \A i \in 1..b : a + i \in 1..a + b /\ ~(a + i <= a) /\ a + i - a = i
  OBVIOUS
<1> QED
  BY <1>1, <1>2, <1>3, <1>4

LEMMA Signed ==
  ASSUME ~Unsigned, NEW x
  PROVE  Word(x) = x
BY DEF Word

-----------------------------------------------------------------------------
(* What one step of the compaction makes of the entry and of the rest.     *)
LEMMA TakeRightIs ==
  ASSUME ~Unsigned, NEW acc \in Accs, NEW e \in Ranges
  PROVE  /\ TakeRight(acc, e) \in Accs
         /\ acc.rest = <<>> /\ acc.at.end_ >= e.start_ - 1 =>
              /\ TakeRight(acc, e).at.start_ = acc.at.start_
              /\ TakeRight(acc, e).at.end_ = IF acc.at.end_ < e.end_ THEN e.end_ ELSE acc.at.end_
              /\ TakeRight(acc, e).rest = <<>>
         /\ ~(acc.rest = <<>> /\ acc.at.end_ >= e.start_ - 1) =>
              /\ TakeRight(acc, e).at = acc.at
              /\ TakeRight(acc, e).rest = Append(acc.rest, e)
<1> DEFINE a == acc.at
           m == IF a.end_ < e.end_ THEN e.end_ ELSE a.end_
           new == [a EXCEPT !.end_ = m]
<1>1. a \in Ranges /\ acc.rest \in Seq(Ranges) /\ acc = [at |-> a, rest |-> acc.rest]
  BY DEF Accs
<1>2. a.start_ \in Int /\ a.end_ \in Int /\ a.start_ <= a.end_ /\ e.end_ \in Int
  BY <1>1, RangeFacts
<1>3. m \in Int /\ a.start_ <= m
  BY <1>2
<1>4. new \in Ranges /\ new.start_ = a.start_ /\ new.end_ = m
  <2> HIDE DEF m, a
  <2> QED
    BY <1>1, <1>3, OtherEnd
<1>5. CASE acc.rest = <<>> /\ a.end_ >= e.start_ - 1
  <2>1. TakeRight(acc, e) = [at |-> new, rest |-> acc.rest]
    BY <1>1, <1>5, Signed DEF TakeRight
  <2> HIDE DEF new, m, a
  <2>2. TakeRight(acc, e) \in Accs
    BY <1>1, <1>4, <2>1 DEF Accs
  <2>3. TakeRight(acc, e).at.start_ = a.start_ /\ TakeRight(acc, e).at.end_ = m
    BY <1>4, <2>1
  <2>4. TakeRight(acc, e).rest = acc.rest
    BY <2>1
  <2> QED
    BY <1>5, <2>2, <2>3, <2>4 DEF m, a
<1>6. CASE ~(acc.rest = <<>> /\ a.end_ >= e.start_ - 1)
  <2>1. TakeRight(acc, e) = [at |-> a, rest |-> Append(acc.rest, e)]
    BY <1>1, <1>6, Signed DEF TakeRight
  <2>2. Append(acc.rest, e) \in Seq(Ranges)
    BY <1>1, AppendProperties
  <2>3. TakeRight(acc, e) \in Accs
    BY <1>1, <2>1, <2>2 DEF Accs
  <2> QED
    BY <1>6, <2>1, <2>3
<1> QED
  BY <1>5, <1>6

LEMMA TakeLeftIs ==
  ASSUME ~Unsigned, NEW acc \in Accs, NEW e \in Ranges
  PROVE  /\ TakeLeft(e, acc) \in Accs
         /\ acc.rest = <<>> /\ e.end_ >= acc.at.start_ - 1 =>
              /\ TakeLeft(e, acc).at.start_ = IF acc.at.start_ > e.start_ THEN e.start_ ELSE acc.at.start_
              /\ TakeLeft(e, acc).at.end_ = IF acc.at.end_ < e.end_ THEN e.end_ ELSE acc.at.end_
              /\ TakeLeft(e, acc).rest = <<>>
         /\ ~(acc.rest = <<>> /\ e.end_ >= acc.at.start_ - 1) =>
              /\ TakeLeft(e, acc).at = acc.at
              /\ TakeLeft(e, acc).rest = <<e>> \o acc.rest
<1> DEFINE a == acc.at
           l == IF a.start_ > e.start_ THEN e.start_ ELSE a.start_
           m == IF a.end_ < e.end_ THEN e.end_ ELSE a.end_
           wide == [a EXCEPT !.start_ = l]
           new == [wide EXCEPT !.end_ = m]
<1>1. a \in Ranges /\ acc.rest \in Seq(Ranges) /\ acc = [at |-> a, rest |-> acc.rest]
  BY DEF Accs
<1>2. /\ a.start_ \in Int /\ a.end_ \in Int /\ a.start_ <= a.end_
      /\ e.start_ \in Int /\ e.end_ \in Int
  BY <1>1, RangeFacts
<1>3. m \in Int /\ l \in Int /\ l <= m /\ l <= a.end_
  BY <1>2
<1>4. new \in Ranges /\ new.start_ = l /\ new.end_ = m
  <2> HIDE DEF m, l, a
  <2>1. wide \in Ranges /\ wide.start_ = l
    BY <1>1, <1>3, OtherEnd
  <2> HIDE DEF wide
  <2> QED
    BY <1>3, <2>1, OtherEnd
<1>5. CASE acc.rest = <<>> /\ e.end_ >= a.start_ - 1
  <2>1. TakeLeft(e, acc) = [at |-> new, rest |-> acc.rest]
    BY <1>1, <1>5, Signed DEF TakeLeft
  <2> HIDE DEF new, wide, a
  <2>2. TakeLeft(e, acc) \in Accs
    BY <1>1, <1>4, <2>1 DEF Accs
  <2> HIDE DEF l, m
  <2>3. TakeLeft(e, acc).at.start_ = l /\ TakeLeft(e, acc).at.end_ = m
    BY <1>4, <2>1
  <2> QED
    BY <1>5, <2>1, <2>2, <2>3 DEF m, l, a
<1>6. CASE ~(acc.rest = <<>> /\ e.end_ >= a.start_ - 1)
  <2>1. TakeLeft(e, acc) = [at |-> a, rest |-> <<e>> \o acc.rest]
    BY <1>1, <1>6, Signed DEF TakeLeft
  <2>2. <<e>> \o acc.rest \in Seq(Ranges)
    BY <1>1, ConcatProperties
  <2>3. TakeLeft(e, acc) \in Accs
    BY <1>1, <2>1, <2>2 DEF Accs
  <2> QED
    BY <1>6, <2>1, <2>3
<1> QED
  BY <1>5, <1>6

(* The compaction to the right, entry by entry.                            *)
IsRightFold(g, at, s) ==
  g = [t \in SUBSET (DOMAIN s) |->
        IF t = {} THEN at ELSE TakeRight(g[t \ {Largest(t)}], s[Largest(t)])]

LEMMA RightFoldIs ==
  ASSUME NEW at, NEW s
  PROVE  FoldLeft(TakeRight, at, s) = (CHOOSE g : IsRightFold(g, at, s))[DOMAIN s]
BY DEF FoldLeft, MapThenFoldSet, IsRightFold, Largest, Max

LEMMA RightSteps ==
  ASSUME ~Unsigned, NEW s \in Seq(Ranges), NEW at \in Accs
  PROVE  \E acc : /\ acc \in [0..Len(s) -> Accs]
                  /\ acc[0] = at
                  /\ \A k \in 1..Len(s) : acc[k] = TakeRight(acc[k - 1], s[k])
                  /\ FoldLeft(TakeRight, at, s) = acc[Len(s)]
<1> DEFINE n == Len(s)
           step == [x \in (1..n) \X Accs |-> TakeRight(x[2], s[x[1]])]
<1>1. n \in Nat /\ DOMAIN s = 1..n /\ \A i \in 1..n : s[i] \in Ranges
  BY SeqFacts
<1> HIDE DEF n
<1>2. ASSUME NEW i \in 1..n, NEW a \in Accs
      PROVE  step[<<i, a>>] = TakeRight(a, s[i]) /\ step[<<i, a>>] \in Accs
  <2>1. step[<<i, a>>] = TakeRight(a, s[i])
    OBVIOUS
  <2> QED
    BY <1>1, <2>1, TakeRightIs
<1> HIDE DEF step
<1>3. PICK g : IsFold(g, Accs, at, step, n)
  BY <1>1, <1>2, FoldExists
<1>4. ASSUME NEW t \in SUBSET (1..n)
      PROVE  g[t] = IF t = {} THEN at ELSE TakeRight(g[t \ {Largest(t)}], s[Largest(t)])
  <2>1. CASE t # {}
    <3>1. Largest(t) \in 1..n /\ t \ {Largest(t)} \in SUBSET (1..n)
      BY <1>1, <2>1, LargestIn
    <3>2. g[t \ {Largest(t)}] \in Accs
      BY <1>3, <3>1 DEF IsFold
    <3>3. g[t] = step[<<Largest(t), g[t \ {Largest(t)}]>>]
      BY <1>3, <2>1 DEF IsFold
    <3> QED
      BY <1>2, <2>1, <3>1, <3>2, <3>3
  <2>2. CASE t = {}
    BY <1>3, <2>2 DEF IsFold
  <2> QED
    BY <2>1, <2>2
<1>5. IsRightFold(g, at, s)
  <2>1. g = [t \in SUBSET (1..n) |-> g[t]]
    BY <1>3 DEF IsFold
  <2> QED
    BY <1>1, <1>4, <2>1 DEF IsRightFold
<1>6. PICK h : IsRightFold(h, at, s) /\ FoldLeft(TakeRight, at, s) = h[1..n]
  <2> DEFINE h == CHOOSE f : IsRightFold(f, at, s)
  <2>1. IsRightFold(h, at, s)
    BY <1>5
  <2> QED
    BY <1>1, <2>1, RightFoldIs
<1> DEFINE acc == [k \in 0..n |-> h[1..k]]
<1>7. h[1..0] = at
  <2>1. 1..0 = {}
    OBVIOUS
  <2> QED
    BY <1>6, <2>1 DEF IsRightFold
<1>8. ASSUME NEW k \in 1..n
      PROVE  h[1..k] = TakeRight(h[1..k - 1], s[k])
  <2>1. 1..k \in SUBSET (1..n) /\ k \in 1..k /\ (1..k) \ {k} = 1..k - 1 /\ k \in Nat
    BY <1>1
  <2>2. Largest(1..k) = k
    BY <2>1, LargestIs
  <2> QED
    BY <1>1, <1>6, <2>1, <2>2 DEF IsRightFold
<1>9. \A k \in 0..n : h[1..k] \in Accs
  <2> DEFINE S == {k \in 0..n : h[1..k] \in Accs}
  <2>1. 0 \in S
    BY <1>1, <1>7
  <2>2. ASSUME NEW k \in 1..n, k - 1 \in S
        PROVE  k \in S
    BY <1>1, <1>8, <2>2, TakeRightIs
  <2>3. 0..n \subseteq S
    <3> HIDE DEF S
    <3> QED
      BY <1>1, <2>1, <2>2, UpTo
  <2> QED
    BY <2>3
<1>10. acc \in [0..n -> Accs] /\ acc[0] = at /\ acc[n] = h[1..n]
  BY <1>1, <1>7, <1>9
<1>11. \A k \in 1..n : acc[k] = TakeRight(acc[k - 1], s[k])
  <2>1. \A k \in 1..n : k \in 0..n /\ k - 1 \in 0..n
    BY <1>1
  <2> QED
    BY <1>8, <2>1
<1> HIDE DEF acc
<1> QED
  BY <1>6, <1>10, <1>11 DEF n

(* And to the left, from the last entry on.                                *)
IsLeftFold(g, at, s) ==
  g = [t \in SUBSET (DOMAIN s) |->
        IF t = {} THEN at ELSE TakeLeft(s[Smallest(t)], g[t \ {Smallest(t)}])]

LEMMA LeftFoldIs ==
  ASSUME NEW at, NEW s
  PROVE  FoldRight(TakeLeft, s, at) = (CHOOSE g : IsLeftFold(g, at, s))[DOMAIN s]
BY DEF FoldRight, MapThenFoldSet, IsLeftFold, Smallest, Min

LEMMA LeftSteps ==
  ASSUME ~Unsigned, NEW s \in Seq(Ranges), NEW at \in Accs
  PROVE  \E acc : /\ acc \in [0..Len(s) -> Accs]
                  /\ acc[Len(s)] = at
                  /\ \A k \in 1..Len(s) : acc[k - 1] = TakeLeft(s[k], acc[k])
                  /\ FoldRight(TakeLeft, s, at) = acc[0]
<1> DEFINE n == Len(s)
           step == [x \in (1..n) \X Accs |-> TakeLeft(s[x[1]], x[2])]
<1>1. n \in Nat /\ DOMAIN s = 1..n /\ \A i \in 1..n : s[i] \in Ranges
  BY SeqFacts
<1> HIDE DEF n
<1>2. ASSUME NEW i \in 1..n, NEW a \in Accs
      PROVE  step[<<i, a>>] = TakeLeft(s[i], a) /\ step[<<i, a>>] \in Accs
  <2>1. step[<<i, a>>] = TakeLeft(s[i], a)
    OBVIOUS
  <2> QED
    BY <1>1, <2>1, TakeLeftIs
<1> HIDE DEF step
<1>3. PICK g : IsFoldDown(g, Accs, at, step, n)
  BY <1>1, <1>2, FoldDownExists
<1>0. ASSUME NEW k \in 1..n
      PROVE  k..n \in SUBSET (1..n) /\ k..n # {} /\ Smallest(k..n) = k /\ (k..n) \ {k} = k + 1..n
  <2>1. k..n \in SUBSET (1..n) /\ k \in k..n /\ \A y \in k..n : k <= y
    BY <1>1
  <2>2. Smallest(k..n) = k
    BY <1>1, <2>1, SmallestIs
  <2>3. (k..n) \ {k} = k + 1..n
    BY <1>1
  <2> QED
    BY <2>1, <2>2, <2>3
<1>4. ASSUME NEW t \in SUBSET (1..n)
      PROVE  g[t] = IF t = {} THEN at ELSE TakeLeft(s[Smallest(t)], g[t \ {Smallest(t)}])
  <2>1. CASE t # {}
    <3>1. Smallest(t) \in 1..n /\ t \ {Smallest(t)} \in SUBSET (1..n)
      <4>1. PICK x \in t : \A y \in t : x <= y
        <5>1. t \subseteq Nat
          OBVIOUS
        <5> QED
          BY <2>1, <5>1, LeastNat
      <4>2. Smallest(t) = x
        BY <1>1, <4>1, SmallestIs
      <4> QED
        BY <4>2
    <3>2. g[t \ {Smallest(t)}] \in Accs
      BY <1>3, <3>1 DEF IsFoldDown
    <3>3. g[t] = step[<<Smallest(t), g[t \ {Smallest(t)}]>>]
      BY <1>3, <2>1 DEF IsFoldDown
    <3> QED
      BY <1>2, <2>1, <3>1, <3>2, <3>3
  <2>2. CASE t = {}
    BY <1>3, <2>2 DEF IsFoldDown
  <2> QED
    BY <2>1, <2>2
<1>5. IsLeftFold(g, at, s)
  <2>1. g = [t \in SUBSET (1..n) |-> g[t]]
    BY <1>3 DEF IsFoldDown
  <2> QED
    BY <1>1, <1>4, <2>1 DEF IsLeftFold
<1>6. PICK h : IsLeftFold(h, at, s) /\ FoldRight(TakeLeft, s, at) = h[1..n]
  <2> DEFINE h == CHOOSE f : IsLeftFold(f, at, s)
  <2>1. IsLeftFold(h, at, s)
    BY <1>5
  <2> QED
    BY <1>1, <2>1, LeftFoldIs
<1> DEFINE acc == [k \in 0..n |-> h[k + 1..n]]
<1>7. h[n + 1..n] = at
  <2>1. n + 1..n = {}
    BY <1>1
  <2> QED
    BY <1>6, <2>1 DEF IsLeftFold
<1>8. ASSUME NEW k \in 1..n
      PROVE  h[k..n] = TakeLeft(s[k], h[k + 1..n])
  <2>1. PICK t : t = k..n
    OBVIOUS
  <2>2. t \in SUBSET (1..n) /\ t # {} /\ Smallest(t) = k /\ t \ {Smallest(t)} = k + 1..n
    BY <1>1, <1>0, <2>1
  <2>3. h[t] = TakeLeft(s[Smallest(t)], h[t \ {Smallest(t)}])
    BY <1>1, <1>6, <2>2 DEF IsLeftFold
  <2> QED
    BY <2>1, <2>2, <2>3
<1>9. \A k \in 0..n : h[k + 1..n] \in Accs
  <2> DEFINE S == {k \in 0..n : h[k + 1..n] \in Accs}
  <2>1. n \in S
    BY <1>1, <1>7
  <2>2. ASSUME NEW k \in 1..n, k \in S
        PROVE  k - 1 \in S
    <3>1. k - 1 \in 0..n /\ k - 1 + 1 = k
      BY <1>1
    <3> QED
      BY <1>1, <1>8, <2>2, <3>1, TakeLeftIs
  <2>3. 0..n \subseteq S
    <3> HIDE DEF S
    <3> QED
      BY <1>1, <2>1, <2>2, DownFrom
  <2> QED
    BY <2>3
<1>10. acc \in [0..n -> Accs] /\ acc[n] = at /\ acc[0] = h[1..n]
  <2>1. 0 + 1 = 1 /\ 0 \in 0..n /\ n \in 0..n
    BY <1>1
  <2> QED
    BY <1>7, <1>9, <2>1
<1>11. \A k \in 1..n : acc[k - 1] = TakeLeft(s[k], acc[k])
  <2>1. \A k \in 1..n : k \in 0..n /\ k - 1 \in 0..n /\ k - 1 + 1 = k
    BY <1>1
  <2> QED
    BY <1>8, <2>1
<1> HIDE DEF acc
<1> QED
  BY <1>6, <1>10, <1>11 DEF n

-----------------------------------------------------------------------------
(* How far the compaction has come: the first m entries on the right are   *)
(* in the entry at hand, and the others up to the k-th are the rest.       *)
RightSoFar(at, s, k, acc) ==
  \E m \in 0..k :
    /\ Len(acc.rest) = k - m /\ \A i \in 1..k - m : acc.rest[i] = s[m + i]
    /\ acc.at.start_ = at.start_ /\ acc.at.end_ >= at.end_
    /\ \A x \in Int : x \in Bits(acc.at) <=> x \in Bits(at) \/ \E j \in 1..m : x \in Bits(s[j])
    /\ \A j \in m + 1..k : acc.at.end_ + 1 < s[j].start_

LEMMA RightGoesOn ==
  ASSUME ~Unsigned, NEW at \in Ranges, NEW s, InOrder(s), NEW k \in 1..Len(s),
         at.start_ <= s[k].start_, NEW acc \in Accs, RightSoFar(at, s, k - 1, acc)
  PROVE  RightSoFar(at, s, k, TakeRight(acc, s[k]))
<1> DEFINE e == s[k]
           new == TakeRight(acc, e)
<1>1. s \in Seq(Ranges) /\ Len(s) \in Nat /\ \A i \in 1..Len(s) : s[i] \in Ranges
  BY SeqFacts DEF InOrder
<1>2. PICK m \in 0..k - 1 :
        /\ Len(acc.rest) = k - 1 - m /\ \A i \in 1..k - 1 - m : acc.rest[i] = s[m + i]
        /\ acc.at.start_ = at.start_ /\ acc.at.end_ >= at.end_
        /\ \A x \in Int : x \in Bits(acc.at) <=> x \in Bits(at) \/ \E j \in 1..m : x \in Bits(s[j])
        /\ \A j \in m + 1..k - 1 : acc.at.end_ + 1 < s[j].start_
  BY DEF RightSoFar
<1>3. e \in Ranges /\ acc.at \in Ranges /\ acc.rest \in Seq(Ranges) /\ new \in Accs /\ new.at \in Ranges
  BY <1>1, TakeRightIs DEF Accs
<1>4. /\ e.start_ \in Int /\ e.end_ \in Int /\ e.start_ <= e.end_
      /\ acc.at.start_ \in Int /\ acc.at.end_ \in Int /\ acc.at.start_ <= acc.at.end_
      /\ at.start_ \in Int /\ at.end_ \in Int /\ at.start_ <= at.end_
      /\ \A x \in Int : x \in Bits(e) <=> e.start_ <= x /\ x <= e.end_
      /\ \A x \in Int : x \in Bits(acc.at) <=> acc.at.start_ <= x /\ x <= acc.at.end_
      /\ \A x \in Int : x \in Bits(new.at) <=> new.at.start_ <= x /\ x <= new.at.end_
  BY <1>3, RangeFacts
<1>5. CASE acc.rest = <<>> /\ acc.at.end_ >= e.start_ - 1
  <2>1. /\ new.at.start_ = acc.at.start_ /\ new.rest = <<>>
        /\ new.at.end_ = IF acc.at.end_ < e.end_ THEN e.end_ ELSE acc.at.end_
    BY <1>3, <1>5, TakeRightIs
  <2>2. m = k - 1 /\ Len(new.rest) = 0
    BY <1>2, <1>5, <2>1
  <2>3. new.at.end_ >= at.end_ /\ new.at.end_ \in Int
    BY <1>2, <1>4, <2>1
  <2>4. ASSUME NEW x \in Int
        PROVE  x \in Bits(new.at) <=> x \in Bits(acc.at) \/ x \in Bits(e)
    <3>1. at.start_ <= e.start_ /\ acc.at.start_ = at.start_
      BY <1>2
    <3> HIDE DEF e, new
    <3> QED
      BY <1>4, <1>5, <2>1, <3>1
  <2>5. ASSUME NEW x \in Int
        PROVE  x \in Bits(new.at) <=> x \in Bits(at) \/ \E j \in 1..k : x \in Bits(s[j])
    <3>1. x \in Bits(acc.at) <=> x \in Bits(at) \/ \E j \in 1..k - 1 : x \in Bits(s[j])
      BY <1>2, <2>2
    <3>2. (\E j \in 1..k : x \in Bits(s[j])) <=> x \in Bits(e) \/ \E j \in 1..k - 1 : x \in Bits(s[j])
      OBVIOUS
    <3> HIDE DEF e, new
    <3> QED
      BY <2>4, <3>1, <3>2
  <2> HIDE DEF new
  <2>6. k \in 0..k /\ k - k = 0 /\ 1..0 = {} /\ k + 1..k = {}
    OBVIOUS
  <2>7. RightSoFar(at, s, k, new)
    BY <1>2, <2>1, <2>2, <2>3, <2>5, <2>6 DEF RightSoFar
  <2> QED
    BY <2>7 DEF new
<1>6. CASE ~(acc.rest = <<>> /\ acc.at.end_ >= e.start_ - 1)
  <2>1. new.at = acc.at /\ new.rest = Append(acc.rest, e)
    BY <1>3, <1>6, TakeRightIs
  <2>2. /\ Len(new.rest) = Len(acc.rest) + 1 /\ new.rest[Len(acc.rest) + 1] = e
        /\ \A i \in 1..Len(acc.rest) : new.rest[i] = acc.rest[i]
    BY <1>3, <2>1, AppendProperties
  <2>3. ASSUME NEW i \in 1..k - m
        PROVE  new.rest[i] = s[m + i]
    <3>1. CASE i = k - m
      BY <1>2, <2>2, <3>1
    <3>2. CASE i \in 1..k - 1 - m
      BY <1>2, <2>2, <3>2
    <3> QED
      BY <3>1, <3>2
  <2>4. Len(new.rest) = k - m /\ m \in 0..k
    BY <1>2, <2>2
  <2>5. acc.at.end_ + 1 < e.start_
    <3>1. CASE m = k - 1
      <4>1. acc.rest = <<>>
        BY <1>2, <1>3, <3>1, EmptySeq
      <4> QED
        BY <1>4, <1>6, <4>1
    <3>2. CASE m # k - 1
      <4>1. m + 1 \in m + 1..k - 1 /\ m + 1 \in 1..Len(s) /\ m + 1 < k
        BY <1>1, <3>2
      <4>2. acc.at.end_ + 1 < s[m + 1].start_ /\ s[m + 1].end_ + 1 < e.start_
        BY <1>2, <4>1 DEF InOrder
      <4>3. s[m + 1].start_ \in Int /\ s[m + 1].end_ \in Int /\ s[m + 1].start_ <= s[m + 1].end_
        BY <1>1, <4>1, RangeFacts
      <4>4. \A a, b, c, d \in Int : a + 1 < b /\ b <= c /\ c + 1 < d => a + 1 < d
        OBVIOUS
      <4>5. acc.at.end_ \in Int /\ e.start_ \in Int
        BY <1>4
      <4> HIDE DEF e
      <4> QED
        BY <4>2, <4>3, <4>4, <4>5
    <3> QED
      BY <3>1, <3>2
  <2>6. \A j \in m + 1..k : acc.at.end_ + 1 < s[j].start_
    <3>1. \A j \in m + 1..k : j \in m + 1..k - 1 \/ j = k
      OBVIOUS
    <3> QED
      BY <1>2, <2>5, <3>1
  <2> HIDE DEF new
  <2>7. RightSoFar(at, s, k, new)
    BY <1>2, <2>1, <2>3, <2>4, <2>6 DEF RightSoFar
  <2> QED
    BY <2>7 DEF new
<1> QED
  BY <1>5, <1>6

LEMMA RightCompacted ==
  ASSUME ~Unsigned, NEW at \in Ranges, NEW s, InOrder(s),
         \A k \in 1..Len(s) : at.start_ <= s[k].start_
  PROVE  /\ FoldLeft(TakeRight, [at |-> at, rest |-> <<>>], s) \in Accs
         /\ RightSoFar(at, s, Len(s), FoldLeft(TakeRight, [at |-> at, rest |-> <<>>], s))
<1> DEFINE first == [at |-> at, rest |-> <<>>]
<1>1. s \in Seq(Ranges) /\ Len(s) \in Nat
  BY SeqFacts DEF InOrder
<1>2. first \in Accs /\ first.at = at /\ first.rest = <<>>
  BY EmptySeq DEF Accs
<1> HIDE DEF first
<1>3. PICK acc : /\ acc \in [0..Len(s) -> Accs]
                 /\ acc[0] = first
                 /\ \A k \in 1..Len(s) : acc[k] = TakeRight(acc[k - 1], s[k])
                 /\ FoldLeft(TakeRight, first, s) = acc[Len(s)]
  BY <1>1, <1>2, RightSteps
<1> DEFINE S == {k \in 0..Len(s) : RightSoFar(at, s, k, acc[k])}
<1>4. 0 \in S
  <2>1. /\ Len(first.rest) = 0 /\ 1..0 = {} /\ 0 + 1..0 = {} /\ 0 - 0 = 0 /\ 0 \in 0..0
        /\ 0 \in 0..Len(s) /\ at.end_ \in Int /\ at.end_ >= at.end_
    BY <1>1, <1>2, RangeFacts, EmptySeq
  <2>2. RightSoFar(at, s, 0, first)
    BY <1>2, <2>1 DEF RightSoFar
  <2> QED
    BY <1>3, <2>1, <2>2
<1>5. ASSUME NEW k \in 1..Len(s), k - 1 \in S
      PROVE  k \in S
  <2>1. k - 1 \in 0..Len(s) /\ k \in 0..Len(s) /\ acc[k - 1] \in Accs /\ at.start_ <= s[k].start_
    BY <1>1, <1>3
  <2>2. RightSoFar(at, s, k - 1, acc[k - 1]) /\ acc[k] = TakeRight(acc[k - 1], s[k])
    BY <1>3, <1>5
  <2>3. RightSoFar(at, s, k, acc[k])
    BY <2>1, <2>2, RightGoesOn
  <2> QED
    BY <2>1, <2>3
<1>6. Len(s) \in S
  <2>1. 0..Len(s) \subseteq S
    <3> HIDE DEF S
    <3> QED
      BY <1>1, <1>4, <1>5, UpTo
  <2> QED
    BY <1>1, <2>1
<1>7. acc[Len(s)] \in Accs
  BY <1>1, <1>3
<1> QED
  BY <1>3, <1>6, <1>7 DEF first

(* The same on the left, from the last entry down: those after the m-th    *)
(* are in the entry at hand, and those from the k-th to it are the rest.   *)
LeftSoFar(at, s, k, acc) ==
  \E m \in k..Len(s) :
    /\ Len(acc.rest) = m - k /\ \A i \in 1..m - k : acc.rest[i] = s[k + i]
    /\ acc.at.end_ = at.end_
    /\ \A x \in Int : x \in Bits(acc.at) <=>
                        x \in Bits(at) \/ \E j \in m + 1..Len(s) : x \in Bits(s[j])
    /\ \A j \in k + 1..m : s[j].end_ + 1 < acc.at.start_

LEMMA LeftGoesOn ==
  ASSUME ~Unsigned, NEW at \in Ranges, NEW s, InOrder(s), NEW k \in 1..Len(s),
         s[k].end_ <= at.end_, NEW acc \in Accs, LeftSoFar(at, s, k, acc)
  PROVE  LeftSoFar(at, s, k - 1, TakeLeft(s[k], acc))
<1> DEFINE e == s[k]
           new == TakeLeft(e, acc)
           n == Len(s)
<1>1. s \in Seq(Ranges) /\ n \in Nat /\ \A i \in 1..n : s[i] \in Ranges
  BY SeqFacts DEF InOrder
<1>2. PICK m \in k..n :
        /\ Len(acc.rest) = m - k /\ \A i \in 1..m - k : acc.rest[i] = s[k + i]
        /\ acc.at.end_ = at.end_
        /\ \A x \in Int : x \in Bits(acc.at) <=>
                            x \in Bits(at) \/ \E j \in m + 1..n : x \in Bits(s[j])
        /\ \A j \in k + 1..m : s[j].end_ + 1 < acc.at.start_
  BY DEF LeftSoFar
<1>3. e \in Ranges /\ acc.at \in Ranges /\ acc.rest \in Seq(Ranges) /\ new \in Accs /\ new.at \in Ranges
  BY <1>1, TakeLeftIs DEF Accs
<1>4. /\ e.start_ \in Int /\ e.end_ \in Int /\ e.start_ <= e.end_
      /\ acc.at.start_ \in Int /\ acc.at.end_ \in Int /\ acc.at.start_ <= acc.at.end_
      /\ at.start_ \in Int /\ at.end_ \in Int /\ at.start_ <= at.end_
      /\ \A x \in Int : x \in Bits(e) <=> e.start_ <= x /\ x <= e.end_
      /\ \A x \in Int : x \in Bits(acc.at) <=> acc.at.start_ <= x /\ x <= acc.at.end_
      /\ \A x \in Int : x \in Bits(new.at) <=> new.at.start_ <= x /\ x <= new.at.end_
  BY <1>3, RangeFacts
<1>5. CASE acc.rest = <<>> /\ e.end_ >= acc.at.start_ - 1
  <2>1. /\ new.at.start_ = IF acc.at.start_ > e.start_ THEN e.start_ ELSE acc.at.start_
        /\ new.at.end_ = IF acc.at.end_ < e.end_ THEN e.end_ ELSE acc.at.end_
        /\ new.rest = <<>>
    BY <1>3, <1>5, TakeLeftIs
  <2>2. m = k /\ Len(new.rest) = 0
    BY <1>2, <1>5, <2>1
  <2>3. new.at.end_ = at.end_
    BY <1>2, <1>4, <2>1
  <2>4. ASSUME NEW x \in Int
        PROVE  x \in Bits(new.at) <=> x \in Bits(acc.at) \/ x \in Bits(e)
    <3>1. e.end_ <= at.end_ /\ acc.at.end_ = at.end_
      BY <1>2
    <3> HIDE DEF e, new
    <3> QED
      BY <1>4, <1>5, <2>1, <3>1
  <2>5. ASSUME NEW x \in Int
        PROVE  x \in Bits(new.at) <=> x \in Bits(at) \/ \E j \in k..n : x \in Bits(s[j])
    <3>1. x \in Bits(acc.at) <=> x \in Bits(at) \/ \E j \in k + 1..n : x \in Bits(s[j])
      BY <1>2, <2>2
    <3>2. (\E j \in k..n : x \in Bits(s[j])) <=> x \in Bits(e) \/ \E j \in k + 1..n : x \in Bits(s[j])
      BY <1>1
    <3> HIDE DEF e, new
    <3> QED
      BY <2>4, <3>1, <3>2
  <2> HIDE DEF new
  <2>6. k - 1 \in k - 1..n /\ k - 1 - (k - 1) = 0 /\ 1..0 = {} /\ k - 1 + 1..k - 1 = {} /\ k - 1 + 1 = k
    BY <1>1
  <2>7. LeftSoFar(at, s, k - 1, new)
    BY <2>1, <2>2, <2>3, <2>5, <2>6 DEF LeftSoFar
  <2> QED
    BY <2>7 DEF new
<1>6. CASE ~(acc.rest = <<>> /\ e.end_ >= acc.at.start_ - 1)
  <2>1. new.at = acc.at /\ new.rest = <<e>> \o acc.rest
    BY <1>3, <1>6, TakeLeftIs
  <2>2. /\ Len(new.rest) = 1 + Len(acc.rest) /\ new.rest[1] = e
        /\ \A i \in 1..Len(acc.rest) : new.rest[1 + i] = acc.rest[i]
    <3>1. /\ <<e>> \in Seq(Ranges) /\ Len(<<e>>) = 1 /\ <<e>>[1] = e
          /\ Len(acc.rest) \in Nat
      BY <1>3, LenProperties
    <3>2. PICK one \in Seq(Ranges), rest \in Seq(Ranges) : one = <<e>> /\ rest = acc.rest
      BY <1>3, <3>1
    <3>3. /\ Len(one \o rest) = Len(one) + Len(rest)
          /\ \A i \in 1..Len(one) : (one \o rest)[i] = one[i]
          /\ \A i \in 1..Len(rest) : (one \o rest)[Len(one) + i] = rest[i]
      BY Joined
    <3>4. Len(one) = 1 /\ one[1] = e /\ 1 \in 1..1 /\ new.rest = one \o rest
      BY <2>1, <3>1, <3>2
    <3> QED
      BY <3>2, <3>3, <3>4
  <2>3. ASSUME NEW i \in 1..m - (k - 1)
        PROVE  new.rest[i] = s[k - 1 + i]
    <3>1. CASE i = 1
      BY <2>2, <3>1
    <3>2. CASE i # 1
      <4>1. i - 1 \in 1..m - k /\ 1 + (i - 1) = i /\ k + (i - 1) = k - 1 + i
        BY <1>1, <3>2
      <4>2. new.rest[1 + (i - 1)] = acc.rest[i - 1] /\ acc.rest[i - 1] = s[k + (i - 1)]
        BY <1>2, <2>2, <4>1
      <4> QED
        BY <4>1, <4>2
    <3> QED
      BY <3>1, <3>2
  <2>4. Len(new.rest) = m - (k - 1) /\ m \in k - 1..n
    BY <1>1, <1>2, <2>2
  <2>5. e.end_ + 1 < acc.at.start_
    <3>1. CASE m = k
      <4>1. acc.rest = <<>>
        BY <1>2, <1>3, <3>1, EmptySeq
      <4> QED
        BY <1>4, <1>6, <4>1
    <3>2. CASE m # k
      <4>1. k + 1 \in k + 1..m /\ k + 1 \in 1..n /\ k < k + 1
        BY <1>1, <3>2
      <4>2. s[k + 1].end_ + 1 < acc.at.start_ /\ e.end_ + 1 < s[k + 1].start_
        BY <1>2, <4>1 DEF InOrder
      <4>3. s[k + 1].start_ \in Int /\ s[k + 1].end_ \in Int /\ s[k + 1].start_ <= s[k + 1].end_
        BY <1>1, <4>1, RangeFacts
      <4>4. \A a \in Int, b \in Int, c \in Int, d \in Int :
              a + 1 < b /\ b <= c /\ c + 1 < d => a + 1 < d
        OBVIOUS
      <4>5. e.end_ \in Int /\ acc.at.start_ \in Int
        BY <1>4
      <4> HIDE DEF e
      <4> QED
        BY <4>2, <4>3, <4>4, <4>5
    <3> QED
      BY <3>1, <3>2
  <2>6. \A j \in k..m : s[j].end_ + 1 < acc.at.start_
    <3>1. \A j \in k..m : j \in k + 1..m \/ j = k
      BY <1>1
    <3> QED
      BY <1>2, <2>5, <3>1
  <2>7. k - 1 + 1 = k
    OBVIOUS
  <2> HIDE DEF new
  <2>8. LeftSoFar(at, s, k - 1, new)
    BY <1>2, <2>1, <2>3, <2>4, <2>6, <2>7 DEF LeftSoFar
  <2> QED
    BY <2>8 DEF new
<1> QED
  BY <1>5, <1>6

LEMMA LeftCompacted ==
  ASSUME ~Unsigned, NEW at \in Ranges, NEW s, InOrder(s),
         \A k \in 1..Len(s) : s[k].end_ <= at.end_
  PROVE  /\ FoldRight(TakeLeft, s, [at |-> at, rest |-> <<>>]) \in Accs
         /\ LeftSoFar(at, s, 0, FoldRight(TakeLeft, s, [at |-> at, rest |-> <<>>]))
<1> DEFINE first == [at |-> at, rest |-> <<>>]
           n == Len(s)
<1>1. s \in Seq(Ranges) /\ n \in Nat
  BY SeqFacts DEF InOrder
<1>2. first \in Accs /\ first.at = at /\ first.rest = <<>>
  BY EmptySeq DEF Accs
<1> HIDE DEF first
<1>3. PICK acc : /\ acc \in [0..n -> Accs]
                 /\ acc[n] = first
                 /\ \A k \in 1..n : acc[k - 1] = TakeLeft(s[k], acc[k])
                 /\ FoldRight(TakeLeft, s, first) = acc[0]
  BY <1>1, <1>2, LeftSteps
<1> DEFINE S == {k \in 0..n : LeftSoFar(at, s, k, acc[k])}
<1>4. n \in S
  <2>1. /\ Len(first.rest) = 0 /\ 1..0 = {} /\ n + 1..n = {} /\ n - n = 0 /\ n \in n..n
        /\ n \in 0..n
    BY <1>1, <1>2, EmptySeq
  <2>2. LeftSoFar(at, s, n, first)
    BY <1>2, <2>1 DEF LeftSoFar
  <2> QED
    BY <1>3, <2>1, <2>2
<1>5. ASSUME NEW k \in 1..n, k \in S
      PROVE  k - 1 \in S
  <2>1. k - 1 \in 0..n /\ k \in 0..n /\ acc[k] \in Accs /\ s[k].end_ <= at.end_
    BY <1>1, <1>3
  <2>2. LeftSoFar(at, s, k, acc[k]) /\ acc[k - 1] = TakeLeft(s[k], acc[k])
    BY <1>3, <1>5
  <2>3. LeftSoFar(at, s, k - 1, acc[k - 1])
    BY <2>1, <2>2, LeftGoesOn
  <2> QED
    BY <2>1, <2>3
<1>6. 0 \in S
  <2>1. 0..n \subseteq S
    <3> HIDE DEF S
    <3> QED
      BY <1>1, <1>4, <1>5, DownFrom
  <2> QED
    BY <1>1, <2>1
<1>7. acc[0] \in Accs
  BY <1>1, <1>3
<1> QED
  BY <1>3, <1>6, <1>7 DEF first

-----------------------------------------------------------------------------
(* The compaction as a whole: what is made of an entry, of entries on its  *)
(* left that end no later and of entries on its right that begin no        *)
(* earlier is in order and covers what they did.                           *)
LEMMA CompactedIs ==
  ASSUME ~Unsigned, NEW left, NEW at \in Ranges, NEW right, InOrder(left), InOrder(right),
         \A i \in 1..Len(left) : left[i].end_ <= at.end_,
         \A j \in 1..Len(right) : at.start_ <= right[j].start_,
         \A i \in 1..Len(left), j \in 1..Len(right) : left[i].end_ + 1 < right[j].start_
  PROVE  /\ InOrder(Compacted(left, at, right))
         /\ \A x \in Int : Covers(Compacted(left, at, right), x)
                             <=> x \in Bits(at) \/ Covers(left, x) \/ Covers(right, x)
<1> DEFINE r == FoldLeft(TakeRight, [at |-> at, rest |-> <<>>], right)
           l == FoldRight(TakeLeft, left, [at |-> r.at, rest |-> <<>>])
           all == l.rest \o <<l.at>> \o r.rest
<1>1. PICK nl \in Nat, nr \in Nat : nl = Len(left) /\ nr = Len(right)
  BY SeqFacts DEF InOrder
<1>2. /\ left \in Seq(Ranges) /\ right \in Seq(Ranges)
      /\ \A i \in 1..nl : left[i] \in Ranges
      /\ \A j \in 1..nr : right[j] \in Ranges
  BY <1>1, SeqFacts DEF InOrder
<1>3. r \in Accs /\ RightSoFar(at, right, nr, r)
  BY <1>1, RightCompacted
<1> HIDE DEF r
<1>4. PICK m \in 0..nr :
        /\ Len(r.rest) = nr - m /\ \A i \in 1..nr - m : r.rest[i] = right[m + i]
        /\ r.at.start_ = at.start_ /\ r.at.end_ >= at.end_
        /\ \A x \in Int : x \in Bits(r.at) <=> x \in Bits(at) \/ \E j \in 1..m : x \in Bits(right[j])
        /\ \A j \in m + 1..nr : r.at.end_ + 1 < right[j].start_
  BY <1>3 DEF RightSoFar
<1>5. r.at \in Ranges /\ r.rest \in Seq(Ranges)
  BY <1>3 DEF Accs
<1>6. \A i \in 1..nl : left[i].end_ <= r.at.end_
  <2>1. at.end_ \in Int /\ r.at.end_ \in Int /\ \A i \in 1..nl : left[i].end_ \in Int
    BY <1>2, <1>5, RangeFacts
  <2> QED
    BY <1>1, <1>4, <2>1
<1>7. l \in Accs /\ LeftSoFar(r.at, left, 0, l)
  BY <1>1, <1>5, <1>6, LeftCompacted
<1> HIDE DEF l
<1>8. PICK p \in 0..nl :
        /\ Len(l.rest) = p - 0 /\ \A i \in 1..p - 0 : l.rest[i] = left[0 + i]
        /\ l.at.end_ = r.at.end_
        /\ \A x \in Int : x \in Bits(l.at) <=>
                            x \in Bits(r.at) \/ \E j \in p + 1..nl : x \in Bits(left[j])
        /\ \A j \in 0 + 1..p : left[j].end_ + 1 < l.at.start_
  BY <1>1, <1>7 DEF LeftSoFar
<1>9. /\ Len(l.rest) = p /\ \A i \in 1..p : l.rest[i] = left[i]
      /\ \A j \in 1..p : left[j].end_ + 1 < l.at.start_
  BY <1>8
<1>10. l.at \in Ranges /\ l.rest \in Seq(Ranges)
  BY <1>7 DEF Accs
<1>11. all = Compacted(left, at, right)
  BY DEF Compacted, l, r
<1>12. /\ all \in Seq(Ranges) /\ Len(all) = p + 1 + (nr - m)
       /\ \A i \in 1..p : all[i] = left[i]
       /\ all[p + 1] = l.at
       /\ \A i \in 1..nr - m : all[p + 1 + i] = right[m + i]
  <2>1. PICK one \in Seq(Ranges) : one = <<l.at>> /\ Len(one) = 1 /\ one[1] = l.at
    <3>1. <<l.at>> \in Seq(Ranges) /\ Len(<<l.at>>) = 1 /\ <<l.at>>[1] = l.at
      BY <1>10
    <3> QED
      BY <3>1
  <2>2. PICK begins \in Seq(Ranges), ends \in Seq(Ranges) : begins = l.rest /\ ends = r.rest
    BY <1>5, <1>10
  <2>11. PICK most : most = begins \o one
    OBVIOUS
  <2>3. /\ most \in Seq(Ranges) /\ Len(most) = p + 1
        /\ \A i \in 1..p : most[i] = begins[i]
        /\ \A i \in 1..1 : most[p + i] = one[i]
    <3>1. p \in Nat /\ Len(begins) = p
      BY <1>9, <2>2
    <3>2. /\ most \in Seq(Ranges) /\ Len(most) = Len(begins) + Len(one)
          /\ \A i \in 1..Len(begins) : most[i] = begins[i]
          /\ \A i \in 1..Len(one) : most[Len(begins) + i] = one[i]
      BY <2>11, Joined
    <3> QED
      BY <2>1, <3>1, <3>2
  <2>4. PICK q \in Nat : q = p + 1
    OBVIOUS
  <2>5. PICK c \in Nat : c = nr - m
    OBVIOUS
  <2>6. /\ most \o ends \in Seq(Ranges) /\ Len(most \o ends) = q + c
        /\ \A i \in 1..q : (most \o ends)[i] = most[i]
        /\ \A i \in 1..c : (most \o ends)[q + i] = ends[i]
    <3>1. Len(most) = q /\ Len(ends) = c
      BY <1>4, <2>2, <2>3, <2>4, <2>5
    <3>2. /\ most \o ends \in Seq(Ranges) /\ Len(most \o ends) = Len(most) + Len(ends)
          /\ \A i \in 1..Len(most) : (most \o ends)[i] = most[i]
          /\ \A i \in 1..Len(ends) : (most \o ends)[Len(most) + i] = ends[i]
      BY <2>3, Joined
    <3> QED
      BY <3>1, <3>2
  <2>7. all = most \o ends
    BY <2>1, <2>2, <2>11
  <2>8. q \in 1..q /\ (\A i \in 1..p : i \in 1..q) /\ 1 \in 1..1
    BY <2>4
  <2> HIDE DEF all
  <2>9. /\ \A i \in 1..p : all[i] = left[i]
        /\ all[p + 1] = l.at
    BY <1>9, <2>1, <2>2, <2>3, <2>4, <2>6, <2>7, <2>8
  <2>10. \A i \in 1..nr - m : all[p + 1 + i] = right[m + i]
    BY <1>4, <2>2, <2>4, <2>5, <2>6, <2>7
  <2> QED
    BY <2>4, <2>5, <2>6, <2>7, <2>9, <2>10
<1> HIDE DEF all
<1>13. /\ \A i \in 1..nl : left[i].start_ \in Int /\ left[i].end_ \in Int /\ left[i].start_ <= left[i].end_
       /\ \A j \in 1..nr : right[j].start_ \in Int /\ right[j].end_ \in Int /\ right[j].start_ <= right[j].end_
       /\ l.at.start_ \in Int /\ l.at.end_ \in Int /\ l.at.start_ <= l.at.end_
  BY <1>2, <1>10, RangeFacts
<1>14. \A i \in 1..Len(all) : i \in 1..p \/ i = p + 1 \/ (i - p - 1 \in 1..nr - m /\ i = p + 1 + (i - p - 1))
  BY <1>12
<1>15. ASSUME NEW i \in 1..Len(all), NEW j \in 1..Len(all), i < j
       PROVE  all[i].end_ + 1 < all[j].start_
  <2>1. CASE j \in 1..p
    <3>1. i \in 1..p /\ i \in 1..nl /\ j \in 1..nl
      BY <1>15, <2>1
    <3> QED
      BY <1>1, <1>12, <1>15, <2>1, <3>1 DEF InOrder
  <2>2. CASE j = p + 1
    <3>1. i \in 1..p
      BY <1>15, <2>2
    <3> QED
      BY <1>9, <1>12, <2>2, <3>1
  <2>3. ASSUME NEW k \in 1..nr - m, j = p + 1 + k
        PROVE  all[i].end_ + 1 < all[j].start_
    <3>1. m + k \in 1..nr /\ m + k \in m + 1..nr /\ all[j] = right[m + k]
      BY <1>12, <2>3
    <3>2. CASE i \in 1..p
      <4>1. i \in 1..nl /\ all[i] = left[i]
        BY <1>12, <3>2
      <4> QED
        BY <1>1, <3>1, <4>1
    <3>3. CASE i = p + 1
      <4>1. all[i] = l.at /\ l.at.end_ = r.at.end_
        BY <1>8, <1>12, <3>3
      <4> QED
        BY <1>4, <3>1, <4>1
    <3>4. ASSUME NEW q \in 1..nr - m, i = p + 1 + q
          PROVE  all[i].end_ + 1 < all[j].start_
      <4>1. m + q \in 1..nr /\ m + q < m + k /\ all[i] = right[m + q]
        <5>1. m + q \in 1..nr
          BY <3>4
        <5>2. q < k
          BY <1>15, <2>3, <3>4
        <5>3. m + q < m + k
          BY <2>3, <3>4, <5>2
        <5>4. all[i] = right[m + q]
          BY <1>12, <3>4
        <5> QED
          BY <5>1, <5>3, <5>4
      <4> QED
        BY <1>1, <3>1, <4>1 DEF InOrder
    <3> QED
      BY <1>14, <3>2, <3>3, <3>4
  <2> QED
    BY <1>14, <2>1, <2>2, <2>3
<1>16. InOrder(all)
  BY <1>12, <1>15 DEF InOrder
<1>17. ASSUME NEW x \in Int
       PROVE  Covers(all, x) <=> x \in Bits(at) \/ Covers(left, x) \/ Covers(right, x)
  <2>1. x \in Bits(l.at) <=> \/ x \in Bits(at)
                             \/ \E j \in 1..m : x \in Bits(right[j])
                             \/ \E j \in p + 1..nl : x \in Bits(left[j])
    BY <1>4, <1>8
  <2>2. Covers(all, x) <=> \/ \E i \in 1..p : x \in Bits(left[i])
                           \/ x \in Bits(l.at)
                           \/ \E i \in 1..nr - m : x \in Bits(right[m + i])
    <3>1. ASSUME NEW i \in 1..p, x \in Bits(left[i])
          PROVE  Covers(all, x)
      <4>1. i \in 1..Len(all) /\ all[i] = left[i]
        BY <1>12
      <4> QED
        BY <3>1, <4>1 DEF Covers
    <3>2. ASSUME x \in Bits(l.at)
          PROVE  Covers(all, x)
      <4>1. p + 1 \in 1..Len(all) /\ all[p + 1] = l.at
        BY <1>12
      <4> QED
        BY <3>2, <4>1 DEF Covers
    <3>3. ASSUME NEW i \in 1..nr - m, x \in Bits(right[m + i])
          PROVE  Covers(all, x)
      <4>1. p + 1 + i \in 1..Len(all)
        BY <1>12
      <4>2. all[p + 1 + i] = right[m + i]
        BY <1>12
      <4> QED
        BY <3>3, <4>1, <4>2 DEF Covers
    <3>4. ASSUME NEW i \in 1..Len(all), x \in Bits(all[i])
          PROVE  \/ \E j \in 1..p : x \in Bits(left[j])
                 \/ x \in Bits(l.at)
                 \/ \E j \in 1..nr - m : x \in Bits(right[m + j])
      <4>1. CASE i \in 1..p
        BY <1>12, <3>4, <4>1
      <4>2. CASE i = p + 1
        BY <1>12, <3>4, <4>2
      <4>3. ASSUME NEW j \in 1..nr - m, i = p + 1 + j
            PROVE  x \in Bits(right[m + j])
        <5>1. all[i] = right[m + j]
          BY <1>12, <4>3
        <5> QED
          BY <3>4, <5>1
      <4> QED
        BY <1>14, <4>1, <4>2, <4>3
    <3> QED
      BY <3>1, <3>2, <3>3, <3>4 DEF Covers
  <2>3. Covers(left, x) <=> \/ \E i \in 1..p : x \in Bits(left[i])
                            \/ \E i \in p + 1..nl : x \in Bits(left[i])
    <3>1. \A i : i \in 1..nl <=> i \in 1..p \/ i \in p + 1..nl
      OBVIOUS
    <3> QED
      BY <1>1, <3>1 DEF Covers
  <2>4. Covers(right, x) <=> \/ \E i \in 1..m : x \in Bits(right[i])
                             \/ \E i \in 1..nr - m : x \in Bits(right[m + i])
    <3>1. \A i \in 1..nr : i \in 1..m \/ (i - m \in 1..nr - m /\ m + (i - m) = i)
      OBVIOUS
    <3>2. (\A i \in 1..m : i \in 1..nr) /\ (\A i \in 1..nr - m : m + i \in 1..nr)
      OBVIOUS
    <3> QED
      BY <1>1, <3>1, <3>2 DEF Covers
  <2> QED
    BY <2>1, <2>2, <2>3, <2>4
<1> QED
  BY <1>11, <1>16, <1>17

(* A part of a vector in order.                                            *)
LEMMA PartIs ==
  ASSUME NEW s, InOrder(s), NEW a \in 1..Len(s) + 1, NEW b \in a - 1..Len(s)
  PROVE  /\ InOrder(SubSeq(s, a, b))
         /\ Len(SubSeq(s, a, b)) = b - a + 1
         /\ \A k \in 1..b - a + 1 : SubSeq(s, a, b)[k] = s[a + k - 1]
         /\ \A x \in Int : Covers(SubSeq(s, a, b), x) <=> \E j \in a..b : x \in Bits(s[j])
<1>1. s \in Seq(Ranges) /\ Len(s) \in Nat /\ \A i \in 1..Len(s) : s[i] \in Ranges
  BY SeqFacts DEF InOrder
<1>2. PICK t : t = SubSeq(s, a, b)
  OBVIOUS
<1>3. a \in Int /\ b \in Int /\ \A i \in a..b : i \in 1..Len(s)
  BY <1>1
<1>4. /\ t \in Seq(Ranges) /\ Len(t) = b - a + 1
      /\ \A k \in 1..b - a + 1 : t[k] = s[a + k - 1]
  <2>1. \A i \in a..b : s[i] \in Ranges
    BY <1>1, <1>3
  <2>2. /\ t \in Seq(Ranges) /\ Len(t) = IF a <= b THEN b - a + 1 ELSE 0
        /\ \A k \in 1..b - a + 1 : t[k] = s[a + k - 1]
    BY <1>2, <1>3, <2>1, SubSeqProperties
  <2> QED
    BY <1>3, <2>2
<1>5. \A k \in 1..Len(t) : a + k - 1 \in 1..Len(s) /\ a + k - 1 \in a..b /\ t[k] = s[a + k - 1]
  BY <1>1, <1>4
<1>6. InOrder(t)
  <2>1. ASSUME NEW i \in 1..Len(t), NEW j \in 1..Len(t), i < j
        PROVE  t[i].end_ + 1 < t[j].start_
    <3>1. a + i - 1 \in 1..Len(s) /\ a + j - 1 \in 1..Len(s) /\ a + i - 1 < a + j - 1
      BY <1>5, <2>1
    <3> QED
      BY <1>5, <3>1 DEF InOrder
  <2> QED
    BY <1>4, <2>1 DEF InOrder
<1>7. ASSUME NEW x \in Int
      PROVE  Covers(t, x) <=> \E j \in a..b : x \in Bits(s[j])
  <2>1. ASSUME NEW j \in a..b, x \in Bits(s[j])
        PROVE  Covers(t, x)
    <3>1. j - a + 1 \in 1..Len(t) /\ a + (j - a + 1) - 1 = j
      BY <1>1, <1>4
    <3>2. t[j - a + 1] = s[j]
      BY <1>5, <3>1
    <3> QED
      BY <2>1, <3>1, <3>2 DEF Covers
  <2>2. ASSUME NEW k \in 1..Len(t), x \in Bits(t[k])
        PROVE  \E j \in a..b : x \in Bits(s[j])
    BY <1>5, <2>2
  <2> QED
    BY <2>1, <2>2 DEF Covers
<1> QED
  BY <1>2, <1>4, <1>6, <1>7

-----------------------------------------------------------------------------
(* set().                                                                  *)
Meets(e, start, end) ==
  \/ e.start_ <= start /\ start <= e.end_ + 1
  \/ e.start_ - 1 <= end /\ end <= e.end_
  \/ end < e.start_

LEMMA StopsAtIs ==
  ASSUME ~Unsigned, bitmap_ \in Seq(Ranges), NEW start \in Int, NEW end \in Int, start <= end
  PROVE  /\ StopsAt(start, end) \in 0..Len(bitmap_)
         /\ StopsAt(start, end) = 0 =>
              \A k \in 1..Len(bitmap_) : ~Meets(bitmap_[k], start, end)
         /\ StopsAt(start, end) # 0 =>
              /\ Meets(bitmap_[StopsAt(start, end)], start, end)
              /\ \A k \in 1..StopsAt(start, end) - 1 : ~Meets(bitmap_[k], start, end)
<1>1. PICK n \in Nat : n = Len(bitmap_)
  BY SeqFacts
<1>2. PICK I : I = {k \in 1..n : Meets(bitmap_[k], start, end)}
  OBVIOUS
<1>3. \A k \in 1..n : /\ bitmap_[k].start_ \in Int /\ bitmap_[k].end_ \in Int
  BY <1>1, SeqFacts, RangeFacts
<1>4. StopsAt(start, end) = IF I # {} THEN Smallest(I) ELSE 0
  <2>1. ASSUME NEW k \in 1..n
        PROVE  Meets(bitmap_[k], start, end) <=>
                 \/ ExtendsRight(bitmap_[k], start)
                 \/ ExtendsLeft(bitmap_[k], start, end)
                 \/ end < bitmap_[k].start_
    <3>1. Word(bitmap_[k].end_ + 1) = bitmap_[k].end_ + 1
          /\ Word(bitmap_[k].start_ - 1) = bitmap_[k].start_ - 1
      BY Signed
    <3> QED
      BY <1>3, <3>1 DEF Meets, ExtendsRight, ExtendsLeft
  <2>2. I = {k \in 1..Len(bitmap_) : \/ ExtendsRight(bitmap_[k], start)
                                     \/ ExtendsLeft(bitmap_[k], start, end)
                                     \/ end < bitmap_[k].start_}
    BY <1>1, <1>2, <2>1
  <2> QED
    BY <2>2 DEF StopsAt, SelectInSeq, Smallest, Min
<1>5. CASE I = {}
  BY <1>1, <1>2, <1>4, <1>5
<1>6. CASE I # {}
  <2>1. PICK i \in I : \A k \in I : i <= k
    <3>1. I \subseteq Nat
      BY <1>2
    <3> QED
      BY <1>6, <3>1, LeastNat
  <2>2. StopsAt(start, end) = i /\ i \in 1..n
    BY <1>2, <1>4, <1>6, <2>1, SmallestIs
  <2>3. \A k \in 1..i - 1 : k \in 1..n /\ ~(i <= k)
    BY <2>2
  <2>4. \A k \in 1..i - 1 : ~Meets(bitmap_[k], start, end)
    BY <1>2, <2>1, <2>3
  <2> QED
    BY <1>1, <1>2, <2>1, <2>2, <2>4
<1> QED
  BY <1>5, <1>6

(* An entry that set() goes past ends before the range does.               *)
LEMMA GoneBy ==
  ASSUME NEW e \in Ranges, NEW start \in Int, NEW end \in Int, start <= end,
         ~Meets(e, start, end)
  PROVE  e.end_ < end
<1>1. e.start_ \in Int /\ e.end_ \in Int /\ e.start_ <= e.end_
  BY RangeFacts
<1> QED
  BY <1>1 DEF Meets

LEMMA WithSetIs ==
  ASSUME ~Unsigned, InOrder(bitmap_), NEW start \in Int, NEW end \in Int, start <= end
  PROVE  /\ InOrder(WithSet(start, end))
         /\ \A x \in Int : Covers(WithSet(start, end), x) <=> Covers(bitmap_, x) \/ x \in start..end
<1>1. bitmap_ \in Seq(Ranges)
  BY DEF InOrder
<1>2. PICK n \in Nat : n = Len(bitmap_)
  BY <1>1, SeqFacts
<1>3. /\ \A k \in 1..n : bitmap_[k] \in Ranges
      /\ \A k \in 1..n : /\ bitmap_[k].start_ \in Int /\ bitmap_[k].end_ \in Int
                         /\ bitmap_[k].start_ <= bitmap_[k].end_
      /\ \A k \in 1..n, x \in Int : x \in Bits(bitmap_[k]) <=>
                                      bitmap_[k].start_ <= x /\ x <= bitmap_[k].end_
  BY <1>1, <1>2, SeqFacts, RangeFacts
<1>4. PICK i \in 0..n : i = StopsAt(start, end)
  BY <1>1, <1>2, StopsAtIs
<1>5. /\ i = 0 => \A k \in 1..n : ~Meets(bitmap_[k], start, end)
      /\ i # 0 => Meets(bitmap_[i], start, end) /\ \A k \in 1..i - 1 : ~Meets(bitmap_[k], start, end)
  BY <1>1, <1>2, <1>4, StopsAtIs
<1>6. Entry(start, end) \in Ranges /\ Entry(start, end).start_ = start /\ Entry(start, end).end_ = end
      /\ \A x \in Int : x \in Bits(Entry(start, end)) <=> start <= x /\ x <= end
  BY EntryIsRange, RangeFacts
<1>7. CASE i = 0
  <2>1. WithSet(start, end) = Compacted(bitmap_, Entry(start, end), <<>>)
    BY <1>4, <1>7 DEF WithSet
  <2>2. InOrder(<<>>) /\ Len(<<>>) = 0 /\ 1..0 = {}
    BY EmptySeq DEF InOrder
  <2>3. \A k \in 1..n : bitmap_[k].end_ <= end
    <3>1. \A k \in 1..n : bitmap_[k].end_ < end
      BY <1>3, <1>5, <1>7, GoneBy
    <3> QED
      BY <1>3, <3>1
  <2>4. /\ InOrder(WithSet(start, end))
        /\ \A x \in Int : Covers(WithSet(start, end), x) <=>
             x \in Bits(Entry(start, end)) \/ Covers(bitmap_, x) \/ Covers(<<>>, x)
    BY <1>2, <1>6, <2>1, <2>2, <2>3, CompactedIs
  <2>5. \A x : ~Covers(<<>>, x)
    BY <2>2 DEF Covers
  <2> QED
    BY <1>6, <2>4, <2>5
<1>8. CASE i # 0
  <2> DEFINE e == bitmap_[i]
             left == SubSeq(bitmap_, 1, i - 1)
             from == SubSeq(bitmap_, i, n)
             after == SubSeq(bitmap_, i + 1, n)
  <2>1. i \in 1..n /\ Tail(from) = after
    <3>1. i \in 1..n /\ n \in i..n
      BY <1>8
    <3> QED
      BY <1>1, <1>2, <3>1, HeadTailOfSubSeq
  <2>2. /\ InOrder(left) /\ Len(left) = i - 1 /\ \A k \in 1..i - 1 : left[k] = bitmap_[k]
        /\ \A x \in Int : Covers(left, x) <=> \E j \in 1..i - 1 : x \in Bits(bitmap_[j])
    <3>1. 1 \in 1..Len(bitmap_) + 1 /\ i - 1 \in 1 - 1..Len(bitmap_)
      BY <1>2, <2>1
    <3>2. i - 1 - 1 + 1 = i - 1 /\ \A k \in 1..i - 1 : 1 + k - 1 = k
      BY <2>1
    <3>3. /\ InOrder(left) /\ Len(left) = i - 1 - 1 + 1
          /\ \A k \in 1..i - 1 - 1 + 1 : left[k] = bitmap_[1 + k - 1]
          /\ \A x \in Int : Covers(left, x) <=> \E j \in 1..i - 1 : x \in Bits(bitmap_[j])
      BY <3>1, PartIs
    <3> HIDE DEF left
    <3> QED
      BY <3>2, <3>3
  <2>3. /\ InOrder(from) /\ Len(from) = n - i + 1
        /\ \A k \in 1..n - i + 1 : from[k] = bitmap_[i + k - 1] /\ i + k - 1 \in i..n
        /\ \A x \in Int : Covers(from, x) <=> \E j \in i..n : x \in Bits(bitmap_[j])
    <3>1. i \in 1..Len(bitmap_) + 1 /\ n \in i - 1..Len(bitmap_)
      BY <1>2, <2>1
    <3>2. \A k \in 1..n - i + 1 : i + k - 1 \in i..n
      BY <2>1
    <3>3. /\ InOrder(from) /\ Len(from) = n - i + 1
          /\ \A k \in 1..n - i + 1 : from[k] = bitmap_[i + k - 1]
          /\ \A x \in Int : Covers(from, x) <=> \E j \in i..n : x \in Bits(bitmap_[j])
      BY <3>1, PartIs
    <3> HIDE DEF from
    <3> QED
      BY <3>2, <3>3
  <2>4. /\ InOrder(after) /\ Len(after) = n - i
        /\ \A k \in 1..n - i : after[k] = bitmap_[i + k] /\ i + k \in i + 1..n
        /\ \A x \in Int : Covers(after, x) <=> \E j \in i + 1..n : x \in Bits(bitmap_[j])
    <3>1. i + 1 \in 1..Len(bitmap_) + 1 /\ n \in i + 1 - 1..Len(bitmap_)
      BY <1>2, <2>1
    <3>2. /\ n - (i + 1) + 1 = n - i
          /\ \A k \in 1..n - i : i + k \in i + 1..n /\ i + 1 + k - 1 = i + k
      BY <2>1
    <3>3. /\ InOrder(after) /\ Len(after) = n - (i + 1) + 1
          /\ \A k \in 1..n - (i + 1) + 1 : after[k] = bitmap_[i + 1 + k - 1]
          /\ \A x \in Int : Covers(after, x) <=> \E j \in i + 1..n : x \in Bits(bitmap_[j])
      BY <3>1, PartIs
    <3> HIDE DEF after
    <3> QED
      BY <3>2, <3>3
  <2>5. \A j, k \in 1..n : j < k => bitmap_[j].end_ + 1 < bitmap_[k].start_
    BY <1>2 DEF InOrder
  <2>6. \A k \in 1..i - 1 : bitmap_[k].end_ < end /\ k \in 1..n
    <3>1. \A k \in 1..i - 1 : k \in 1..n
      BY <2>1
    <3> QED
      BY <1>3, <1>5, <1>8, <3>1, GoneBy
  <2>7. \A x \in Int : Covers(bitmap_, x) <=>
          \/ \E j \in 1..i - 1 : x \in Bits(bitmap_[j])
          \/ x \in Bits(e)
          \/ \E j \in i + 1..n : x \in Bits(bitmap_[j])
    <3>1. \A j : j \in 1..n <=> j \in 1..i - 1 \/ j = i \/ j \in i + 1..n
      BY <2>1
    <3> QED
      BY <1>2, <3>1 DEF Covers
  <2>8. ASSUME NEW at \in Ranges, end <= at.end_, at.start_ < e.start_ \/ at.start_ = e.start_
        PROVE  /\ InOrder(Compacted(left, at, after))
               /\ \A x \in Int : Covers(Compacted(left, at, after), x) <=>
                    x \in Bits(at) \/ Covers(left, x) \/ Covers(after, x)
    <3>0. at.start_ \in Int /\ at.end_ \in Int
      BY RangeFacts
    <3>1. \A k \in 1..Len(left) : left[k].end_ <= at.end_
      <4>1. \A k \in 1..i - 1 : bitmap_[k].end_ <= at.end_
        BY <1>3, <2>6, <2>8, <3>0
      <4> HIDE DEF left
      <4> QED
        BY <2>2, <4>1
    <3>2. \A k \in 1..Len(after) : at.start_ <= after[k].start_
      <4>1. \A k \in i + 1..n : k \in 1..n /\ i < k
        BY <2>1
      <4>2. \A k \in i + 1..n : bitmap_[i].end_ + 1 < bitmap_[k].start_
        BY <2>1, <2>5, <4>1
      <4>3. \A k \in i + 1..n : at.start_ <= bitmap_[k].start_
        BY <1>3, <2>1, <2>8, <3>0, <4>1, <4>2
      <4> HIDE DEF after
      <4> QED
        BY <2>4, <4>3
    <3>3. \A k \in 1..Len(left), m \in 1..Len(after) : left[k].end_ + 1 < after[m].start_
      <4>1. \A k \in 1..i - 1, m \in i + 1..n : k \in 1..n /\ m \in 1..n /\ k < m
        BY <2>1
      <4>2. \A k \in 1..i - 1, m \in i + 1..n : bitmap_[k].end_ + 1 < bitmap_[m].start_
        BY <2>5, <4>1
      <4> HIDE DEF left, after
      <4> QED
        BY <2>2, <2>4, <4>2
    <3> HIDE DEF left, after
    <3> QED
      BY <2>2, <2>4, <3>1, <3>2, <3>3, CompactedIs
  <2>9. WithSet(start, end) =
          IF ExtendsRight(e, start)
          THEN IF end <= e.end_ THEN bitmap_
               ELSE Compacted(left, [e EXCEPT !.end_ = end], after)
          ELSE IF ExtendsLeft(e, start, end)
          THEN IF start >= e.start_ THEN bitmap_
               ELSE Compacted(left, [e EXCEPT !.start_ = start], after)
          ELSE Compacted(left, Entry(start, end), from)
    BY <1>2, <1>4, <1>8, <2>1 DEF WithSet
  <2>10. /\ e \in Ranges /\ e.start_ \in Int /\ e.end_ \in Int /\ e.start_ <= e.end_
         /\ \A x \in Int : x \in Bits(e) <=> e.start_ <= x /\ x <= e.end_
         /\ ExtendsRight(e, start) <=> e.start_ <= start /\ start <= e.end_ + 1
         /\ ExtendsLeft(e, start, end) <=> e.start_ - 1 <= end /\ end <= e.end_
    <3>1. e \in Ranges
      BY <1>3, <2>1
    <3>2. Word(e.end_ + 1) = e.end_ + 1 /\ Word(e.start_ - 1) = e.start_ - 1
      BY Signed
    <3>3. e.start_ \in Int /\ e.end_ \in Int /\ e.start_ <= e.end_
          /\ \A x \in Int : x \in Bits(e) <=> e.start_ <= x /\ x <= e.end_
      BY <3>1, RangeFacts
    <3> HIDE DEF e
    <3> QED
      BY <3>1, <3>2, <3>3 DEF ExtendsRight, ExtendsLeft
  <2> HIDE DEF e, left, from, after
  <2>11. CASE ExtendsRight(e, start) /\ end <= e.end_
    <3>1. WithSet(start, end) = bitmap_
      BY <2>9, <2>11
    <3>2. \A x \in Int : x \in start..end => x \in Bits(e)
      BY <2>10, <2>11
    <3> QED
      BY <2>7, <3>1, <3>2
  <2>12. CASE ExtendsRight(e, start) /\ ~(end <= e.end_)
    <3>1. PICK at : at = [e EXCEPT !.end_ = end]
      OBVIOUS
    <3>2. e.start_ <= end
      BY <2>10, <2>12
    <3>3. at \in Ranges /\ at.start_ = e.start_ /\ at.end_ = end
      BY <2>10, <3>1, <3>2, OtherEnd
    <3>4. WithSet(start, end) = Compacted(left, at, after)
      BY <2>9, <2>12, <3>1
    <3>5. \A x \in Int : x \in Bits(at) <=> x \in Bits(e) \/ x \in start..end
      <4>1. \A x \in Int : x \in Bits(at) <=> e.start_ <= x /\ x <= end
        BY <3>3, RangeFacts
      <4> QED
        BY <2>10, <2>12, <4>1
    <3> QED
      BY <2>2, <2>4, <2>7, <2>8, <3>3, <3>4, <3>5
  <2>13. CASE ~ExtendsRight(e, start) /\ ExtendsLeft(e, start, end) /\ start >= e.start_
    <3>1. WithSet(start, end) = bitmap_
      BY <2>9, <2>13
    <3>2. \A x \in Int : x \in start..end => x \in Bits(e)
      BY <2>10, <2>13
    <3> QED
      BY <2>7, <3>1, <3>2
  <2>14. CASE ~ExtendsRight(e, start) /\ ExtendsLeft(e, start, end) /\ ~(start >= e.start_)
    <3>1. PICK at : at = [e EXCEPT !.start_ = start]
      OBVIOUS
    <3>2. start <= e.end_
      BY <2>10, <2>14
    <3>3. at \in Ranges /\ at.start_ = start /\ at.end_ = e.end_
      BY <2>10, <3>1, <3>2, OtherEnd
    <3>4. WithSet(start, end) = Compacted(left, at, after)
      BY <2>9, <2>14, <3>1
    <3>5. \A x \in Int : x \in Bits(at) <=> x \in Bits(e) \/ x \in start..end
      <4>1. \A x \in Int : x \in Bits(at) <=> start <= x /\ x <= e.end_
        BY <3>3, RangeFacts
      <4> QED
        BY <2>10, <2>14, <4>1
    <3>6. end <= at.end_ /\ at.start_ < e.start_
      BY <2>10, <2>14, <3>3
    <3> QED
      BY <2>2, <2>4, <2>7, <2>8, <3>3, <3>4, <3>5, <3>6
  <2>15. CASE ~ExtendsRight(e, start) /\ ~ExtendsLeft(e, start, end)
    <3>1. WithSet(start, end) = Compacted(left, Entry(start, end), from)
      BY <2>9, <2>15
    <3>2. end < e.start_
      BY <1>5, <1>8, <2>10, <2>15 DEF Meets, e
    <3>3. \A k \in 1..Len(left) : left[k].end_ <= end
      BY <1>3, <2>2, <2>6
    <3>4. \A k \in i..n : k \in 1..n /\ start <= bitmap_[k].start_
      <4>1. \A k \in i..n : k \in 1..n /\ (k = i \/ i < k)
        BY <2>1
      <4>2. \A k \in 1..n : i < k => bitmap_[i].end_ + 1 < bitmap_[k].start_
        BY <2>1, <2>5
      <4>3. ASSUME NEW k \in i..n
            PROVE  start <= bitmap_[k].start_
        <5>1. CASE k = i
          BY <2>10, <3>2, <5>1 DEF e
        <5>2. CASE i < k
          <6>1. e.end_ + 1 < bitmap_[k].start_ /\ bitmap_[k].start_ \in Int
            BY <1>3, <4>1, <4>2, <5>2 DEF e
          <6> QED
            BY <2>10, <3>2, <6>1
        <5> QED
          BY <4>1, <5>1, <5>2
      <4> QED
        BY <4>1, <4>3
    <3>5. \A k \in 1..Len(from) : start <= from[k].start_
      BY <2>3, <3>4
    <3>6. \A k \in 1..Len(left), m \in 1..Len(from) : left[k].end_ + 1 < from[m].start_
      <4>1. \A k \in 1..i - 1, m \in i..n : k \in 1..n /\ m \in 1..n /\ k < m
        BY <2>1
      <4>2. \A k \in 1..i - 1, m \in i..n : bitmap_[k].end_ + 1 < bitmap_[m].start_
        BY <2>5, <4>1
      <4> QED
        BY <2>2, <2>3, <4>2
    <3>7. /\ InOrder(WithSet(start, end))
          /\ \A x \in Int : Covers(WithSet(start, end), x) <=>
               x \in Bits(Entry(start, end)) \/ Covers(left, x) \/ Covers(from, x)
      <4>1. PICK at : at = Entry(start, end)
        OBVIOUS
      <4>2. /\ at \in Ranges /\ \A k \in 1..Len(left) : left[k].end_ <= at.end_
            /\ \A k \in 1..Len(from) : at.start_ <= from[k].start_
        BY <1>6, <3>3, <3>5, <4>1
      <4>3. InOrder(left) /\ InOrder(from)
        BY <2>2, <2>3
      <4>4. /\ InOrder(Compacted(left, at, from))
            /\ \A x \in Int : Covers(Compacted(left, at, from), x) <=>
                 x \in Bits(at) \/ Covers(left, x) \/ Covers(from, x)
        BY <3>6, <4>2, <4>3, CompactedIs
      <4> QED
        BY <3>1, <4>1, <4>4
    <3>8. \A x \in Int : Covers(from, x) <=> x \in Bits(e) \/ \E j \in i + 1..n : x \in Bits(bitmap_[j])
      <4>1. \A j : j \in i..n <=> j = i \/ j \in i + 1..n
        BY <2>1
      <4> QED
        BY <2>3, <4>1 DEF e
    <3> QED
      BY <1>6, <2>2, <2>7, <3>7, <3>8
  <2> QED
    BY <2>11, <2>12, <2>13, <2>14, <2>15
<1> QED
  BY <1>7, <1>8

-----------------------------------------------------------------------------
(* clear().                                                                *)
IsFlat(f, ss) == f = [i \in 1..Len(ss) |-> IF i = 1 THEN ss[i] ELSE f[i - 1] \o ss[i]]

(* Concatenating sequences one by one, as the library's FlattenSeq does.   *)
LEMMA FlatSteps ==
  ASSUME NEW ss, NEW n \in Nat \ {0}, Len(ss) = n, \A i \in 1..n : ss[i] \in Seq(Ranges)
  PROVE  \E f : /\ f \in [1..n -> Seq(Ranges)] /\ f[1] = ss[1]
                /\ \A i \in 2..n : f[i] = f[i - 1] \o ss[i]
                /\ FlattenSeq(ss) = f[n]
<1> DEFINE Upto(k) == {f \in [1..k -> Seq(Ranges)] : \A i \in 1..k :
                         f[i] = IF i = 1 THEN ss[i] ELSE f[i - 1] \o ss[i]}
           K == {k \in 0..n : Upto(k) # {}}
<1>1. 0 \in K
  <2>1. [i \in 1..0 |-> <<>>] \in Upto(0)
    <3>1. 1..0 = {}
      OBVIOUS
    <3> QED
      BY <3>1
  <2>2. 0 \in 0..n
    OBVIOUS
  <2> HIDE DEF Upto
  <2> QED
    BY <2>1, <2>2
<1>2. ASSUME NEW k \in 1..n, k - 1 \in K
      PROVE  k \in K
  <2>1. PICK f \in Upto(k - 1) : TRUE
    BY <1>2
  <2> DEFINE last == IF k = 1 THEN ss[k] ELSE f[k - 1] \o ss[k]
             g == [i \in 1..k |-> IF i = k THEN last ELSE f[i]]
  <2>2. /\ f \in [1..k - 1 -> Seq(Ranges)]
        /\ \A i \in 1..k - 1 : f[i] = IF i = 1 THEN ss[i] ELSE f[i - 1] \o ss[i]
    BY <2>1
  <2>3. last \in Seq(Ranges)
    <3>1. CASE k = 1
      BY <3>1
    <3>2. CASE k # 1
      <4>1. k - 1 \in 1..k - 1
        BY <3>2
      <4> QED
        BY <2>2, <3>2, <4>1, ConcatProperties
    <3> QED
      BY <3>1, <3>2
  <2> HIDE DEF last
  <2>4. \A i \in 1..k : i = k \/ i \in 1..k - 1
    OBVIOUS
  <2>5. g \in [1..k -> Seq(Ranges)]
    BY <2>2, <2>3, <2>4
  <2>6. ASSUME NEW i \in 1..k
        PROVE  g[i] = IF i = 1 THEN ss[i] ELSE g[i - 1] \o ss[i]
    <3>1. i # 1 => i - 1 \in 1..k - 1 /\ i - 1 \in 1..k /\ g[i - 1] = f[i - 1]
      OBVIOUS
    <3>2. CASE i = k
      BY <3>1, <3>2 DEF last
    <3>3. CASE i \in 1..k - 1
      <4>1. g[i] = f[i]
        BY <3>3
      <4> HIDE DEF g
      <4> QED
        BY <2>2, <3>1, <3>3, <4>1
    <3> QED
      BY <2>4, <3>2, <3>3
  <2>7. g \in Upto(k)
    <3> HIDE DEF g
    <3> QED
      BY <2>5, <2>6
  <2>8. k \in 0..n
    OBVIOUS
  <2> HIDE DEF Upto
  <2> QED
    BY <2>7, <2>8
<1>3. PICK f \in Upto(n) : TRUE
  <2>1. 0..n \subseteq K
    <3> HIDE DEF K
    <3> QED
      BY <1>1, <1>2, UpTo
  <2>2. n \in 0..n
    OBVIOUS
  <2> HIDE DEF Upto
  <2> QED
    BY <2>1, <2>2
<1>4. IsFlat(f, ss)
  <2>1. f = [i \in 1..n |-> f[i]]
    OBVIOUS
  <2> QED
    BY <2>1 DEF IsFlat
<1>5. PICK h : IsFlat(h, ss) /\ FlattenSeq(ss) = h[n]
  <2> DEFINE h == CHOOSE g : IsFlat(g, ss)
  <2>1. IsFlat(h, ss)
    BY <1>4
  <2>2. FlattenSeq(ss) = h[n]
    BY DEF FlattenSeq, IsFlat
  <2> QED
    BY <2>1, <2>2
<1>6. \A i \in 1..n : h[i] = IF i = 1 THEN ss[i] ELSE h[i - 1] \o ss[i]
  BY <1>5 DEF IsFlat
<1>7. 1 \in 1..n /\ h[1] = ss[1]
  <2>1. 1 \in 1..n
    OBVIOUS
  <2> QED
    BY <1>6, <2>1
<1>8. \A i \in 2..n : i \in 1..n /\ i - 1 \in 1..n /\ h[i] = h[i - 1] \o ss[i]
  <2>1. \A i \in 2..n : i \in 1..n /\ i - 1 \in 1..n /\ i # 1
    OBVIOUS
  <2> QED
    BY <1>6, <2>1
<1>9. \A i \in 1..n : h[i] \in Seq(Ranges)
  <2> DEFINE H == {0} \cup {i \in 1..n : h[i] \in Seq(Ranges)}
  <2>1. ASSUME NEW k \in 1..n, k - 1 \in H
        PROVE  k \in H
    <3>1. CASE k = 1
      BY <1>7, <3>1
    <3>2. CASE k # 1
      <4>1. k \in 2..n /\ h[k - 1] \in Seq(Ranges) /\ ss[k] \in Seq(Ranges)
        BY <2>1, <3>2
      <4>2. h[k - 1] \o ss[k] \in Seq(Ranges)
        BY <4>1, ConcatProperties
      <4> QED
        BY <1>8, <4>1, <4>2
    <3> QED
      BY <3>1, <3>2
  <2>2. 0..n \subseteq H
    <3>1. 0 \in H
      OBVIOUS
    <3> HIDE DEF H
    <3> QED
      BY <2>1, <3>1, UpTo
  <2> QED
    BY <2>2
<1>10. h = [i \in 1..n |-> h[i]]
  <2>1. h = [i \in 1..n |-> IF i = 1 THEN ss[i] ELSE h[i - 1] \o ss[i]]
    BY <1>5 DEF IsFlat
  <2> QED
    BY <2>1
<1>11. h \in [1..n -> Seq(Ranges)]
  BY <1>9, <1>10
<1> QED
  BY <1>5, <1>7, <1>8, <1>11

(* What is left of an entry that is not split: itself without the bits     *)
(* that are cleared, if there are others in it.                            *)
LEMMA LeftIs ==
  ASSUME NEW e \in Ranges, NEW start \in Int, NEW end \in Int, start <= end,
         ~(start > e.start_ /\ end < e.end_)
  PROVE  /\ Left(e, start, end) \in Seq(Ranges)
         /\ Left(e, start, end) = <<>> => \A x \in Bits(e) : x \in start..end
         /\ Left(e, start, end) # <<>> =>
              \E l \in Ranges : /\ Left(e, start, end) = <<l>>
                                /\ e.start_ <= l.start_ /\ l.end_ <= e.end_
                                /\ \A x \in Int : x \in Bits(l) <=> x \in Bits(e) /\ x \notin start..end
<1>1. /\ e.start_ \in Int /\ e.end_ \in Int /\ e.start_ <= e.end_
      /\ \A x \in Int : x \in Bits(e) <=> e.start_ <= x /\ x <= e.end_
      /\ \A x \in Bits(e) : x \in Int
  BY RangeFacts
<1>2. \A l : <<l>> # <<>>
  OBVIOUS
<1>3. \A l \in Ranges : <<l>> \in Seq(Ranges)
  OBVIOUS
<1>4. CASE start <= e.start_ /\ end >= e.end_
  <2>1. Left(e, start, end) = <<>>
    BY <1>4 DEF Left
  <2>2. \A x \in Bits(e) : x \in start..end
    BY <1>1, <1>4
  <2> QED
    BY <2>1, <2>2, EmptySeq
<1>5. CASE start <= e.start_ /\ ~(end >= e.end_) /\ end >= e.start_
  <2>1. PICK l : l = [e EXCEPT !.start_ = end + 1]
    OBVIOUS
  <2>2. end + 1 \in Int /\ end + 1 <= e.end_
    BY <1>1, <1>5
  <2>3. l \in Ranges /\ l.start_ = end + 1 /\ l.end_ = e.end_
    BY <2>1, <2>2, OtherEnd
  <2>4. Left(e, start, end) = <<l>>
    BY <1>5, <2>1 DEF Left
  <2>5. \A x \in Int : x \in Bits(l) <=> end + 1 <= x /\ x <= e.end_
    BY <2>3, RangeFacts
  <2>6. \A x \in Int : x \in Bits(l) <=> x \in Bits(e) /\ x \notin start..end
    BY <1>1, <1>5, <2>5
  <2>7. e.start_ <= l.start_ /\ l.end_ <= e.end_
    BY <1>1, <1>5, <2>3
  <2> QED
    BY <1>2, <1>3, <2>3, <2>4, <2>6, <2>7
<1>6. CASE start > e.start_ /\ start <= e.end_
  <2>1. PICK l : l = [e EXCEPT !.end_ = start - 1]
    OBVIOUS
  <2>2. start - 1 \in Int /\ e.start_ <= start - 1 /\ end >= e.end_ /\ ~(start <= e.start_)
    BY <1>1, <1>6
  <2>3. l \in Ranges /\ l.start_ = e.start_ /\ l.end_ = start - 1
    BY <2>1, <2>2, OtherEnd
  <2>4. Left(e, start, end) = <<l>>
    BY <1>6, <2>1, <2>2 DEF Left
  <2>5. \A x \in Int : x \in Bits(l) <=> e.start_ <= x /\ x <= start - 1
    BY <2>3, RangeFacts
  <2>6. \A x \in Int : x \in Bits(l) <=> x \in Bits(e) /\ x \notin start..end
    BY <1>1, <1>6, <2>2, <2>5
  <2>7. e.start_ <= l.start_ /\ l.end_ <= e.end_
    BY <1>1, <1>6, <2>3
  <2> QED
    BY <1>2, <1>3, <2>3, <2>4, <2>6, <2>7
<1>7. CASE ~(start <= e.start_ /\ end >= e.start_) /\ ~(start > e.start_ /\ start <= e.end_)
  <2>1. Left(e, start, end) = <<e>>
    BY <1>1, <1>7 DEF Left
  <2>2. \A x \in Int : x \in Bits(e) => x \notin start..end
    BY <1>1, <1>7
  <2>3. e.start_ <= e.start_ /\ e.end_ <= e.end_
    BY <1>1
  <2> QED
    BY <1>2, <1>3, <2>1, <2>2, <2>3
<1> QED
  BY <1>1, <1>4, <1>5, <1>6, <1>7

(* The vector as far as clear() has come.                                  *)
ClearedSoFar(s, start, end, k, v) ==
  /\ InOrder(v)
  /\ \A i \in 1..Len(v) : v[i].end_ <= s[k].end_
  /\ \A x \in Int : Covers(v, x) <=> x \notin start..end /\ \E j \in 1..k : x \in Bits(s[j])

LEMMA ClearGoesOn ==
  ASSUME NEW s, InOrder(s), NEW start \in Int, NEW end \in Int, start <= end,
         NEW k \in 2..Len(s), ~(start > s[k].start_ /\ end < s[k].end_),
         NEW v, ClearedSoFar(s, start, end, k - 1, v)
  PROVE  ClearedSoFar(s, start, end, k, v \o Left(s[k], start, end))
<1>1. PICK e : e = s[k]
  OBVIOUS
<1>2. /\ s \in Seq(Ranges) /\ Len(s) \in Nat /\ e \in Ranges /\ s[k - 1] \in Ranges
      /\ k \in 1..Len(s) /\ k - 1 \in 1..Len(s)
  <2>1. s \in Seq(Ranges) /\ Len(s) \in Nat /\ \A i \in 1..Len(s) : s[i] \in Ranges
    BY SeqFacts DEF InOrder
  <2>2. k \in 1..Len(s) /\ k - 1 \in 1..Len(s)
    BY <2>1
  <2> QED
    BY <1>1, <2>1, <2>2
<1>3. s[k - 1].end_ + 1 < e.start_
  BY <1>1, <1>2 DEF InOrder
<1>4. /\ v \in Seq(Ranges) /\ Len(v) \in Nat
      /\ \A i \in 1..Len(v) : v[i] \in Ranges /\ v[i].end_ \in Int /\ v[i].end_ <= s[k - 1].end_
      /\ s[k - 1].end_ \in Int /\ e.start_ \in Int /\ e.end_ \in Int /\ e.start_ <= e.end_
  <2>1. v \in Seq(Ranges) /\ \A i \in 1..Len(v) : v[i].end_ <= s[k - 1].end_
    BY DEF ClearedSoFar, InOrder
  <2> QED
    BY <1>2, <2>1, SeqFacts, RangeFacts
<1>5. \A i \in 1..Len(v) : v[i].end_ + 1 < e.start_ /\ v[i].end_ <= e.end_
  <2>1. PICK p \in Int, a \in Int, b \in Int : p = s[k - 1].end_ /\ a = e.start_ /\ b = e.end_
    BY <1>4
  <2>2. \A c \in Int : c <= p => c + 1 < a /\ c <= b
    <3>1. p + 1 < a /\ a <= b
      BY <1>3, <1>4, <2>1
    <3> QED
      BY <3>1
  <2> QED
    BY <1>4, <2>1, <2>2
<1>6. \A x \in Int : (\E j \in 1..k : x \in Bits(s[j])) <=>
                       x \in Bits(e) \/ \E j \in 1..k - 1 : x \in Bits(s[j])
  <2>1. \A j : j \in 1..k <=> j = k \/ j \in 1..k - 1
    OBVIOUS
  <2> QED
    BY <1>1, <2>1
<1>7. PICK t : t = Left(e, start, end)
  OBVIOUS
<1>8. ~(start > e.start_ /\ end < e.end_)
  BY <1>1
<1>9. CASE t = <<>>
  <2>1. v \o t = v
    BY <1>4, <1>9, ConcatEmptySeq
  <2>2. \A x \in Int : x \in Bits(e) => x \in start..end
    BY <1>2, <1>7, <1>8, <1>9, LeftIs
  <2>3. ClearedSoFar(s, start, end, k, v)
    BY <1>1, <1>5, <1>6, <2>2 DEF ClearedSoFar
  <2> QED
    BY <1>1, <1>7, <2>1, <2>3
<1>10. CASE t # <<>>
  <2>1. PICK l \in Ranges : /\ t = <<l>>
                            /\ e.start_ <= l.start_ /\ l.end_ <= e.end_
                            /\ \A x \in Int : x \in Bits(l) <=> x \in Bits(e) /\ x \notin start..end
    BY <1>2, <1>7, <1>8, <1>10, LeftIs
  <2>2. t \in Seq(Ranges) /\ Len(t) = 1 /\ t[1] = l
    BY <2>1
  <2>3. PICK n \in Nat : n = Len(v)
    BY <1>4
  <2>4. PICK w : w = v \o t
    OBVIOUS
  <2>5. /\ w \in Seq(Ranges) /\ Len(w) = n + 1 /\ w[n + 1] = l
        /\ \A i \in 1..n : w[i] = v[i]
    <3>1. /\ w \in Seq(Ranges) /\ Len(w) = n + 1
          /\ \A i \in 1..n : w[i] = v[i]
          /\ \A i \in 1..1 : w[n + i] = t[i]
      <4>1. /\ v \o t \in Seq(Ranges) /\ Len(v \o t) = Len(v) + Len(t)
            /\ \A i \in 1..Len(v) : (v \o t)[i] = v[i]
            /\ \A i \in 1..Len(t) : (v \o t)[Len(v) + i] = t[i]
        BY <1>4, <2>2, Joined
      <4> QED
        BY <2>2, <2>3, <2>4, <4>1
    <3>2. 1 \in 1..1
      OBVIOUS
    <3> QED
      BY <2>2, <3>1, <3>2
  <2>6. l.start_ \in Int /\ l.end_ \in Int
    BY RangeFacts
  <2>7. \A i \in 1..n + 1 : i \in 1..n \/ i = n + 1
    OBVIOUS
  <2>8. ASSUME NEW i \in 1..Len(w), NEW j \in 1..Len(w), i < j
        PROVE  w[i].end_ + 1 < w[j].start_
    <3>1. i \in 1..n
      BY <2>5, <2>8
    <3>2. CASE j \in 1..n
      <4>1. v[i].end_ + 1 < v[j].start_
        BY <2>3, <2>8, <3>1, <3>2 DEF ClearedSoFar, InOrder
      <4> QED
        BY <2>5, <3>1, <3>2, <4>1
    <3>3. CASE j = n + 1
      <4>1. v[i].end_ + 1 < e.start_ /\ v[i].end_ \in Int
        BY <1>4, <1>5, <2>3, <3>1
      <4>2. v[i].end_ + 1 < l.start_
        <5>1. \A a, b, c \in Int : a + 1 < b /\ b <= c => a + 1 < c
          OBVIOUS
        <5> QED
          BY <1>4, <2>1, <2>6, <4>1, <5>1
      <4> QED
        BY <2>5, <3>1, <3>3, <4>2
    <3> QED
      BY <2>5, <2>7, <3>2, <3>3
  <2>9. \A i \in 1..Len(w) : w[i].end_ <= e.end_
    BY <1>5, <2>1, <2>3, <2>5, <2>7
  <2>10. ASSUME NEW x \in Int
         PROVE  Covers(w, x) <=> x \notin start..end /\ \E j \in 1..k : x \in Bits(s[j])
    <3>1. Covers(w, x) <=> Covers(v, x) \/ x \in Bits(l)
      <4>1. \A i : i \in 1..Len(w) <=> i \in 1..Len(v) \/ i = n + 1
        BY <2>3, <2>5
      <4> QED
        BY <2>3, <2>5, <4>1 DEF Covers
    <3>2. Covers(v, x) <=> x \notin start..end /\ \E j \in 1..k - 1 : x \in Bits(s[j])
      BY DEF ClearedSoFar
    <3> QED
      BY <1>6, <2>1, <3>1, <3>2
  <2>11. ClearedSoFar(s, start, end, k, w)
    BY <1>1, <2>5, <2>8, <2>9, <2>10 DEF ClearedSoFar, InOrder
  <2> QED
    BY <1>1, <1>7, <2>4, <2>11
<1> QED
  BY <1>9, <1>10

Cleared(s, start, end) == FlattenSeq([i \in 1..Len(s) |-> Left(s[i], start, end)])

LEMMA ClearedIs ==
  ASSUME NEW s, InOrder(s), NEW start \in Int, NEW end \in Int, start <= end,
         \A k \in 1..Len(s) : ~(start > s[k].start_ /\ end < s[k].end_)
  PROVE  /\ InOrder(Cleared(s, start, end))
         /\ \A x \in Int : Covers(Cleared(s, start, end), x) <=> x \notin start..end /\ Covers(s, x)
<1>1. PICK n \in Nat : n = Len(s)
  BY SeqFacts DEF InOrder
<1>2. s \in Seq(Ranges) /\ \A i \in 1..n : s[i] \in Ranges
  BY <1>1, SeqFacts DEF InOrder
<1>3. PICK ss : ss = [i \in 1..n |-> Left(s[i], start, end)]
  OBVIOUS
<1>4. Len(ss) = n /\ \A i \in 1..n : ss[i] = Left(s[i], start, end)
  BY <1>3
<1>5. Cleared(s, start, end) = FlattenSeq(ss)
  BY <1>1, <1>3 DEF Cleared
<1>6. CASE n = 0
  <2>1. 1..n = {} /\ ss = <<>>
    <3>1. 1..n = {}
      BY <1>6
    <3> QED
      BY <1>3, <3>1
  <2>2. FlattenSeq(ss) = <<>>
    BY <1>4, <1>6, <2>1 DEF FlattenSeq
  <2>3. Len(<<>>) = 0 /\ <<>> \in Seq(Ranges) /\ 1..0 = {}
    BY EmptySeq
  <2> QED
    BY <1>1, <1>5, <1>6, <2>2, <2>3 DEF InOrder, Covers
<1>7. CASE n # 0
  <2>1. \A i \in 1..n : ss[i] \in Seq(Ranges)
    BY <1>1, <1>2, <1>4, LeftIs
  <2>2. PICK f : /\ f \in [1..n -> Seq(Ranges)] /\ f[1] = ss[1]
                 /\ \A i \in 2..n : f[i] = f[i - 1] \o ss[i]
                 /\ FlattenSeq(ss) = f[n]
    <3>1. n \in Nat \ {0}
      BY <1>7
    <3>2. Len(ss) = n
      BY <1>4
    <3> QED
      BY <2>1, <3>1, <3>2, FlatSteps
  <2> DEFINE K == {0} \cup {k \in 1..n : ClearedSoFar(s, start, end, k, f[k])}
  <2>3. ASSUME NEW k \in 1..n, k - 1 \in K
        PROVE  k \in K
    <3>1. CASE k = 1
      <4>1. PICK e : e = s[1]
        OBVIOUS
      <4>2. e \in Ranges /\ ~(start > e.start_ /\ end < e.end_) /\ f[1] = Left(e, start, end)
        BY <1>1, <1>2, <1>4, <2>2, <3>1, <4>1
      <4>3. e.end_ \in Int
        BY <4>2, RangeFacts
      <4>4. \A x : (\E j \in 1..1 : x \in Bits(s[j])) <=> x \in Bits(e)
        <5>1. \A j : j \in 1..1 <=> j = 1
          OBVIOUS
        <5> QED
          BY <4>1, <5>1
      <4>5. CASE f[1] = <<>>
        <5>1. Len(<<>>) = 0 /\ <<>> \in Seq(Ranges) /\ 1..0 = {}
          BY EmptySeq
        <5>2. \A x \in Bits(e) : x \in start..end
          BY <4>2, <4>5, LeftIs
        <5>3. ClearedSoFar(s, start, end, 1, f[1])
          BY <4>4, <4>5, <5>1, <5>2 DEF ClearedSoFar, InOrder, Covers
        <5> QED
          BY <3>1, <5>3
      <4>6. CASE f[1] # <<>>
        <5>1. PICK l \in Ranges : /\ f[1] = <<l>>
                                  /\ e.start_ <= l.start_ /\ l.end_ <= e.end_
                                  /\ \A x \in Int : x \in Bits(l) <=> x \in Bits(e) /\ x \notin start..end
          BY <4>2, <4>6, LeftIs
        <5>2. PICK w : w = f[1]
          OBVIOUS
        <5>3. w \in Seq(Ranges) /\ Len(w) = 1 /\ w[1] = l
          BY <5>1, <5>2
        <5>4. \A i \in 1..1 : i = 1
          OBVIOUS
        <5>5. InOrder(w)
          <6>1. \A i, j \in 1..1 : ~(i < j)
            OBVIOUS
          <6> QED
            BY <5>3, <6>1 DEF InOrder
        <5>6. \A x : Covers(w, x) <=> x \in Bits(l)
          BY <5>3, <5>4 DEF Covers
        <5>7. ClearedSoFar(s, start, end, 1, w)
          BY <4>1, <4>4, <5>1, <5>3, <5>4, <5>5, <5>6 DEF ClearedSoFar
        <5> QED
          BY <3>1, <5>2, <5>7
      <4> QED
        BY <4>5, <4>6
    <3>2. CASE k # 1
      <4>1. k \in 2..n /\ k - 1 \in 1..n /\ ClearedSoFar(s, start, end, k - 1, f[k - 1])
        BY <2>3, <3>2
      <4>2. f[k] = f[k - 1] \o Left(s[k], start, end)
        BY <1>4, <2>2, <4>1
      <4>3. k \in 2..Len(s) /\ ~(start > s[k].start_ /\ end < s[k].end_)
        BY <1>1, <4>1
      <4>4. ClearedSoFar(s, start, end, k, f[k])
        BY <4>1, <4>2, <4>3, ClearGoesOn
      <4> QED
        BY <4>4
    <3> QED
      BY <3>1, <3>2
  <2>4. n \in K
    <3>1. 0..n \subseteq K
      <4>1. 0 \in K
        OBVIOUS
      <4> HIDE DEF K
      <4> QED
        BY <2>3, <4>1, UpTo
    <3> QED
      BY <3>1
  <2>5. ClearedSoFar(s, start, end, n, f[n])
    BY <1>7, <2>4
  <2> QED
    BY <1>1, <1>5, <2>2, <2>5 DEF ClearedSoFar, Covers
<1> QED
  BY <1>6, <1>7

-----------------------------------------------------------------------------
(* The inductive invariant: the vector is in order and covers the bits.    *)
BitmapInv ==
  /\ InOrder(bitmap_)
  /\ bits \subseteq Int
  /\ \A x \in Int : x \in bits <=> Covers(bitmap_, x)

LEMMA RangeOfCall ==
  ASSUME ~Unsigned, NEW start \in Ints, NEW len \in Lens
  PROVE  /\ start \in Int /\ End(start, len) = start + len - 1
         /\ End(start, len) \in Int /\ start <= End(start, len)
<1>1. Negatives \in Nat /\ Highest \in Nat
  BY SparseBitmapAssumption
<1>2. start \in Int /\ len \in Int /\ len >= 1
  BY <1>1 DEF Ints, Lens
<1>3. End(start, len) = start + len - 1
  BY Signed DEF End
<1> QED
  BY <1>2, <1>3

LEMMA SetKeepsBitmapInv ==
  ASSUME ~Unsigned, BitmapInv, NEW start \in Ints, NEW len \in Lens, set(start, len)
  PROVE  BitmapInv'
<1>1. PICK end \in Int : end = End(start, len) /\ end = start + len - 1 /\ start <= end /\ start \in Int
  BY RangeOfCall
<1>2. bitmap_' = WithSet(start, end) /\ bits' = bits \cup start..end
  BY <1>1 DEF set
<1>3. /\ InOrder(bitmap_')
      /\ \A x \in Int : Covers(bitmap_', x) <=> Covers(bitmap_, x) \/ x \in start..end
  BY <1>1, <1>2, WithSetIs DEF BitmapInv
<1>4. start..end \subseteq Int
  BY <1>1
<1> QED
  BY <1>2, <1>3, <1>4 DEF BitmapInv, InOrder, Covers

LEMMA ClearKeepsBitmapInv ==
  ASSUME ~Unsigned, ~Splits, BitmapInv, NEW start \in Ints, NEW len \in Lens, clear(start, len)
  PROVE  BitmapInv'
<1>1. PICK end \in Int : end = End(start, len) /\ end = start + len - 1 /\ start <= end /\ start \in Int
  BY RangeOfCall
<1>2. bitmap_' = Cleared(bitmap_, start, end) /\ bits' = bits \ (start..end)
  BY <1>1 DEF clear, Cleared
<1>3. \A k \in 1..Len(bitmap_) : ~(start > bitmap_[k].start_ /\ end < bitmap_[k].end_)
  <2>1. DOMAIN bitmap_ = 1..Len(bitmap_)
    BY SeqFacts DEF BitmapInv, InOrder
  <2>2. \A e \in ToSet(bitmap_) : ~(start > e.start_ /\ end < e.end_)
    BY <1>1 DEF clear
  <2> QED
    BY <2>1, <2>2 DEF ToSet
<1>4. /\ InOrder(bitmap_')
      /\ \A x \in Int : Covers(bitmap_', x) <=> x \notin start..end /\ Covers(bitmap_, x)
  BY <1>1, <1>2, <1>3, ClearedIs DEF BitmapInv
<1> QED
  BY <1>2, <1>4 DEF BitmapInv, InOrder, Covers

LEMMA EmptyBitmap ==
  ASSUME NEW s, s = <<>>
  PROVE  InOrder(s) /\ \A x : ~Covers(s, x)
<1>1. s \in Seq(Ranges) /\ Len(s) = 0 /\ 1..0 = {}
  BY EmptySeq
<1> QED
  BY <1>1 DEF InOrder, Covers

LEMMA InitHoldsBitmapInv == BitmapInit => BitmapInv
BY EmptyBitmap DEF BitmapInit, BitmapInv

LEMMA NextKeepsBitmapInv ==
  ASSUME ~Unsigned, ~Splits, BitmapInv, [BitmapNext]_bitmapVars
  PROVE  BitmapInv'
<1>1. CASE \E start \in Ints, len \in Lens : set(start, len) \/ clear(start, len)
  BY <1>1, SetKeepsBitmapInv, ClearKeepsBitmapInv
<1>2. CASE clear_all
  <2>1. bitmap_' = <<>> /\ bits' = {}
    BY <1>2 DEF clear_all
  <2>2. InOrder(bitmap_') /\ \A x : ~Covers(bitmap_', x)
    BY <2>1, EmptyBitmap
  <2> QED
    BY <2>1, <2>2 DEF BitmapInv, InOrder, Covers
<1>3. CASE UNCHANGED bitmapVars
  BY <1>3 DEF bitmapVars, BitmapInv, InOrder, Covers
<1> QED
  BY <1>1, <1>2, <1>3 DEF BitmapNext

LEMMA InvStandsForBits == BitmapInv => StandsForBits
<1> SUFFICES ASSUME BitmapInv PROVE StandsForBits
  OBVIOUS
<1>1. /\ bitmap_ \in Seq(Ranges) /\ Len(bitmap_) \in Nat /\ DOMAIN bitmap_ = 1..Len(bitmap_)
      /\ \A i \in 1..Len(bitmap_) : bitmap_[i] \in Ranges
  BY SeqFacts DEF BitmapInv, InOrder
<1>2. bits = UNION {e.start_..e.end_ : e \in ToSet(bitmap_)}
  <2>1. ASSUME NEW x \in bits
        PROVE  x \in UNION {e.start_..e.end_ : e \in ToSet(bitmap_)}
    <3>1. PICK i \in 1..Len(bitmap_) : x \in bitmap_[i].start_..bitmap_[i].end_
      BY DEF BitmapInv, Covers, Bits
    <3>2. bitmap_[i] \in ToSet(bitmap_)
      BY <1>1 DEF ToSet
    <3> QED
      BY <3>1, <3>2
  <2>2. ASSUME NEW e \in ToSet(bitmap_), NEW x \in e.start_..e.end_
        PROVE  x \in bits
    <3>1. PICK i \in 1..Len(bitmap_) : e = bitmap_[i]
      BY <1>1 DEF ToSet
    <3>2. x \in Bits(bitmap_[i]) /\ bitmap_[i] \in Ranges
      BY <1>1, <3>1 DEF Bits
    <3>3. x \in Int
      BY <3>2, RangeFacts
    <3> QED
      BY <3>2, <3>3 DEF BitmapInv, Covers
  <2> QED
    BY <2>1, <2>2
<1>3. \A i \in 1..Len(bitmap_) - 1 : bitmap_[i].end_ + 1 < bitmap_[i + 1].start_
  <2>1. \A i \in 1..Len(bitmap_) - 1 : i \in 1..Len(bitmap_) /\ i + 1 \in 1..Len(bitmap_) /\ i < i + 1
    BY <1>1
  <2> QED
    BY <2>1 DEF BitmapInv, InOrder
<1> QED
  BY <1>2, <1>3 DEF StandsForBits

-----------------------------------------------------------------------------
(* The queries.  A range of bits that are set is in one entry: the bit     *)
(* behind an entry is in no other.                                         *)
LEMMA BehindIsClear ==
  ASSUME BitmapInv, NEW i \in 1..Len(bitmap_)
  PROVE  bitmap_[i].end_ + 1 \in Int /\ bitmap_[i].end_ + 1 \notin bits
<1>1. PICK n \in Nat : n = Len(bitmap_)
  BY SeqFacts DEF BitmapInv, InOrder
<1>2. \A k \in 1..n : /\ bitmap_[k] \in Ranges /\ bitmap_[k].start_ \in Int /\ bitmap_[k].end_ \in Int
                      /\ bitmap_[k].start_ <= bitmap_[k].end_
  <2>1. \A k \in 1..n : bitmap_[k] \in Ranges
    BY <1>1, SeqFacts DEF BitmapInv, InOrder
  <2> QED
    BY <2>1, RangeFacts
<1>3. PICK x \in Int : x = bitmap_[i].end_ + 1
  BY <1>1, <1>2
<1> SUFFICES ASSUME x \in bits PROVE FALSE
  BY <1>3
<1>4. PICK k \in 1..n : x \in Bits(bitmap_[k])
  BY <1>1 DEF BitmapInv, Covers
<1>5. bitmap_[k].start_ <= x /\ x <= bitmap_[k].end_
  BY <1>2, <1>4, RangeFacts
<1>6. \A a, b \in 1..n : a < b => bitmap_[a].end_ + 1 < bitmap_[b].start_
  BY <1>1 DEF BitmapInv, InOrder
<1>7. CASE i < k
  <2>1. x < bitmap_[k].start_
    BY <1>1, <1>3, <1>6, <1>7
  <2> QED
    BY <1>2, <1>5, <2>1
<1>8. CASE k < i
  <2>1. bitmap_[k].end_ + 1 < bitmap_[i].start_ /\ bitmap_[i].start_ <= bitmap_[i].end_
    BY <1>1, <1>2, <1>6, <1>8
  <2>2. \A a, b, c \in Int : a + 1 < b /\ b <= c => a < c + 1
    OBVIOUS
  <2>3. bitmap_[k].end_ < x
    BY <1>1, <1>2, <1>3, <2>1, <2>2
  <2> QED
    BY <1>2, <1>5, <2>3
<1>9. CASE i = k
  <2>1. bitmap_[i].end_ + 1 <= bitmap_[i].end_ /\ bitmap_[i].end_ \in Int
    BY <1>1, <1>2, <1>3, <1>5, <1>9
  <2> QED
    BY <2>1
<1> QED
  BY <1>1, <1>7, <1>8, <1>9

LEMMA IsSetAgrees ==
  ASSUME ~Unsigned, BitmapInv, NEW start \in Ints, NEW len \in Lens
  PROVE  is_set(start, len) <=> start..start + len - 1 \subseteq bits
<1>1. PICK end \in Int : end = End(start, len) /\ end = start + len - 1 /\ start <= end /\ start \in Int
  BY RangeOfCall
<1>2. /\ bitmap_ \in Seq(Ranges) /\ Len(bitmap_) \in Nat /\ DOMAIN bitmap_ = 1..Len(bitmap_)
      /\ \A i \in 1..Len(bitmap_) : bitmap_[i] \in Ranges
  BY SeqFacts DEF BitmapInv, InOrder
<1>3. is_set(start, len) <=> \E i \in 1..Len(bitmap_) : start >= bitmap_[i].start_ /\ end <= bitmap_[i].end_
  <2>1. \A e : e \in ToSet(bitmap_) <=> \E i \in 1..Len(bitmap_) : e = bitmap_[i]
    BY <1>2 DEF ToSet
  <2> QED
    BY <1>1, <2>1 DEF is_set
<1>4. ASSUME NEW i \in 1..Len(bitmap_), start >= bitmap_[i].start_, end <= bitmap_[i].end_,
             NEW x \in start..end
      PROVE  x \in bits
  <2>1. x \in Int /\ bitmap_[i].start_ \in Int /\ bitmap_[i].end_ \in Int
    BY <1>1, <1>2, RangeFacts
  <2>2. x \in Bits(bitmap_[i])
    BY <1>1, <1>4, <2>1 DEF Bits
  <2> QED
    BY <2>1, <2>2 DEF BitmapInv, Covers
<1>5. ASSUME start..end \subseteq bits
      PROVE  \E i \in 1..Len(bitmap_) : start >= bitmap_[i].start_ /\ end <= bitmap_[i].end_
  <2>1. PICK i \in 1..Len(bitmap_) : start \in Bits(bitmap_[i])
    <3>1. start \in start..end
      BY <1>1
    <3> QED
      BY <1>1, <1>5, <3>1 DEF BitmapInv, Covers
  <2>2. /\ bitmap_[i].start_ \in Int /\ bitmap_[i].end_ \in Int
        /\ bitmap_[i].start_ <= start /\ start <= bitmap_[i].end_
    BY <1>1, <1>2, <2>1, RangeFacts
  <2>3. end <= bitmap_[i].end_
    <3> SUFFICES ASSUME ~(end <= bitmap_[i].end_) PROVE FALSE
      OBVIOUS
    <3>1. bitmap_[i].end_ + 1 \in start..end
      BY <1>1, <2>2
    <3> QED
      BY <1>5, <3>1, BehindIsClear
  <2> QED
    BY <1>1, <2>2, <2>3
<1> QED
  BY <1>1, <1>3, <1>4, <1>5

LEMMA ContiguousAgrees ==
  ASSUME ~Unsigned, BitmapInv, bits # {}, NEW low, low = CHOOSE b \in bits : \A c \in bits : b <= c
  PROVE  num_contiguous = Word(Cardinality({b \in bits : low..b \subseteq bits}))
<1>1. PICK n \in Nat : n = Len(bitmap_)
  BY SeqFacts DEF BitmapInv, InOrder
<1>2. n # 0
  <2>1. PICK x \in bits : x \in Int
    BY DEF BitmapInv
  <2>2. \E i \in 1..n : x \in Bits(bitmap_[i])
    BY <1>1, <2>1 DEF BitmapInv, Covers
  <2> QED
    BY <2>2
<1>3. PICK e : e = bitmap_[1]
  OBVIOUS
<1>4. /\ \A k \in 1..n : /\ bitmap_[k] \in Ranges /\ bitmap_[k].start_ \in Int /\ bitmap_[k].end_ \in Int
                         /\ bitmap_[k].start_ <= bitmap_[k].end_
      /\ 1 \in 1..n
  <2>1. \A k \in 1..n : bitmap_[k] \in Ranges
    BY <1>1, SeqFacts DEF BitmapInv, InOrder
  <2>2. 1 \in 1..n
    BY <1>2
  <2> QED
    BY <2>1, <2>2, RangeFacts
<1>5. /\ e \in Ranges /\ e.start_ \in Int /\ e.end_ \in Int /\ e.start_ <= e.end_
      /\ \A x \in Int : x \in Bits(e) <=> e.start_ <= x /\ x <= e.end_
  BY <1>3, <1>4, RangeFacts
<1>6. \A x \in Int : x \in Bits(e) => x \in bits
  BY <1>1, <1>3, <1>4 DEF BitmapInv, Covers
<1>7. e.start_ \in bits /\ \A c \in bits : e.start_ <= c
  <2>1. e.start_ \in bits
    BY <1>5, <1>6
  <2>2. ASSUME NEW c \in bits
        PROVE  e.start_ <= c
    <3>1. PICK k \in 1..n : c \in Bits(bitmap_[k]) /\ c \in Int
      BY <1>1 DEF BitmapInv, Covers
    <3>2. bitmap_[k].start_ <= c
      BY <1>4, <3>1, RangeFacts
    <3>3. CASE k = 1
      BY <1>3, <3>2, <3>3
    <3>4. CASE k # 1
      <4>1. 1 < k
        BY <3>4
      <4>2. e.end_ + 1 < bitmap_[k].start_
        BY <1>1, <1>3, <1>4, <4>1 DEF BitmapInv, InOrder
      <4>3. bitmap_[k].start_ \in Int
        BY <1>4
      <4>4. \A a, b, d, f \in Int : a <= b /\ b + 1 < d /\ d <= f => a <= f
        OBVIOUS
      <4> QED
        BY <1>5, <3>1, <3>2, <4>2, <4>3, <4>4
    <3> QED
      BY <3>3, <3>4
  <2> QED
    BY <2>1, <2>2
<1>8. low = e.start_
  <2>1. low \in bits /\ \A c \in bits : low <= c
    BY <1>7
  <2>2. low \in Int /\ low <= e.start_ /\ e.start_ <= low
    BY <1>7, <2>1 DEF BitmapInv
  <2> QED
    BY <1>5, <2>2
<1>12. PICK p \in Int, q \in Int : p = e.start_ /\ q = e.end_
  BY <1>5
<1>13. /\ low = p /\ p <= q /\ \A c \in bits : c \in Int /\ p <= c
       /\ \A x \in Int : p <= x /\ x <= q => x \in bits
       /\ q + 1 \notin bits
  <2>1. q + 1 \notin bits
    BY <1>1, <1>3, <1>4, <1>12, BehindIsClear
  <2>2. \A c \in bits : c \in Int
    BY DEF BitmapInv
  <2> QED
    BY <1>5, <1>6, <1>7, <1>8, <1>12, <2>1, <2>2
<1>9. {b \in bits : low..b \subseteq bits} = e.start_..e.end_
  <2>1. ASSUME NEW b \in bits, p..b \subseteq bits
        PROVE  b \in p..q
    <3>1. b \in Int /\ p <= b
      BY <1>13
    <3>2. b <= q
      <4> SUFFICES ASSUME ~(b <= q) PROVE FALSE
        OBVIOUS
      <4>1. q + 1 \in p..b
        BY <1>13, <3>1
      <4> QED
        BY <1>13, <2>1, <4>1
    <3> QED
      BY <3>1, <3>2
  <2>2. ASSUME NEW b \in p..q
        PROVE  b \in bits /\ p..b \subseteq bits
    <3>1. b \in Int /\ \A x \in p..b : x \in Int /\ p <= x /\ x <= q
      OBVIOUS
    <3>2. b \in bits
      BY <1>13, <3>1
    <3> QED
      BY <1>13, <3>1, <3>2
  <2>3. {b \in bits : p..b \subseteq bits} = p..q
    BY <2>1, <2>2
  <2> QED
    BY <1>12, <1>13, <2>3
<1>10. Cardinality(e.start_..e.end_) = e.end_ - e.start_ + 1
  BY <1>5, FS_Interval
<1>11. num_contiguous = e.end_ - e.start_ + 1
  <2>1. bitmap_ # <<>>
    BY <1>1, <1>2, EmptySeq
  <2>2. Head(bitmap_) = e
    BY <1>3, <2>1 DEF BitmapInv, InOrder
  <2> QED
    BY <2>1, <2>2, Signed DEF num_contiguous
<1> QED
  BY <1>9, <1>10, <1>11, Signed

(* The sum of the lengths of the entries is the number of the bits.        *)
IsCountFold(g, s) ==
  g = [t \in SUBSET (DOMAIN s) |->
        IF t = {} THEN 0
        ELSE Word(g[t \ {Largest(t)}] + s[Largest(t)].end_ - s[Largest(t)].start_ + 1)]

LEMMA CountFoldIs == num_set = (CHOOSE g : IsCountFold(g, bitmap_))[DOMAIN bitmap_]
BY DEF num_set, FoldLeft, MapThenFoldSet, IsCountFold, Largest, Max

LEMMA CountSteps ==
  ASSUME ~Unsigned, bitmap_ \in Seq(Ranges)
  PROVE  \E sum : /\ sum \in [0..Len(bitmap_) -> Int]
                  /\ sum[0] = 0
                  /\ \A k \in 1..Len(bitmap_) :
                       sum[k] = sum[k - 1] + bitmap_[k].end_ - bitmap_[k].start_ + 1
                  /\ num_set = sum[Len(bitmap_)]
<1> DEFINE n == Len(bitmap_)
           step == [x \in (1..n) \X Int |-> x[2] + bitmap_[x[1]].end_ - bitmap_[x[1]].start_ + 1]
<1>1. n \in Nat /\ DOMAIN bitmap_ = 1..n
      /\ \A i \in 1..n : bitmap_[i].start_ \in Int /\ bitmap_[i].end_ \in Int
  BY SeqFacts, RangeFacts
<1> HIDE DEF n
<1>2. ASSUME NEW i \in 1..n, NEW a \in Int
      PROVE  /\ step[<<i, a>>] = Word(a + bitmap_[i].end_ - bitmap_[i].start_ + 1)
             /\ step[<<i, a>>] \in Int
  <2>1. step[<<i, a>>] = a + bitmap_[i].end_ - bitmap_[i].start_ + 1
    OBVIOUS
  <2> QED
    BY <1>1, <2>1, Signed
<1> HIDE DEF step
<1>3. PICK g : IsFold(g, Int, 0, step, n)
  <2>1. 0 \in Int /\ \A i \in 1..n, a \in Int : step[<<i, a>>] \in Int
    BY <1>2
  <2> QED
    BY <1>1, <2>1, FoldExists
<1>4. ASSUME NEW t \in SUBSET (1..n)
      PROVE  g[t] = IF t = {} THEN 0
                    ELSE Word(g[t \ {Largest(t)}] + bitmap_[Largest(t)].end_
                                - bitmap_[Largest(t)].start_ + 1)
  <2>1. CASE t # {}
    <3>1. Largest(t) \in 1..n /\ t \ {Largest(t)} \in SUBSET (1..n)
      BY <1>1, <2>1, LargestIn
    <3>2. g[t \ {Largest(t)}] \in Int
      BY <1>3, <3>1 DEF IsFold
    <3>3. g[t] = step[<<Largest(t), g[t \ {Largest(t)}]>>]
      BY <1>3, <2>1 DEF IsFold
    <3> QED
      BY <1>2, <2>1, <3>1, <3>2, <3>3
  <2>2. CASE t = {}
    BY <1>3, <2>2 DEF IsFold
  <2> QED
    BY <2>1, <2>2
<1>5. IsCountFold(g, bitmap_)
  <2>1. g = [t \in SUBSET (1..n) |-> g[t]]
    BY <1>3 DEF IsFold
  <2> QED
    BY <1>1, <1>4, <2>1 DEF IsCountFold
<1>6. PICK h : IsCountFold(h, bitmap_) /\ num_set = h[1..n]
  <2> DEFINE h == CHOOSE f : IsCountFold(f, bitmap_)
  <2>1. IsCountFold(h, bitmap_)
    BY <1>5
  <2> QED
    BY <1>1, <2>1, CountFoldIs
<1> DEFINE sum == [k \in 0..n |-> h[1..k]]
<1>7. h[1..0] = 0
  <2>1. 1..0 = {}
    OBVIOUS
  <2> QED
    BY <1>6, <2>1 DEF IsCountFold
<1>8. ASSUME NEW k \in 1..n
      PROVE  h[1..k] = h[1..k - 1] + bitmap_[k].end_ - bitmap_[k].start_ + 1
  <2>1. 1..k \in SUBSET (1..n) /\ k \in 1..k /\ (1..k) \ {k} = 1..k - 1 /\ k \in Nat
    BY <1>1
  <2>2. Largest(1..k) = k
    BY <2>1, LargestIs
  <2>3. h[1..k] = Word(h[1..k - 1] + bitmap_[k].end_ - bitmap_[k].start_ + 1)
    BY <1>1, <1>6, <2>1, <2>2 DEF IsCountFold
  <2> QED
    BY <2>3, Signed
<1>9. \A k \in 0..n : h[1..k] \in Int
  <2> DEFINE S == {k \in 0..n : h[1..k] \in Int}
  <2>1. 0 \in S
    BY <1>1, <1>7
  <2>2. ASSUME NEW k \in 1..n, k - 1 \in S
        PROVE  k \in S
    <3>1. PICK a \in Int, b \in Int, c \in Int :
            a = h[1..k - 1] /\ b = bitmap_[k].end_ /\ c = bitmap_[k].start_
      BY <1>1, <2>2
    <3>2. h[1..k] = a + b - c + 1
      BY <1>8, <3>1
    <3>3. h[1..k] \in Int /\ k \in 0..n
      BY <1>1, <3>2
    <3> QED
      BY <3>3
  <2>3. 0..n \subseteq S
    <3> HIDE DEF S
    <3> QED
      BY <1>1, <2>1, <2>2, UpTo
  <2> QED
    BY <2>3
<1>10. sum \in [0..n -> Int] /\ sum[0] = 0 /\ sum[n] = h[1..n]
  BY <1>1, <1>7, <1>9
<1>11. \A k \in 1..n : sum[k] = sum[k - 1] + bitmap_[k].end_ - bitmap_[k].start_ + 1
  <2>1. \A k \in 1..n : k \in 0..n /\ k - 1 \in 0..n
    BY <1>1
  <2> QED
    BY <1>8, <2>1
<1> HIDE DEF sum
<1> QED
  BY <1>6, <1>10, <1>11 DEF n

(* The bits of the first k entries, and how many they are.                 *)
FirstBits(k) == {x \in Int : \E j \in 1..k : x \in Bits(bitmap_[j])}
Width(k)     == bitmap_[k].end_ - bitmap_[k].start_

Counts(sum) ==
  /\ sum \in [0..Len(bitmap_) -> Int]
  /\ sum[0] = 0
  /\ \A k \in 1..Len(bitmap_) : sum[k] = sum[k - 1] + Width(k) + 1
  /\ \A k \in 0..Len(bitmap_) : IsFiniteSet(FirstBits(k)) /\ Cardinality(FirstBits(k)) = sum[k]

LEMMA CountsExist ==
  ASSUME ~Unsigned, BitmapInv
  PROVE  \E sum : Counts(sum) /\ num_set = sum[Len(bitmap_)]
<1>1. PICK n \in Nat : n = Len(bitmap_)
  BY SeqFacts DEF BitmapInv, InOrder
<1>2. /\ bitmap_ \in Seq(Ranges)
      /\ \A k \in 1..n : /\ bitmap_[k].start_ \in Int /\ bitmap_[k].end_ \in Int
                         /\ bitmap_[k].start_ <= bitmap_[k].end_
      /\ \A k \in 1..n, x \in Int : x \in Bits(bitmap_[k]) <=>
                                      bitmap_[k].start_ <= x /\ x <= bitmap_[k].end_
  <2>1. \A k \in 1..n : bitmap_[k] \in Ranges
    BY <1>1, SeqFacts DEF BitmapInv, InOrder
  <2> QED
    BY <2>1, RangeFacts DEF BitmapInv, InOrder
<1>3. PICK sum : /\ sum \in [0..n -> Int]
                 /\ sum[0] = 0
                 /\ \A k \in 1..n : sum[k] = sum[k - 1] + bitmap_[k].end_ - bitmap_[k].start_ + 1
                 /\ num_set = sum[n]
  BY <1>1, <1>2, CountSteps
<1> DEFINE S == {k \in 0..n : IsFiniteSet(FirstBits(k)) /\ Cardinality(FirstBits(k)) = sum[k]}
<1>4. 0 \in S
  <2>1. FirstBits(0) = {}
    BY DEF FirstBits
  <2>2. 0 \in 0..n
    OBVIOUS
  <2>3. IsFiniteSet(FirstBits(0)) /\ Cardinality(FirstBits(0)) = 0
    BY <2>1, FS_EmptySet
  <2> QED
    BY <1>3, <2>2, <2>3
<1>5. ASSUME NEW k \in 1..n, k - 1 \in S
      PROVE  k \in S
  <2>1. PICK e : e = bitmap_[k]
    OBVIOUS
  <2>2. /\ e.start_ \in Int /\ e.end_ \in Int /\ e.start_ <= e.end_
        /\ \A x \in Int : x \in Bits(e) <=> e.start_ <= x /\ x <= e.end_
    BY <1>2, <2>1
  <2>3. FirstBits(k) = FirstBits(k - 1) \cup (e.start_..e.end_)
    <3>1. \A x \in Int : x \in Bits(e) <=> x \in e.start_..e.end_
      BY <2>2
    <3>2. \A j : j \in 1..k <=> j = k \/ j \in 1..k - 1
      OBVIOUS
    <3>3. \A x : x \in e.start_..e.end_ => x \in Int
      BY <2>2
    <3> QED
      BY <2>1, <3>1, <3>2, <3>3 DEF FirstBits
  <2>4. FirstBits(k - 1) \cap (e.start_..e.end_) = {}
    <3> SUFFICES ASSUME NEW j \in 1..k - 1, NEW x \in Int, x \in Bits(bitmap_[j]), e.start_ <= x
                 PROVE  FALSE
      BY <2>2 DEF FirstBits
    <3>1. j \in 1..n /\ j < k
      OBVIOUS
    <3>2. bitmap_[j].end_ + 1 < e.start_ /\ bitmap_[j].end_ \in Int /\ x <= bitmap_[j].end_
      BY <1>1, <1>2, <2>1, <3>1 DEF BitmapInv, InOrder
    <3> QED
      BY <2>2, <3>2
  <2>5. IsFiniteSet(FirstBits(k - 1)) /\ Cardinality(FirstBits(k - 1)) = sum[k - 1] /\ k - 1 \in 0..n
    BY <1>5
  <2>6. /\ IsFiniteSet(e.start_..e.end_)
        /\ Cardinality(e.start_..e.end_) = e.end_ - e.start_ + 1
    BY <2>2, FS_Interval
  <2>7. PICK A, B : A = FirstBits(k - 1) /\ B = e.start_..e.end_
    OBVIOUS
  <2>8. /\ IsFiniteSet(A) /\ IsFiniteSet(B) /\ A \cap B = {} /\ FirstBits(k) = A \cup B
        /\ Cardinality(A) = sum[k - 1] /\ Cardinality(B) = e.end_ - e.start_ + 1
    BY <2>2, <2>3, <2>4, <2>5, <2>6, <2>7
  <2>9. /\ IsFiniteSet(A \cup B)
        /\ Cardinality(A \cup B) = Cardinality(A) + Cardinality(B) - Cardinality(A \cap B)
    BY <2>8, FS_Union
  <2>10. Cardinality(A \cap B) = 0
    BY <2>8, FS_EmptySet
  <2>11. sum[k - 1] \in Int /\ sum[k] = sum[k - 1] + e.end_ - e.start_ + 1
    BY <1>3, <2>1, <2>5
  <2>12. Cardinality(FirstBits(k)) = sum[k]
    <3>1. PICK a \in Int, b \in Int, c \in Int : a = sum[k - 1] /\ b = e.end_ /\ c = e.start_
      BY <2>2, <2>11
    <3>2. Cardinality(FirstBits(k)) = a + (b - c + 1) - 0
      BY <2>8, <2>9, <2>10, <3>1
    <3>3. sum[k] = a + b - c + 1
      BY <2>11, <3>1
    <3> QED
      BY <3>2, <3>3
  <2>13. IsFiniteSet(FirstBits(k)) /\ k \in 0..n
    BY <2>8, <2>9
  <2> QED
    BY <2>12, <2>13
<1>6. \A k \in 0..n : k \in S
  <2> HIDE DEF S
  <2> QED
    BY <1>4, <1>5, UpTo
<1>7. \A k \in 1..n : sum[k] = sum[k - 1] + Width(k) + 1
  <2> SUFFICES ASSUME NEW k \in 1..n PROVE sum[k] = sum[k - 1] + Width(k) + 1
    OBVIOUS
  <2>1. PICK a \in Int, b \in Int, c \in Int :
          a = sum[k - 1] /\ b = bitmap_[k].end_ /\ c = bitmap_[k].start_
    <3>1. k - 1 \in 0..n
      BY <1>1
    <3>2. sum[k - 1] \in Int
      BY <1>3, <3>1
    <3> QED
      BY <1>2, <3>2
  <2>2. sum[k] = a + b - c + 1 /\ Width(k) = b - c
    BY <1>3, <2>1 DEF Width
  <2> QED
    BY <2>1, <2>2
<1>8. Counts(sum)
  BY <1>1, <1>3, <1>6, <1>7 DEF Counts
<1> QED
  BY <1>1, <1>3, <1>8

LEMMA FirstBitsAreAll ==
  ASSUME BitmapInv
  PROVE  bits = FirstBits(Len(bitmap_))
BY DEF BitmapInv, Covers, FirstBits

LEMMA NumberAgrees ==
  ASSUME ~Unsigned, BitmapInv
  PROVE  num_set = Word(Cardinality(bits))
<1>1. PICK n \in Nat : n = Len(bitmap_)
  BY SeqFacts DEF BitmapInv, InOrder
<1>2. PICK sum : Counts(sum) /\ num_set = sum[n]
  BY <1>1, CountsExist
<1>3. n \in 0..n
  BY <1>1
<1>4. Cardinality(FirstBits(n)) = sum[n]
  BY <1>1, <1>2, <1>3 DEF Counts
<1> QED
  BY <1>1, <1>2, <1>4, FirstBitsAreAll, Signed

LEMMA InvQueriesAgree == ~Unsigned /\ BitmapInv => QueriesAgree
<1> SUFFICES ASSUME ~Unsigned, BitmapInv PROVE QueriesAgree
  OBVIOUS
<1>1. \A start \in Ints, len \in Lens :
        start + len - 1 <= Highest => is_set(start, len) = (start..start + len - 1 \subseteq bits)
  <2> SUFFICES ASSUME NEW start \in Ints, NEW len \in Lens
               PROVE  is_set(start, len) = (start..start + len - 1 \subseteq bits)
    OBVIOUS
  <2>1. is_set(start, len) <=> start..start + len - 1 \subseteq bits
    BY IsSetAgrees
  <2> QED
    BY <2>1 DEF is_set
<1>2. num_set = Word(Cardinality(bits))
  BY NumberAgrees
<1>3. bits # {} => LET low == CHOOSE b \in bits : \A c \in bits : b <= c
                   IN num_contiguous = Word(Cardinality({b \in bits : low..b \subseteq bits}))
  BY ContiguousAgrees
<1> QED
  BY <1>1, <1>2, <1>3 DEF QueriesAgree

-----------------------------------------------------------------------------
(* The iterators.  A place is the n-th one, counting from begin(), if the  *)
(* entries before it and its offset make n: its rank.                      *)
Rank(sum, it) == sum[it.iter_ - 1] + it.offset_

LEMMA EntryFacts ==
  ASSUME BitmapInv
  PROVE  /\ bitmap_ \in Seq(Ranges) /\ Len(bitmap_) \in Nat
         /\ \A k \in 1..Len(bitmap_) :
              /\ bitmap_[k].start_ \in Int /\ bitmap_[k].end_ \in Int
              /\ bitmap_[k].end_ = bitmap_[k].start_ + Width(k)
              /\ Width(k) \in Nat /\ LastOf(k) = [iter_ |-> k, offset_ |-> Width(k)]
<1>1. /\ bitmap_ \in Seq(Ranges) /\ Len(bitmap_) \in Nat
      /\ \A k \in 1..Len(bitmap_) : bitmap_[k] \in Ranges
  BY SeqFacts DEF BitmapInv, InOrder
<1>2. ASSUME NEW k \in 1..Len(bitmap_)
      PROVE  /\ bitmap_[k].start_ \in Int /\ bitmap_[k].end_ \in Int
             /\ bitmap_[k].end_ = bitmap_[k].start_ + Width(k)
             /\ Width(k) \in Nat /\ LastOf(k) = [iter_ |-> k, offset_ |-> Width(k)]
  <2>1. PICK a \in Int, b \in Int : a = bitmap_[k].start_ /\ b = bitmap_[k].end_ /\ a <= b
    BY <1>1, RangeFacts
  <2>2. Width(k) = b - a /\ LastOf(k) = [iter_ |-> k, offset_ |-> Width(k)]
    BY <2>1 DEF Width, LastOf
  <2>3. b - a \in Nat /\ b = a + (b - a)
    BY <2>1
  <2> QED
    BY <2>1, <2>2, <2>3
<1> QED
  BY <1>1, <1>2

At(k, o) == [iter_ |-> k, offset_ |-> o]

LEMMA PlacesAre ==
  ASSUME BitmapInv
  PROVE  /\ end_ \in Places /\ end_ = At(Len(bitmap_) + 1, 0)
         /\ \A k \in 1..Len(bitmap_) : \A o \in 0..Width(k) : At(k, o) \in Places /\ At(k, o) # end_
         /\ \A it \in Places : \/ it = end_
                               \/ \E k \in 1..Len(bitmap_) : \E o \in 0..Width(k) : it = At(k, o)
<1>1. PICK n \in Nat : n = Len(bitmap_)
  BY EntryFacts
<1>2. \A k \in 1..n : LastOf(k).offset_ = Width(k)
  BY <1>1, EntryFacts
<1>3. end_ \in Places /\ end_ = At(n + 1, 0)
  BY <1>1 DEF Places, end_, At
<1>4. ASSUME NEW k \in 1..n, NEW o \in 0..Width(k)
      PROVE  At(k, o) \in Places /\ At(k, o) # end_
  <2>1. At(k, o) \in [iter_ : {k}, offset_ : 0..LastOf(k).offset_]
    BY <1>2 DEF At
  <2>2. At(k, o).iter_ = k /\ end_.iter_ = n + 1 /\ k # n + 1
    BY <1>3 DEF At
  <2> QED
    BY <1>1, <2>1, <2>2 DEF Places
<1>5. ASSUME NEW it \in Places, it # end_
      PROVE  \E k \in 1..n : \E o \in 0..Width(k) : it = At(k, o)
  <2>1. PICK k \in 1..n : it \in [iter_ : {k}, offset_ : 0..LastOf(k).offset_]
    BY <1>1, <1>5 DEF Places
  <2>2. it = At(k, it.offset_) /\ it.offset_ \in 0..Width(k)
    BY <1>2, <2>1 DEF At
  <2> QED
    BY <2>2
<1> QED
  BY <1>1, <1>3, <1>4, <1>5

(* The first place of an entry, or the end, is a place.                    *)
LEMMA StartsArePlaces ==
  ASSUME BitmapInv, NEW k \in 1..Len(bitmap_) + 1
  PROVE  At(k, 0) \in Places
<1>1. PICK n \in Nat : n = Len(bitmap_)
  BY EntryFacts
<1>2. CASE k = n + 1
  BY <1>1, <1>2, PlacesAre
<1>3. CASE k \in 1..n
  <2>1. 0 \in 0..Width(k)
    BY <1>1, <1>3, EntryFacts
  <2> QED
    BY <1>1, <1>3, <2>1, PlacesAre
<1> QED
  BY <1>1, <1>2, <1>3

LEMMA SumFacts ==
  ASSUME BitmapInv, NEW sum, Counts(sum)
  PROVE  /\ \A k \in 0..Len(bitmap_) : sum[k] \in Int
         /\ \A k \in 1..Len(bitmap_) : sum[k - 1] \in Int /\ sum[k] = sum[k - 1] + Width(k) + 1
         /\ sum[0] = 0
<1>1. PICK n \in Nat : n = Len(bitmap_)
  BY EntryFacts
<1>2. \A k \in 0..n : sum[k] \in Int
  BY <1>1 DEF Counts
<1>3. \A k \in 1..n : k - 1 \in 0..n
  OBVIOUS
<1> QED
  BY <1>1, <1>2, <1>3 DEF Counts

LEMMA SumGrows ==
  ASSUME BitmapInv, NEW sum, Counts(sum), NEW j \in 0..Len(bitmap_), NEW k \in 0..Len(bitmap_), j <= k
  PROVE  sum[j] <= sum[k]
<1>1. PICK n \in Nat : n = Len(bitmap_)
  BY EntryFacts
<1>2. \A i \in 0..n : sum[i] \in Int
  BY <1>1, SumFacts
<1>3. ASSUME NEW i \in 1..n
      PROVE  sum[i - 1] <= sum[i]
  <2>1. PICK a \in Int, w \in Nat : a = sum[i - 1] /\ w = Width(i)
    BY <1>1, SumFacts, EntryFacts
  <2>2. sum[i] = a + w + 1
    BY <1>1, <2>1, SumFacts
  <2>3. a <= a + w + 1
    OBVIOUS
  <2> QED
    BY <2>1, <2>2, <2>3
<1> DEFINE S == {i \in 0..n : j <= i => sum[j] <= sum[i]}
<1>4. 0 \in S
  <2>1. j <= 0 => j = 0
    BY <1>1
  <2>2. sum[0] <= sum[0] /\ 0 \in 0..n
    BY <1>1, <1>2
  <2> QED
    BY <2>1, <2>2
<1>5. ASSUME NEW i \in 1..n, i - 1 \in S
      PROVE  i \in S
  <2>1. i \in 0..n /\ i - 1 \in 0..n /\ (j <= i => j <= i - 1 \/ j = i)
    BY <1>1
  <2>2. PICK a \in Int, b \in Int, c \in Int : a = sum[j] /\ b = sum[i - 1] /\ c = sum[i] /\ b <= c
    BY <1>1, <1>2, <1>3, <2>1
  <2>3. j <= i - 1 => a <= b
    BY <1>5, <2>2
  <2>4. \A x, y, z \in Int : x <= x /\ (x <= y /\ y <= z => x <= z)
    OBVIOUS
  <2>5. j <= i => a <= c
    BY <2>1, <2>2, <2>3, <2>4
  <2> QED
    BY <2>1, <2>2, <2>5
<1>6. 0..n \subseteq S
  <2> HIDE DEF S
  <2> QED
    BY <1>4, <1>5, UpTo
<1> QED
  BY <1>1, <1>6

(* Ranks go from 0 to that of end(), and no two places have the same.      *)
LEMMA RankIs ==
  ASSUME BitmapInv, NEW sum, Counts(sum)
  PROVE  /\ \A k \in 1..Len(bitmap_) : \A o \in 0..Width(k) :
              /\ Rank(sum, At(k, o)) = sum[k - 1] + o /\ Rank(sum, At(k, o)) \in Int
              /\ Rank(sum, At(k, o)) >= sum[k - 1] /\ Rank(sum, At(k, o)) < sum[k]
         /\ Rank(sum, end_) = sum[Len(bitmap_)]
<1>1. PICK n \in Nat : n = Len(bitmap_)
  BY EntryFacts
<1>2. ASSUME NEW k \in 1..n, NEW o \in 0..Width(k)
      PROVE  /\ Rank(sum, At(k, o)) = sum[k - 1] + o /\ Rank(sum, At(k, o)) \in Int
             /\ Rank(sum, At(k, o)) >= sum[k - 1] /\ Rank(sum, At(k, o)) < sum[k]
  <2>1. PICK a \in Int, w \in Nat : a = sum[k - 1] /\ w = Width(k)
    BY <1>1, SumFacts, EntryFacts
  <2>2. sum[k] = a + w + 1
    BY <1>1, <2>1, SumFacts
  <2>3. Rank(sum, At(k, o)) = a + o
    BY <2>1 DEF Rank, At
  <2>4. o \in 0..w
    BY <2>1
  <2>5. a + o \in Int /\ a + o >= a /\ a + o < a + w + 1
    BY <2>1, <2>4
  <2> QED
    BY <2>1, <2>2, <2>3, <2>5
<1>3. Rank(sum, end_) = sum[n]
  <2>1. end_.iter_ = n + 1 /\ end_.offset_ = 0 /\ n + 1 - 1 = n
    BY <1>1 DEF end_
  <2>2. sum[n] \in Int
    BY <1>1, SumFacts
  <2>3. \A x \in Int : x + 0 = x
    OBVIOUS
  <2> QED
    BY <2>1, <2>2, <2>3 DEF Rank
<1> QED
  BY <1>1, <1>2, <1>3

LEMMA PlaceRanks ==
  ASSUME BitmapInv, NEW sum, Counts(sum)
  PROVE  /\ sum[Len(bitmap_)] \in Nat /\ Rank(sum, end_) = sum[Len(bitmap_)]
         /\ \A it \in Places : /\ Rank(sum, it) \in 0..sum[Len(bitmap_)]
                               /\ Rank(sum, it) = sum[Len(bitmap_)] => it = end_
<1>1. PICK n \in Nat : n = Len(bitmap_)
  BY EntryFacts
<1>2. sum[0] = 0 /\ \A k \in 0..n : sum[k] \in Int /\ 0 <= sum[k] /\ sum[k] <= sum[n]
  <2>1. 0 \in 0..n /\ n \in 0..n
    BY <1>1
  <2>2. sum[0] = 0 /\ \A k \in 0..n : sum[k] \in Int
    BY <1>1, SumFacts
  <2>3. \A k \in 0..n : sum[0] <= sum[k] /\ sum[k] <= sum[n]
    BY <1>1, <2>1, SumGrows
  <2> QED
    BY <2>2, <2>3
<1>3. sum[n] \in Nat
  BY <1>1, <1>2
<1>4. ASSUME NEW it \in Places, it # end_
      PROVE  Rank(sum, it) \in 0..sum[n] /\ Rank(sum, it) # sum[n]
  <2>1. PICK k \in 1..n, o \in Int : o \in 0..Width(k) /\ it = At(k, o)
    <3>1. PICK k \in 1..n : \E o \in 0..Width(k) : it = At(k, o)
      BY <1>1, <1>4, PlacesAre
    <3> QED
      BY <3>1
  <2>2. k \in 0..n /\ k - 1 \in 0..n
    BY <1>1
  <2>3. Rank(sum, it) \in Int /\ Rank(sum, it) >= sum[k - 1] /\ Rank(sum, it) < sum[k]
    BY <1>1, <2>1, RankIs
  <2>4. PICK r \in Int, a \in Int, b \in Int, c \in Int :
          r = Rank(sum, it) /\ a = sum[k - 1] /\ b = sum[k] /\ c = sum[n]
    BY <1>2, <1>3, <2>2, <2>3
  <2>5. 0 <= a /\ a <= r /\ r < b /\ b <= c
    BY <1>2, <2>2, <2>3, <2>4
  <2>6. r \in 0..c /\ r # c
    BY <2>5
  <2> QED
    BY <2>4, <2>6
<1>5. Rank(sum, end_) = sum[n] /\ sum[n] \in 0..sum[n]
  BY <1>1, <1>3, RankIs
<1> QED
  BY <1>1, <1>3, <1>4, <1>5

LEMMA RanksDiffer ==
  ASSUME BitmapInv, NEW sum, Counts(sum), NEW it \in Places, NEW other \in Places,
         Rank(sum, it) = Rank(sum, other)
  PROVE  it = other
<1>1. PICK n \in Nat : n = Len(bitmap_)
  BY EntryFacts
<1>2. it = end_ <=> other = end_
  BY PlaceRanks
<1>3. CASE it # end_
  <2>1. PICK k \in 1..n : \E o \in 0..Width(k) : it = At(k, o)
    BY <1>1, <1>3, PlacesAre
  <2>2. PICK o \in 0..Width(k) : it = At(k, o)
    BY <2>1
  <2>3. PICK j \in 1..n : \E p \in 0..Width(j) : other = At(j, p)
    BY <1>1, <1>2, <1>3, PlacesAre
  <2>4. PICK p \in 0..Width(j) : other = At(j, p)
    BY <2>3
  <2>5. ASSUME NEW a \in 1..n, NEW x \in 0..Width(a), NEW b \in 1..n, NEW y \in 0..Width(b),
               Rank(sum, At(a, x)) = Rank(sum, At(b, y))
        PROVE  ~(a < b)
    <3>1. Rank(sum, At(a, x)) < sum[a] /\ Rank(sum, At(b, y)) >= sum[b - 1]
      BY <1>1, RankIs
    <3>2. Rank(sum, At(a, x)) \in Int /\ sum[a] \in Int /\ sum[b - 1] \in Int
      BY <1>1, RankIs, SumFacts
    <3>3. a \in 0..n /\ b - 1 \in 0..n /\ (a < b => a <= b - 1)
      OBVIOUS
    <3>4. a < b => sum[a] <= sum[b - 1]
      BY <1>1, <3>3, SumGrows
    <3> QED
      BY <2>5, <3>1, <3>2, <3>4
  <2>6. k = j
    <3>1. ~(k < j)
      BY <2>2, <2>4, <2>5
    <3>2. ~(j < k)
      BY <2>2, <2>4, <2>5
    <3> QED
      BY <3>1, <3>2
  <2>7. sum[k - 1] \in Int /\ sum[k - 1] + o = sum[k - 1] + p
    <3>1. p \in 0..Width(k) /\ other = At(k, p)
      BY <2>4, <2>6
    <3> QED
      BY <1>1, <2>2, <3>1, RankIs, SumFacts
  <2>8. o \in Int /\ p \in Int
    OBVIOUS
  <2>9. o = p
    BY <2>7, <2>8
  <2> QED
    BY <2>2, <2>4, <2>6, <2>9
<1> QED
  BY <1>2, <1>3

LEMMA BeginRank ==
  ASSUME BitmapInv, NEW sum, Counts(sum)
  PROVE  begin \in Places /\ Rank(sum, begin) = 0
<1>1. begin = At(1, 0) /\ 1 \in 1..Len(bitmap_) + 1
  BY EntryFacts DEF begin, At
<1>2. sum[1 - 1] = 0
  BY SumFacts
<1> QED
  BY <1>1, <1>2, StartsArePlaces DEF Rank, At

(* A step forwards goes to the next rank, and one back to the one before.  *)
LEMMA IncrRanks ==
  ASSUME ~Unsigned, BitmapInv, NEW sum, Counts(sum), NEW it \in Places, it # end_
  PROVE  Incr(it) \in Places /\ Rank(sum, Incr(it)) = Rank(sum, it) + 1
<1>1. PICK n \in Nat : n = Len(bitmap_)
  BY EntryFacts
<1>2. PICK k \in 1..n : \E o \in 0..Width(k) : it = At(k, o)
  BY <1>1, PlacesAre
<1>3. PICK o \in 0..Width(k) : it = At(k, o)
  BY <1>2
<1>4. PICK w \in Nat, s \in Int, a \in Int :
        w = Width(k) /\ s = bitmap_[k].start_ /\ a = sum[k - 1] /\ bitmap_[k].end_ = s + w
  BY <1>1, EntryFacts, SumFacts
<1>5. o \in 0..w /\ sum[k] = a + w + 1 /\ it.iter_ = k /\ it.offset_ = o /\ Rank(sum, it) = a + o
  BY <1>1, <1>3, <1>4, SumFacts, RankIs DEF At
<1>6. Deref(it) = bitmap_[k].end_ <=> o = w
  <2>1. Deref(it) = s + o
    BY <1>4, <1>5, Signed DEF Deref
  <2>2. s + o = s + w <=> o = w
    BY <1>5
  <2> QED
    BY <1>4, <2>1, <2>2
<1>7. CASE o = w
  <2>1. Incr(it) = At(k + 1, 0)
    BY <1>5, <1>6, <1>7 DEF Incr, At
  <2>2. At(k + 1, 0) \in Places
    BY <1>1, StartsArePlaces
  <2>3. Rank(sum, At(k + 1, 0)) = sum[k]
    <3>1. Rank(sum, At(k + 1, 0)) = sum[k + 1 - 1] + 0
      BY DEF Rank, At
    <3>2. k + 1 - 1 = k /\ a + w + 1 + 0 = a + w + 1
      OBVIOUS
    <3> QED
      BY <1>5, <3>1, <3>2
  <2> QED
    BY <1>5, <1>7, <2>1, <2>2, <2>3
<1>8. CASE o # w
  <2>1. Incr(it) = At(k, o + 1)
    <3>1. Incr(it) = [it EXCEPT !.offset_ = o + 1]
      BY <1>5, <1>6, <1>8 DEF Incr
    <3> QED
      BY <1>3, <3>1 DEF At
  <2>2. o + 1 \in 0..w /\ o + 1 \in 0..Width(k)
    BY <1>4, <1>5, <1>8
  <2>3. At(k, o + 1) \in Places /\ Rank(sum, At(k, o + 1)) = a + (o + 1)
    BY <1>1, <1>4, <2>2, PlacesAre, RankIs
  <2>4. a + (o + 1) = a + o + 1
    OBVIOUS
  <2> QED
    BY <1>5, <2>1, <2>3, <2>4
<1> QED
  BY <1>7, <1>8

LEMMA DecrRanks ==
  ASSUME BitmapInv, NEW sum, Counts(sum), NEW it \in Places, Rank(sum, it) # 0
  PROVE  Decr(it) \in Places /\ Rank(sum, Decr(it)) = Rank(sum, it) - 1
<1>1. PICK n \in Nat : n = Len(bitmap_)
  BY EntryFacts
<1>2. PICK k \in 1..n + 1 : \E o \in Nat : it = At(k, o) /\ (o # 0 => k \in 1..n /\ o \in 0..Width(k))
  <2>1. CASE it = end_
    <3>1. it = At(n + 1, 0) /\ n + 1 \in 1..n + 1
      BY <1>1, <2>1, PlacesAre
    <3> QED
      BY <3>1
  <2>2. CASE it # end_
    <3>1. PICK k \in 1..n : \E o \in 0..Width(k) : it = At(k, o)
      BY <1>1, <2>2, PlacesAre
    <3>2. k \in 1..n + 1
      OBVIOUS
    <3> QED
      BY <3>1, <3>2
  <2> QED
    BY <2>1, <2>2
<1>3. PICK o \in Nat : it = At(k, o) /\ (o # 0 => k \in 1..n /\ o \in 0..Width(k))
  BY <1>2
<1>4. it.iter_ = k /\ it.offset_ = o
  BY <1>3 DEF At
<1>5. CASE o = 0
  <2>1. k # 1
    <3>1. sum[1 - 1] + 0 = 0
      BY SumFacts
    <3> QED
      BY <1>4, <1>5, <3>1 DEF Rank
  <2>2. k - 1 \in 1..n
    BY <2>1
  <2>3. PICK w \in Nat, a \in Int : w = Width(k - 1) /\ a = sum[k - 1 - 1] /\ sum[k - 1] = a + w + 1
    BY <1>1, <2>2, EntryFacts, SumFacts
  <2>4. Decr(it) = At(k - 1, w)
    BY <1>1, <1>4, <1>5, <2>2, <2>3, EntryFacts DEF Decr, At
  <2>5. w \in 0..Width(k - 1)
    BY <2>3
  <2>6. At(k - 1, w) \in Places /\ Rank(sum, At(k - 1, w)) = a + w
    BY <1>1, <2>2, <2>3, <2>5, PlacesAre, RankIs
  <2>7. Rank(sum, it) = a + w + 1
    <3>1. a + w + 1 + 0 = a + w + 1
      OBVIOUS
    <3> QED
      BY <1>4, <1>5, <2>3, <3>1 DEF Rank
  <2>8. a + w = a + w + 1 - 1
    OBVIOUS
  <2> QED
    BY <2>4, <2>6, <2>7, <2>8
<1>6. CASE o # 0
  <2>1. PICK w \in Nat, a \in Int : w = Width(k) /\ a = sum[k - 1] /\ k \in 1..n /\ o \in 0..w
    BY <1>1, <1>3, <1>6, EntryFacts, SumFacts
  <2>2. Decr(it) = At(k, o - 1)
    <3>1. Decr(it) = [it EXCEPT !.offset_ = o - 1]
      BY <1>4, <1>6 DEF Decr
    <3> QED
      BY <1>3, <3>1 DEF At
  <2>3. o - 1 \in 0..w /\ o - 1 \in 0..Width(k) /\ o \in 0..Width(k)
    BY <1>6, <2>1
  <2>4. /\ At(k, o - 1) \in Places /\ Rank(sum, At(k, o - 1)) = a + (o - 1)
        /\ Rank(sum, it) = a + o
    BY <1>1, <1>3, <2>1, <2>3, PlacesAre, RankIs
  <2>5. a + (o - 1) = a + o - 1
    OBVIOUS
  <2> QED
    BY <2>2, <2>4, <2>5
<1> QED
  BY <1>5, <1>6

LEMMA EveryRank ==
  ASSUME ~Unsigned, BitmapInv, NEW sum, Counts(sum), NEW r \in 0..sum[Len(bitmap_)]
  PROVE  \E it \in Places : Rank(sum, it) = r
<1>1. PICK size \in Nat : size = sum[Len(bitmap_)]
  BY PlaceRanks
<1> DEFINE S == {x \in 0..size : \E it \in Places : Rank(sum, it) = x}
<1>2. 0 \in S
  BY BeginRank
<1>3. ASSUME NEW x \in 1..size, x - 1 \in S
      PROVE  x \in S
  <2>1. PICK it \in Places : Rank(sum, it) = x - 1
    BY <1>3
  <2>2. it # end_
    <3>1. x - 1 # size
      OBVIOUS
    <3> QED
      BY <1>1, <2>1, <3>1, PlaceRanks
  <2>3. Incr(it) \in Places /\ Rank(sum, Incr(it)) = x - 1 + 1
    BY <2>1, <2>2, IncrRanks
  <2>4. x - 1 + 1 = x /\ x \in 0..size
    OBVIOUS
  <2> QED
    BY <2>3, <2>4
<1>4. 0..size \subseteq S
  <2> HIDE DEF S
  <2> QED
    BY <1>2, <1>3, UpTo
<1> QED
  BY <1>1, <1>4

(* A place that is not the end is a bit's, and its rank is how many there  *)
(* are below.                                                              *)
LEMMA DerefIs ==
  ASSUME ~Unsigned, BitmapInv, NEW sum, Counts(sum), NEW it \in Places, it # end_
  PROVE  Deref(it) \in bits /\ Cardinality({b \in bits : b < Deref(it)}) = Rank(sum, it)
<1>1. PICK n \in Nat : n = Len(bitmap_)
  BY EntryFacts
<1>2. PICK k \in 1..n : \E o \in 0..Width(k) : it = At(k, o)
  BY <1>1, PlacesAre
<1>3. PICK o \in 0..Width(k) : it = At(k, o)
  BY <1>2
<1>4. PICK w \in Nat, s \in Int, a \in Int :
        w = Width(k) /\ s = bitmap_[k].start_ /\ a = sum[k - 1] /\ bitmap_[k].end_ = s + w
  BY <1>1, EntryFacts, SumFacts
<1>5. o \in 0..w /\ it.iter_ = k /\ it.offset_ = o /\ Rank(sum, it) = a + o
  BY <1>1, <1>3, <1>4, RankIs DEF At
<1>6. PICK d \in Int : d = s + o /\ Deref(it) = d
  BY <1>4, <1>5, Signed DEF Deref
<1>7. \A x \in Int : \A j \in 1..n : x \in Bits(bitmap_[j]) <=>
                       bitmap_[j].start_ <= x /\ x <= bitmap_[j].end_
  <2>1. \A j \in 1..n : bitmap_[j] \in Ranges
    BY <1>1, SeqFacts DEF BitmapInv, InOrder
  <2> QED
    BY <2>1, RangeFacts
<1>8. d \in bits
  <2>1. s <= d /\ d <= s + w
    BY <1>5, <1>6
  <2>2. d \in Bits(bitmap_[k])
    BY <1>4, <1>7, <2>1
  <2> QED
    BY <1>1, <2>2 DEF BitmapInv, Covers
<1>9. {b \in bits : b < d} = FirstBits(k - 1) \cup (s..d - 1)
  <2>1. ASSUME NEW b \in bits, b < d
        PROVE  b \in FirstBits(k - 1) \/ b \in s..d - 1
    <3>1. PICK j \in 1..n : b \in Int /\ b \in Bits(bitmap_[j])
      BY <1>1 DEF BitmapInv, Covers
    <3>2. bitmap_[j].start_ <= b /\ b <= bitmap_[j].end_ /\ bitmap_[j].start_ \in Int
      BY <1>1, <1>7, <3>1, EntryFacts
    <3>3. CASE j < k
      <4>1. j \in 1..k - 1
        BY <3>3
      <4> QED
        BY <3>1, <4>1 DEF FirstBits
    <3>4. CASE j = k
      <4>1. s <= b
        BY <1>4, <3>2, <3>4
      <4> QED
        BY <2>1, <3>1, <4>1
    <3>5. CASE j > k
      <4>1. k < j
        BY <3>5
      <4>2. s + w + 1 < bitmap_[j].start_
        BY <1>1, <1>4, <4>1 DEF BitmapInv, InOrder
      <4>3. d <= s + w
        BY <1>5, <1>6
      <4> QED
        BY <2>1, <3>1, <3>2, <4>2, <4>3
    <3> QED
      BY <3>3, <3>4, <3>5
  <2>2. ASSUME NEW b \in FirstBits(k - 1)
        PROVE  b \in bits /\ b < d
    <3>1. PICK j \in 1..k - 1 : b \in Int /\ b \in Bits(bitmap_[j])
      BY DEF FirstBits
    <3>2. j \in 1..n /\ j < k
      OBVIOUS
    <3>3. b <= bitmap_[j].end_ /\ bitmap_[j].end_ \in Int
      BY <1>1, <1>7, <3>1, <3>2, EntryFacts
    <3>4. bitmap_[j].end_ + 1 < s
      BY <1>1, <1>4, <3>2 DEF BitmapInv, InOrder
    <3>5. s <= d
      BY <1>5, <1>6
    <3>6. b < d
      BY <3>1, <3>3, <3>4, <3>5
    <3> QED
      BY <1>1, <3>1, <3>2, <3>6 DEF BitmapInv, Covers
  <2>3. ASSUME NEW b \in s..d - 1
        PROVE  b \in bits /\ b < d
    <3>1. b \in Int /\ s <= b /\ b <= s + w /\ b < d
      BY <1>5, <1>6
    <3>2. b \in Bits(bitmap_[k])
      BY <1>4, <1>7, <3>1
    <3> QED
      BY <1>1, <3>1, <3>2 DEF BitmapInv, Covers
  <2> QED
    BY <2>1, <2>2, <2>3
<1>10. FirstBits(k - 1) \cap (s..d - 1) = {}
  <2> SUFFICES ASSUME NEW b \in Int, NEW j \in 1..k - 1, b \in Bits(bitmap_[j]), s <= b
               PROVE  FALSE
    BY DEF FirstBits
  <2>1. j \in 1..n /\ j < k
    OBVIOUS
  <2>2. b <= bitmap_[j].end_ /\ bitmap_[j].end_ \in Int
    BY <1>1, <1>7, <2>1, EntryFacts
  <2>3. bitmap_[j].end_ + 1 < s
    BY <1>1, <1>4, <2>1 DEF BitmapInv, InOrder
  <2> QED
    BY <2>2, <2>3
<1>11. IsFiniteSet(FirstBits(k - 1)) /\ Cardinality(FirstBits(k - 1)) = a
  <2>1. k - 1 \in 0..Len(bitmap_)
    BY <1>1
  <2> QED
    BY <1>4, <2>1 DEF Counts
<1>12. IsFiniteSet(s..d - 1) /\ Cardinality(s..d - 1) = o
  <2>1. d - 1 \in Int /\ (s > d - 1 => o = 0) /\ d - 1 - s + 1 = o
    BY <1>5, <1>6
  <2>2. IsFiniteSet(s..d - 1) /\ Cardinality(s..d - 1) = IF s > d - 1 THEN 0 ELSE d - 1 - s + 1
    BY <2>1, FS_Interval
  <2> QED
    BY <2>1, <2>2
<1>13. PICK A, B : A = FirstBits(k - 1) /\ B = s..d - 1
  OBVIOUS
<1>14. /\ IsFiniteSet(A) /\ IsFiniteSet(B) /\ A \cap B = {} /\ Cardinality(A) = a /\ Cardinality(B) = o
       /\ {b \in bits : b < d} = A \cup B
  BY <1>9, <1>10, <1>11, <1>12, <1>13
<1>15. Cardinality(A \cup B) = Cardinality(A) + Cardinality(B) - Cardinality(A \cap B)
  BY <1>14, FS_Union
<1>16. Cardinality(A \cap B) = 0
  BY <1>14, FS_EmptySet
<1>17. Cardinality(A \cup B) = a + o
  BY <1>14, <1>15, <1>16
<1> QED
  BY <1>5, <1>6, <1>8, <1>14, <1>17

PlaceOf(sum, r) == CHOOSE it \in Places : Rank(sum, it) = r

LEMMA PlaceOfIs ==
  ASSUME ~Unsigned, BitmapInv, NEW sum, Counts(sum)
  PROVE  /\ \A r \in 0..sum[Len(bitmap_)] :
              PlaceOf(sum, r) \in Places /\ Rank(sum, PlaceOf(sum, r)) = r
         /\ \A it \in Places : PlaceOf(sum, Rank(sum, it)) = it
<1>1. \A r \in 0..sum[Len(bitmap_)] : PlaceOf(sum, r) \in Places /\ Rank(sum, PlaceOf(sum, r)) = r
  BY EveryRank DEF PlaceOf
<1>2. ASSUME NEW it \in Places
      PROVE  PlaceOf(sum, Rank(sum, it)) = it
  <2>1. Rank(sum, it) \in 0..sum[Len(bitmap_)]
    BY PlaceRanks
  <2> QED
    BY <1>1, <2>1, RanksDiffer
<1> QED
  BY <1>1, <1>2

(* n single steps forwards from begin() come to the place of rank n, and n *)
(* backwards from end() to the one of which that many are left.            *)
IsStep(f) == f = [n \in 0..Cardinality(bits) |-> IF n = 0 THEN begin ELSE Incr(f[n - 1])]
IsBack(f) == f = [n \in 0..Cardinality(bits) |-> IF n = 0 THEN end_ ELSE Decr(f[n - 1])]

LEMMA StepsAre ==
  ASSUME ~Unsigned, BitmapInv, NEW sum, Counts(sum), sum[Len(bitmap_)] = Cardinality(bits)
  PROVE  /\ \E f : IsStep(f)
         /\ \A f : IsStep(f) => \A n \in 0..Cardinality(bits) :
                                  f[n] \in Places /\ Rank(sum, f[n]) = n
<1>1. PICK size \in Nat : size = Cardinality(bits) /\ size = sum[Len(bitmap_)]
  BY PlaceRanks
<1>2. ASSUME NEW n \in 1..size, NEW it \in Places, Rank(sum, it) = n - 1
      PROVE  Incr(it) \in Places /\ Rank(sum, Incr(it)) = n
  <2>1. n - 1 # size /\ n - 1 + 1 = n
    OBVIOUS
  <2>2. it # end_
    BY <1>1, <1>2, <2>1, PlaceRanks
  <2> QED
    BY <1>2, <2>1, <2>2, IncrRanks
<1>3. \E f : IsStep(f)
  <2> DEFINE f == [n \in 0..size |-> PlaceOf(sum, n)]
  <2>1. ASSUME NEW n \in 0..size
        PROVE  f[n] = IF n = 0 THEN begin ELSE Incr(f[n - 1])
    <3>1. CASE n = 0
      BY <3>1, BeginRank, PlaceOfIs
    <3>2. CASE n # 0
      <4>1. n \in 1..size /\ n - 1 \in 0..size
        BY <3>2
      <4>2. PICK it \in Places : it = f[n - 1] /\ Rank(sum, it) = n - 1
        BY <1>1, <4>1, PlaceOfIs
      <4>3. PlaceOf(sum, n) = Incr(it)
        BY <1>2, <4>1, <4>2, PlaceOfIs
      <4> QED
        BY <3>2, <4>2, <4>3
    <3> QED
      BY <3>1, <3>2
  <2>2. f = [n \in 0..size |-> f[n]]
    OBVIOUS
  <2> HIDE DEF f
  <2>3. IsStep(f)
    BY <1>1, <2>1, <2>2 DEF IsStep
  <2> QED
    BY <2>3
<1>4. ASSUME NEW f, IsStep(f)
      PROVE  \A n \in 0..size : f[n] \in Places /\ Rank(sum, f[n]) = n
  <2>1. \A n \in 0..size : f[n] = IF n = 0 THEN begin ELSE Incr(f[n - 1])
    BY <1>1, <1>4 DEF IsStep
  <2> DEFINE S == {n \in 0..size : f[n] \in Places /\ Rank(sum, f[n]) = n}
  <2>2. 0 \in S
    <3>1. 0 \in 0..size
      OBVIOUS
    <3> QED
      BY <2>1, <3>1, BeginRank
  <2>3. ASSUME NEW n \in 1..size, n - 1 \in S
        PROVE  n \in S
    <3>1. n \in 0..size /\ f[n] = Incr(f[n - 1])
      BY <2>1
    <3> QED
      BY <1>2, <2>3, <3>1
  <2>4. 0..size \subseteq S
    <3> HIDE DEF S
    <3> QED
      BY <2>2, <2>3, UpTo
  <2> QED
    BY <2>4
<1> QED
  BY <1>1, <1>3, <1>4

LEMMA BacksAre ==
  ASSUME ~Unsigned, BitmapInv, NEW sum, Counts(sum), sum[Len(bitmap_)] = Cardinality(bits)
  PROVE  /\ \E f : IsBack(f)
         /\ \A f : IsBack(f) => \A n \in 0..Cardinality(bits) :
                                  f[n] \in Places /\ Rank(sum, f[n]) = Cardinality(bits) - n
<1>1. PICK size \in Nat : size = Cardinality(bits) /\ size = sum[Len(bitmap_)]
  BY PlaceRanks
<1>2. ASSUME NEW n \in 1..size, NEW it \in Places, Rank(sum, it) = size - (n - 1)
      PROVE  Decr(it) \in Places /\ Rank(sum, Decr(it)) = size - n
  <2>1. size - (n - 1) # 0 /\ size - (n - 1) - 1 = size - n
    OBVIOUS
  <2> QED
    BY <1>2, <2>1, DecrRanks
<1>3. end_ \in Places /\ Rank(sum, end_) = size - 0
  <2>1. size - 0 = size
    OBVIOUS
  <2> QED
    BY <1>1, <2>1, PlacesAre, PlaceRanks
<1>4. \E f : IsBack(f)
  <2> DEFINE f == [n \in 0..size |-> PlaceOf(sum, size - n)]
  <2>1. ASSUME NEW n \in 0..size
        PROVE  f[n] = IF n = 0 THEN end_ ELSE Decr(f[n - 1])
    <3>1. CASE n = 0
      BY <1>3, <3>1, PlaceOfIs
    <3>2. CASE n # 0
      <4>1. n \in 1..size /\ n - 1 \in 0..size /\ size - (n - 1) \in 0..size
        BY <3>2
      <4>2. PICK it \in Places : it = f[n - 1] /\ Rank(sum, it) = size - (n - 1)
        BY <1>1, <4>1, PlaceOfIs
      <4>3. PlaceOf(sum, size - n) = Decr(it)
        BY <1>2, <4>1, <4>2, PlaceOfIs
      <4> QED
        BY <3>2, <4>2, <4>3
    <3> QED
      BY <3>1, <3>2
  <2>2. f = [n \in 0..size |-> f[n]]
    OBVIOUS
  <2> HIDE DEF f
  <2>3. IsBack(f)
    BY <1>1, <2>1, <2>2 DEF IsBack
  <2> QED
    BY <2>3
<1>5. ASSUME NEW f, IsBack(f)
      PROVE  \A n \in 0..size : f[n] \in Places /\ Rank(sum, f[n]) = size - n
  <2>1. \A n \in 0..size : f[n] = IF n = 0 THEN end_ ELSE Decr(f[n - 1])
    BY <1>1, <1>5 DEF IsBack
  <2> DEFINE S == {n \in 0..size : f[n] \in Places /\ Rank(sum, f[n]) = size - n}
  <2>2. 0 \in S
    <3>1. 0 \in 0..size
      OBVIOUS
    <3> QED
      BY <1>3, <2>1, <3>1
  <2>3. ASSUME NEW n \in 1..size, n - 1 \in S
        PROVE  n \in S
    <3>1. n \in 0..size /\ f[n] = Decr(f[n - 1])
      BY <2>1
    <3> QED
      BY <1>2, <2>3, <3>1
  <2>4. 0..size \subseteq S
    <3> HIDE DEF S
    <3> QED
      BY <2>2, <2>3, UpTo
  <2> QED
    BY <2>4
<1> QED
  BY <1>1, <1>4, <1>5

(* A leap over the rest of an entry is so many steps.                      *)
SpaceAt(i)  == bitmap_[i.iter_].end_ - (bitmap_[i.iter_].start_ + i.offset_)
Along(i, n) == [i EXCEPT !.offset_ = @ + n]
Next(i)     == At(i.iter_ + 1, 0)

IsPlus(f, diff) ==
  f = [n \in 0..diff |->
        [i \in Places |->
          IF n = 0 \/ i = end_ THEN i
          ELSE IF SpaceAt(i) >= n THEN Along(i, n)
          ELSE f[n - (SpaceAt(i) + 1)][Next(i)]]]

LEMMA PlusIsRecursive ==
  ASSUME NEW it, NEW diff
  PROVE  Plus(it, diff) = (CHOOSE f : IsPlus(f, diff))[diff][it]
BY DEF Plus, IsPlus, SpaceAt, Along, Next, At

LEMMA LeapForward ==
  ASSUME BitmapInv, NEW sum, Counts(sum), NEW i \in Places, i # end_, NEW n \in Nat \ {0}
  PROVE  /\ SpaceAt(i) \in Nat
         /\ SpaceAt(i) >= n => Along(i, n) \in Places /\ Rank(sum, Along(i, n)) = Rank(sum, i) + n
         /\ ~(SpaceAt(i) >= n) =>
              /\ Next(i) \in Places /\ Rank(sum, Next(i)) = Rank(sum, i) + (SpaceAt(i) + 1)
              /\ n - (SpaceAt(i) + 1) \in Nat /\ n - (SpaceAt(i) + 1) < n
<1>1. PICK m \in Nat : m = Len(bitmap_)
  BY EntryFacts
<1>2. PICK k \in 1..m : \E o \in 0..Width(k) : i = At(k, o)
  BY <1>1, PlacesAre
<1>3. PICK o \in 0..Width(k) : i = At(k, o)
  BY <1>2
<1>4. PICK w \in Nat, s \in Int, a \in Int :
        w = Width(k) /\ s = bitmap_[k].start_ /\ a = sum[k - 1] /\ bitmap_[k].end_ = s + w
  BY <1>1, EntryFacts, SumFacts
<1>5. o \in 0..w /\ sum[k] = a + w + 1 /\ i.iter_ = k /\ i.offset_ = o /\ Rank(sum, i) = a + o
  BY <1>1, <1>3, <1>4, SumFacts, RankIs DEF At
<1>6. PICK space \in Nat :
        space = SpaceAt(i) /\ space = w - o
  <2>1. s + w - (s + o) = w - o /\ w - o \in Nat
    BY <1>5
  <2> QED
    BY <1>4, <1>5, <2>1 DEF SpaceAt
<1>7. ASSUME space >= n
      PROVE  Along(i, n) \in Places /\ Rank(sum, Along(i, n)) = Rank(sum, i) + n
  <2>1. Along(i, n) = At(k, o + n)
    <3>1. Along(i, n) = [i EXCEPT !.offset_ = o + n]
      BY <1>5 DEF Along
    <3> QED
      BY <1>3, <3>1 DEF At
  <2>2. o + n \in 0..w /\ o + n \in 0..Width(k)
    BY <1>4, <1>5, <1>6, <1>7
  <2>3. At(k, o + n) \in Places /\ Rank(sum, At(k, o + n)) = a + (o + n)
    BY <1>1, <1>4, <2>2, PlacesAre, RankIs
  <2>4. a + (o + n) = a + o + n
    BY <1>5
  <2> QED
    BY <1>5, <2>1, <2>3, <2>4
<1>8. PICK next : next = Next(i) /\ next = At(k + 1, 0)
  BY <1>5 DEF Next
<1>9. next \in Places /\ Rank(sum, next) = Rank(sum, i) + (space + 1)
  <2>1. At(k + 1, 0) \in Places
    BY <1>1, StartsArePlaces
  <2>2. Rank(sum, At(k + 1, 0)) = sum[k + 1 - 1] + 0
    BY DEF Rank, At
  <2>3. k + 1 - 1 = k /\ a + w + 1 + 0 = a + o + (space + 1)
    BY <1>5, <1>6
  <2> QED
    BY <1>5, <1>8, <2>1, <2>2, <2>3
<1>10. ~(space >= n) => n - (space + 1) \in Nat /\ n - (space + 1) < n
  OBVIOUS
<1> QED
  BY <1>6, <1>7, <1>8, <1>9, <1>10

LEMMA PlusIs ==
  ASSUME ~Unsigned, BitmapInv, NEW sum, Counts(sum), NEW diff \in Nat, NEW it \in Places,
         Rank(sum, it) + diff <= sum[Len(bitmap_)]
  PROVE  Plus(it, diff) \in Places /\ Rank(sum, Plus(it, diff)) = Rank(sum, it) + diff
<1>1. PICK size \in Nat : /\ size = sum[Len(bitmap_)] /\ Rank(sum, end_) = size
                          /\ \A i \in Places : Rank(sum, i) \in 0..size
  BY PlaceRanks
<1>2. ASSUME NEW i \in Places, i # end_, NEW n \in Nat \ {0}
      PROVE  /\ SpaceAt(i) \in Nat
             /\ SpaceAt(i) >= n => Along(i, n) \in Places /\ Rank(sum, Along(i, n)) = Rank(sum, i) + n
             /\ ~(SpaceAt(i) >= n) =>
                  /\ Next(i) \in Places /\ Rank(sum, Next(i)) = Rank(sum, i) + (SpaceAt(i) + 1)
                  /\ n - (SpaceAt(i) + 1) \in Nat /\ n - (SpaceAt(i) + 1) < n
  BY <1>2, LeapForward
<1>3. \E f : IsPlus(f, diff)
  <2> DEFINE Leap(i, n) == IF Rank(sum, i) + n <= size THEN PlaceOf(sum, Rank(sum, i) + n) ELSE end_
             f == [n \in 0..diff |-> [i \in Places |-> Leap(i, n)]]
  <2>1. ASSUME NEW n \in 0..diff, NEW i \in Places
        PROVE  Leap(i, n) = IF n = 0 \/ i = end_ THEN i
                            ELSE IF SpaceAt(i) >= n THEN Along(i, n)
                                 ELSE f[n - (SpaceAt(i) + 1)][Next(i)]
    <3>0. Rank(sum, i) \in 0..size
      BY <1>1
    <3>1. CASE n = 0
      <4>1. Rank(sum, i) + n = Rank(sum, i) /\ Rank(sum, i) <= size
        BY <3>0, <3>1
      <4> QED
        BY <3>1, <4>1, PlaceOfIs
    <3>2. CASE n # 0 /\ i = end_
      <4>1. ~(Rank(sum, i) + n <= size)
        BY <1>1, <3>2
      <4> QED
        BY <3>2, <4>1
    <3>3. CASE n # 0 /\ i # end_ /\ SpaceAt(i) >= n
      <4>1. Along(i, n) \in Places /\ Rank(sum, Along(i, n)) = Rank(sum, i) + n
        BY <1>2, <3>3
      <4>2. Rank(sum, i) + n <= size
        BY <1>1, <4>1
      <4> QED
        BY <3>3, <4>1, <4>2, PlaceOfIs
    <3>4. CASE n # 0 /\ i # end_ /\ ~(SpaceAt(i) >= n)
      <4>1. /\ Next(i) \in Places /\ Rank(sum, Next(i)) = Rank(sum, i) + (SpaceAt(i) + 1)
            /\ n - (SpaceAt(i) + 1) \in Nat /\ n - (SpaceAt(i) + 1) < n /\ SpaceAt(i) \in Nat
        BY <1>2, <3>4
      <4>2. PICK x \in 0..diff : x = n - (SpaceAt(i) + 1)
        BY <4>1
      <4>3. Rank(sum, Next(i)) + x = Rank(sum, i) + n
        <5>1. PICK r \in Int, c \in Int : r = Rank(sum, i) /\ c = SpaceAt(i)
          BY <3>0, <4>1
        <5>2. r + (c + 1) + (n - (c + 1)) = r + n
          OBVIOUS
        <5> QED
          BY <4>1, <4>2, <5>1, <5>2
      <4>4. f[x][Next(i)] = Leap(Next(i), x)
        BY <4>1
      <4>5. Leap(Next(i), x) = Leap(i, n)
        BY <4>3
      <4> HIDE DEF Leap, f
      <4> QED
        BY <3>4, <4>2, <4>4, <4>5
    <3> QED
      BY <3>1, <3>2, <3>3, <3>4
  <2> HIDE DEF Leap
  <2>2. ASSUME NEW n \in 0..diff
        PROVE  f[n] = [i \in Places |-> IF n = 0 \/ i = end_ THEN i
                                        ELSE IF SpaceAt(i) >= n THEN Along(i, n)
                                             ELSE f[n - (SpaceAt(i) + 1)][Next(i)]]
    <3>1. f[n] = [i \in Places |-> Leap(i, n)]
      OBVIOUS
    <3> HIDE DEF f
    <3> QED
      BY <2>1, <3>1
  <2>3. f = [n \in 0..diff |-> f[n]]
    OBVIOUS
  <2> HIDE DEF f
  <2>4. f = [n \in 0..diff |->
              [i \in Places |-> IF n = 0 \/ i = end_ THEN i
                                ELSE IF SpaceAt(i) >= n THEN Along(i, n)
                                     ELSE f[n - (SpaceAt(i) + 1)][Next(i)]]]
    BY <2>2, <2>3
  <2>5. IsPlus(f, diff)
    BY <2>4 DEF IsPlus
  <2> QED
    BY <2>5
<1>4. PICK f : IsPlus(f, diff) /\ Plus(it, diff) = f[diff][it]
  <2> DEFINE f == CHOOSE g : IsPlus(g, diff)
  <2>1. IsPlus(f, diff)
    BY <1>3
  <2> QED
    BY <2>1, PlusIsRecursive
<1>5. ASSUME NEW n \in 0..diff, NEW i \in Places
      PROVE  f[n][i] = IF n = 0 \/ i = end_ THEN i
                       ELSE IF SpaceAt(i) >= n THEN Along(i, n)
                            ELSE f[n - (SpaceAt(i) + 1)][Next(i)]
  <2>1. f[n] = [j \in Places |-> IF n = 0 \/ j = end_ THEN j
                                 ELSE IF SpaceAt(j) >= n THEN Along(j, n)
                                      ELSE f[n - (SpaceAt(j) + 1)][Next(j)]]
    <3>1. f = [m \in 0..diff |->
                [j \in Places |-> IF m = 0 \/ j = end_ THEN j
                                  ELSE IF SpaceAt(j) >= m THEN Along(j, m)
                                       ELSE f[m - (SpaceAt(j) + 1)][Next(j)]]]
      BY <1>4 DEF IsPlus
    <3> QED
      BY <3>1
  <2> QED
    BY <2>1
<1> DEFINE Right(n) == \A i \in Places : Rank(sum, i) + n <= size =>
                         f[n][i] \in Places /\ Rank(sum, f[n][i]) = Rank(sum, i) + n
           Bad == {n \in 0..diff : ~Right(n)}
<1>6. Bad = {}
  <2> SUFFICES ASSUME Bad # {} PROVE FALSE
    OBVIOUS
  <2>1. PICK n \in Bad : \A x \in Bad : n <= x
    <3>1. Bad \subseteq Nat
      OBVIOUS
    <3> HIDE DEF Bad
    <3> QED
      BY <3>1, LeastNat
  <2>2. n \in 0..diff /\ ~Right(n)
    OBVIOUS
  <2>3. ASSUME NEW x \in 0..diff, x < n
        PROVE  Right(x)
    <3> HIDE DEF Right
    <3> QED
      BY <2>1, <2>2, <2>3
  <2>4. ASSUME NEW i \in Places, Rank(sum, i) + n <= size
        PROVE  f[n][i] \in Places /\ Rank(sum, f[n][i]) = Rank(sum, i) + n
    <3>0. Rank(sum, i) \in 0..size
      BY <1>1
    <3>1. CASE n = 0
      <4>1. Rank(sum, i) + n = Rank(sum, i)
        BY <3>0, <3>1
      <4> QED
        BY <1>5, <2>2, <3>1, <4>1
    <3>2. CASE n # 0 /\ i = end_
      <4>1. ~(Rank(sum, i) + n <= size)
        BY <1>1, <2>2, <3>2
      <4> QED
        BY <2>4, <4>1
    <3>3. CASE n # 0 /\ i # end_ /\ SpaceAt(i) >= n
      <4>1. n \in Nat \ {0}
        BY <2>2, <3>3
      <4>2. Along(i, n) \in Places /\ Rank(sum, Along(i, n)) = Rank(sum, i) + n
        BY <1>2, <3>3, <4>1
      <4> QED
        BY <1>5, <2>2, <3>3, <4>2
    <3>4. CASE n # 0 /\ i # end_ /\ ~(SpaceAt(i) >= n)
      <4>0. n \in Nat \ {0}
        BY <2>2, <3>4
      <4>1. /\ Next(i) \in Places /\ Rank(sum, Next(i)) = Rank(sum, i) + (SpaceAt(i) + 1)
            /\ n - (SpaceAt(i) + 1) \in Nat /\ n - (SpaceAt(i) + 1) < n /\ SpaceAt(i) \in Nat
        BY <1>2, <3>4, <4>0
      <4>2. PICK x \in 0..diff : x = n - (SpaceAt(i) + 1) /\ x < n
        BY <2>2, <4>1
      <4>3. Rank(sum, Next(i)) + x = Rank(sum, i) + n
        <5>1. PICK r \in Int, c \in Int : r = Rank(sum, i) /\ c = SpaceAt(i)
          BY <3>0, <4>1
        <5>2. r + (c + 1) + (n - (c + 1)) = r + n
          BY <4>0
        <5> QED
          BY <4>1, <4>2, <5>1, <5>2
      <4>4. f[x][Next(i)] \in Places /\ Rank(sum, f[x][Next(i)]) = Rank(sum, i) + n
        BY <2>3, <2>4, <4>1, <4>2, <4>3
      <4>5. f[n][i] = f[x][Next(i)]
        BY <1>5, <2>2, <3>4, <4>2
      <4> QED
        BY <4>4, <4>5
    <3> QED
      BY <3>1, <3>2, <3>3, <3>4
  <2> QED
    BY <2>2, <2>4
<1>7. Right(diff)
  <2>1. diff \in 0..diff
    OBVIOUS
  <2> HIDE DEF Right
  <2> QED
    BY <1>6, <2>1
<1> QED
  BY <1>1, <1>4, <1>7

Back(i, n) == [i EXCEPT !.offset_ = @ - n]

IsMinus(f, diff) ==
  f = [n \in 0..diff |->
        [i \in Places |->
          IF i.offset_ >= n THEN Back(i, n)
          ELSE IF i.iter_ = 1 THEN begin
          ELSE f[n - (i.offset_ + 1)][LastOf(i.iter_ - 1)]]]

LEMMA MinusIsRecursive ==
  ASSUME NEW it, NEW diff
  PROVE  Minus(it, diff) = (CHOOSE f : IsMinus(f, diff))[diff][it]
BY DEF Minus, IsMinus, Back

LEMMA LeapBack ==
  ASSUME BitmapInv, NEW sum, Counts(sum), NEW i \in Places, NEW n \in Nat
  PROVE  /\ i.offset_ \in Nat /\ i.iter_ \in 1..Len(bitmap_) + 1
         /\ i.offset_ >= n => Back(i, n) \in Places /\ Rank(sum, Back(i, n)) = Rank(sum, i) - n
         /\ i.iter_ = 1 => Rank(sum, i) = i.offset_
         /\ i.iter_ # 1 => /\ LastOf(i.iter_ - 1) \in Places
                           /\ Rank(sum, LastOf(i.iter_ - 1)) = Rank(sum, i) - (i.offset_ + 1)
<1>1. PICK m \in Nat : m = Len(bitmap_)
  BY EntryFacts
<1>2. PICK k \in 1..m + 1 : \E o \in Nat : i = At(k, o) /\ (o # 0 => k \in 1..m /\ o \in 0..Width(k))
  <2>1. CASE i = end_
    <3>1. i = At(m + 1, 0) /\ m + 1 \in 1..m + 1
      BY <1>1, <2>1, PlacesAre
    <3> QED
      BY <3>1
  <2>2. CASE i # end_
    <3>1. PICK k \in 1..m : \E o \in 0..Width(k) : i = At(k, o)
      BY <1>1, <2>2, PlacesAre
    <3>2. k \in 1..m + 1
      OBVIOUS
    <3> QED
      BY <3>1, <3>2
  <2> QED
    BY <2>1, <2>2
<1>3. PICK o \in Nat : i = At(k, o) /\ (o # 0 => k \in 1..m /\ o \in 0..Width(k))
  BY <1>2
<1>4. i.iter_ = k /\ i.offset_ = o
  BY <1>3 DEF At
<1>5. PICK a \in Int : a = sum[k - 1]
  <2>1. k - 1 \in 0..m
    BY <1>1
  <2> QED
    BY <1>1, <2>1, SumFacts
<1>6. Rank(sum, i) = a + o
  BY <1>4, <1>5 DEF Rank
<1>7. ASSUME o >= n
      PROVE  Back(i, n) \in Places /\ Rank(sum, Back(i, n)) = Rank(sum, i) - n
  <2>1. Back(i, n) = At(k, o - n)
    <3>1. Back(i, n) = [i EXCEPT !.offset_ = o - n]
      BY <1>4 DEF Back
    <3> QED
      BY <1>3, <3>1 DEF At
  <2>2. CASE n = 0
    <3>1. o - n = o /\ a + o = a + o - n
      BY <2>2
    <3> QED
      BY <1>3, <1>6, <2>1, <3>1
  <2>3. CASE n # 0
    <3>1. k \in 1..m /\ o \in 0..Width(k) /\ o # 0
      BY <1>3, <1>7, <2>3
    <3>2. PICK w \in Nat : w = Width(k)
      BY <1>1, <3>1, EntryFacts
    <3>3. o - n \in 0..w
      BY <1>7, <3>1, <3>2
    <3>4. At(k, o - n) \in Places /\ Rank(sum, At(k, o - n)) = a + (o - n)
      BY <1>1, <1>5, <3>1, <3>2, <3>3, PlacesAre, RankIs
    <3>5. a + (o - n) = a + o - n
      OBVIOUS
    <3> QED
      BY <1>6, <2>1, <3>4, <3>5
  <2> QED
    BY <2>2, <2>3
<1>8. ASSUME k = 1
      PROVE  Rank(sum, i) = o
  <2>1. sum[1 - 1] = 0
    BY SumFacts
  <2>2. 0 + o = o
    OBVIOUS
  <2> QED
    BY <1>5, <1>6, <1>8, <2>1, <2>2
<1>9. ASSUME k # 1
      PROVE  LastOf(k - 1) \in Places /\ Rank(sum, LastOf(k - 1)) = Rank(sum, i) - (o + 1)
  <2>1. k - 1 \in 1..m
    BY <1>9
  <2>2. PICK w \in Nat, b \in Int : w = Width(k - 1) /\ b = sum[k - 1 - 1] /\ sum[k - 1] = b + w + 1
    BY <1>1, <2>1, EntryFacts, SumFacts
  <2>3. LastOf(k - 1) = At(k - 1, w)
    BY <1>1, <2>1, <2>2, EntryFacts DEF At
  <2>4. w \in 0..w
    OBVIOUS
  <2>5. At(k - 1, w) \in Places /\ Rank(sum, At(k - 1, w)) = b + w
    BY <1>1, <2>1, <2>2, <2>4, PlacesAre, RankIs
  <2>6. b + w = b + w + 1 + o - (o + 1)
    OBVIOUS
  <2> QED
    BY <1>5, <1>6, <2>2, <2>3, <2>5, <2>6
<1> QED
  BY <1>1, <1>4, <1>7, <1>8, <1>9

LEMMA MinusIs ==
  ASSUME ~Unsigned, BitmapInv, NEW sum, Counts(sum), NEW diff \in Nat, NEW it \in Places,
         Rank(sum, it) >= diff
  PROVE  Minus(it, diff) \in Places /\ Rank(sum, Minus(it, diff)) = Rank(sum, it) - diff
<1>1. PICK size \in Nat : size = sum[Len(bitmap_)] /\ \A i \in Places : Rank(sum, i) \in 0..size
  BY PlaceRanks
<1>2. ASSUME NEW i \in Places, NEW n \in Nat, ~(i.offset_ >= n), i.iter_ # 1
      PROVE  /\ LastOf(i.iter_ - 1) \in Places
             /\ n - (i.offset_ + 1) \in Nat /\ n - (i.offset_ + 1) < n
             /\ Rank(sum, LastOf(i.iter_ - 1)) - (n - (i.offset_ + 1)) = Rank(sum, i) - n
             /\ Rank(sum, LastOf(i.iter_ - 1)) >= n - (i.offset_ + 1) <=> Rank(sum, i) >= n
  <2>1. PICK o \in Nat, r \in Int : o = i.offset_ /\ r = Rank(sum, i)
    BY <1>1, LeapBack
  <2>2. LastOf(i.iter_ - 1) \in Places /\ Rank(sum, LastOf(i.iter_ - 1)) = r - (o + 1)
    BY <1>2, <2>1, LeapBack
  <2>3. ~(o >= n)
    BY <1>2, <2>1
  <2>4. /\ n - (o + 1) \in Nat /\ n - (o + 1) < n
        /\ r - (o + 1) - (n - (o + 1)) = r - n
        /\ r - (o + 1) >= n - (o + 1) <=> r >= n
    BY <2>3
  <2> QED
    BY <2>1, <2>2, <2>4
<1>3. ASSUME NEW i \in Places, NEW n \in Nat, i.offset_ >= n
      PROVE  Back(i, n) \in Places /\ Rank(sum, Back(i, n)) = Rank(sum, i) - n /\ Rank(sum, i) >= n
  <2>1. Back(i, n) \in Places /\ Rank(sum, Back(i, n)) = Rank(sum, i) - n
    BY <1>3, LeapBack
  <2>2. PICK r \in Int : r = Rank(sum, i) /\ r - n >= 0
    BY <1>1, <2>1
  <2>3. r >= n
    BY <2>2
  <2> QED
    BY <2>1, <2>2, <2>3
<1>4. ASSUME NEW i \in Places, NEW n \in Nat, ~(i.offset_ >= n), i.iter_ = 1
      PROVE  ~(Rank(sum, i) >= n)
  BY <1>4, LeapBack
<1>5. \E f : IsMinus(f, diff)
  <2> DEFINE Leap(i, n) == IF Rank(sum, i) >= n THEN PlaceOf(sum, Rank(sum, i) - n) ELSE begin
             f == [n \in 0..diff |-> [i \in Places |-> Leap(i, n)]]
  <2>1. ASSUME NEW n \in 0..diff, NEW i \in Places
        PROVE  Leap(i, n) = IF i.offset_ >= n THEN Back(i, n)
                            ELSE IF i.iter_ = 1 THEN begin
                                 ELSE f[n - (i.offset_ + 1)][LastOf(i.iter_ - 1)]
    <3>1. CASE i.offset_ >= n
      <4>1. Back(i, n) \in Places /\ Rank(sum, Back(i, n)) = Rank(sum, i) - n /\ Rank(sum, i) >= n
        BY <1>3, <3>1
      <4>2. PlaceOf(sum, Rank(sum, i) - n) = Back(i, n)
        BY <4>1, PlaceOfIs
      <4> QED
        BY <3>1, <4>1, <4>2
    <3>2. CASE ~(i.offset_ >= n) /\ i.iter_ = 1
      BY <1>4, <3>2
    <3>3. CASE ~(i.offset_ >= n) /\ i.iter_ # 1
      <4>1. PICK x \in 0..diff, j \in Places :
              /\ x = n - (i.offset_ + 1) /\ j = LastOf(i.iter_ - 1)
              /\ Rank(sum, j) - x = Rank(sum, i) - n
              /\ Rank(sum, j) >= x <=> Rank(sum, i) >= n
        <5>1. n \in Nat
          OBVIOUS
        <5>2. /\ LastOf(i.iter_ - 1) \in Places
              /\ n - (i.offset_ + 1) \in Nat /\ n - (i.offset_ + 1) < n
              /\ Rank(sum, LastOf(i.iter_ - 1)) - (n - (i.offset_ + 1)) = Rank(sum, i) - n
              /\ Rank(sum, LastOf(i.iter_ - 1)) >= n - (i.offset_ + 1) <=> Rank(sum, i) >= n
          BY <1>2, <3>3, <5>1
        <5>3. n - (i.offset_ + 1) \in 0..diff
          BY <5>2
        <5> QED
          BY <5>2, <5>3
      <4>2. f[x][j] = Leap(j, x)
        OBVIOUS
      <4>3. Leap(j, x) = Leap(i, n)
        BY <4>1
      <4> HIDE DEF Leap, f
      <4> QED
        BY <3>3, <4>1, <4>2, <4>3
    <3> QED
      BY <3>1, <3>2, <3>3
  <2> HIDE DEF Leap
  <2>2. ASSUME NEW n \in 0..diff
        PROVE  f[n] = [i \in Places |-> IF i.offset_ >= n THEN Back(i, n)
                                        ELSE IF i.iter_ = 1 THEN begin
                                             ELSE f[n - (i.offset_ + 1)][LastOf(i.iter_ - 1)]]
    <3>1. f[n] = [i \in Places |-> Leap(i, n)]
      OBVIOUS
    <3> HIDE DEF f
    <3> QED
      BY <2>1, <3>1
  <2>3. f = [n \in 0..diff |-> f[n]]
    OBVIOUS
  <2> HIDE DEF f
  <2>4. f = [n \in 0..diff |->
              [i \in Places |-> IF i.offset_ >= n THEN Back(i, n)
                                ELSE IF i.iter_ = 1 THEN begin
                                     ELSE f[n - (i.offset_ + 1)][LastOf(i.iter_ - 1)]]]
    BY <2>2, <2>3
  <2>5. IsMinus(f, diff)
    BY <2>4 DEF IsMinus
  <2> QED
    BY <2>5
<1>6. PICK f : IsMinus(f, diff) /\ Minus(it, diff) = f[diff][it]
  <2> DEFINE f == CHOOSE g : IsMinus(g, diff)
  <2>1. IsMinus(f, diff)
    BY <1>5
  <2> QED
    BY <2>1, MinusIsRecursive
<1>7. ASSUME NEW n \in 0..diff, NEW i \in Places
      PROVE  f[n][i] = IF i.offset_ >= n THEN Back(i, n)
                       ELSE IF i.iter_ = 1 THEN begin
                            ELSE f[n - (i.offset_ + 1)][LastOf(i.iter_ - 1)]
  <2>1. f[n] = [j \in Places |-> IF j.offset_ >= n THEN Back(j, n)
                                 ELSE IF j.iter_ = 1 THEN begin
                                      ELSE f[n - (j.offset_ + 1)][LastOf(j.iter_ - 1)]]
    <3>1. f = [m \in 0..diff |->
                [j \in Places |-> IF j.offset_ >= m THEN Back(j, m)
                                  ELSE IF j.iter_ = 1 THEN begin
                                       ELSE f[m - (j.offset_ + 1)][LastOf(j.iter_ - 1)]]]
      BY <1>6 DEF IsMinus
    <3> QED
      BY <3>1
  <2> QED
    BY <2>1
<1> DEFINE Right(n) == \A i \in Places : Rank(sum, i) >= n =>
                         f[n][i] \in Places /\ Rank(sum, f[n][i]) = Rank(sum, i) - n
           Bad == {n \in 0..diff : ~Right(n)}
<1>8. Bad = {}
  <2> SUFFICES ASSUME Bad # {} PROVE FALSE
    OBVIOUS
  <2>1. PICK n \in Bad : \A x \in Bad : n <= x
    <3>1. Bad \subseteq Nat
      OBVIOUS
    <3> HIDE DEF Bad
    <3> QED
      BY <3>1, LeastNat
  <2>2. n \in 0..diff /\ n \in Nat /\ ~Right(n)
    OBVIOUS
  <2>3. ASSUME NEW x \in 0..diff, x < n
        PROVE  Right(x)
    <3> HIDE DEF Right
    <3> QED
      BY <2>1, <2>2, <2>3
  <2>4. ASSUME NEW i \in Places, Rank(sum, i) >= n
        PROVE  f[n][i] \in Places /\ Rank(sum, f[n][i]) = Rank(sum, i) - n
    <3>1. CASE i.offset_ >= n
      <4>1. Back(i, n) \in Places /\ Rank(sum, Back(i, n)) = Rank(sum, i) - n
        BY <1>3, <2>2, <3>1
      <4>2. f[n][i] = Back(i, n)
        BY <1>7, <2>2, <3>1
      <4> QED
        BY <4>1, <4>2
    <3>2. CASE ~(i.offset_ >= n) /\ i.iter_ = 1
      BY <1>4, <2>2, <2>4, <3>2
    <3>3. CASE ~(i.offset_ >= n) /\ i.iter_ # 1
      <4>1. PICK x \in 0..diff, j \in Places :
              /\ x = n - (i.offset_ + 1) /\ j = LastOf(i.iter_ - 1) /\ x < n
              /\ Rank(sum, j) - x = Rank(sum, i) - n
              /\ Rank(sum, j) >= x
        <5>1. /\ LastOf(i.iter_ - 1) \in Places
              /\ n - (i.offset_ + 1) \in Nat /\ n - (i.offset_ + 1) < n
              /\ Rank(sum, LastOf(i.iter_ - 1)) - (n - (i.offset_ + 1)) = Rank(sum, i) - n
              /\ Rank(sum, LastOf(i.iter_ - 1)) >= n - (i.offset_ + 1)
          BY <1>2, <2>2, <2>4, <3>3
        <5>2. n - (i.offset_ + 1) \in 0..diff
          BY <2>2, <5>1
        <5> QED
          BY <5>1, <5>2
      <4>2. f[x][j] \in Places /\ Rank(sum, f[x][j]) = Rank(sum, i) - n
        BY <2>3, <4>1
      <4>3. f[n][i] = f[x][j]
        BY <1>7, <2>2, <3>3, <4>1
      <4> QED
        BY <4>2, <4>3
    <3> QED
      BY <3>1, <3>2, <3>3
  <2> QED
    BY <2>2, <2>4
<1>9. Right(diff)
  <2>1. diff \in 0..diff
    OBVIOUS
  <2> HIDE DEF Right
  <2> QED
    BY <1>8, <2>1
<1> QED
  BY <1>6, <1>9

StepFrom == CHOOSE f : IsStep(f)
BackFrom == CHOOSE f : IsBack(f)

LEMMA IteratorsUnfolded ==
  ASSUME \A n \in 0..Cardinality(bits) - 1 :
            /\ Deref(StepFrom[n]) \in bits
            /\ n = Cardinality({b \in bits : b < Deref(StepFrom[n])}),
         StepFrom[Cardinality(bits)] = end_,
         \A n \in 0..Cardinality(bits) : BackFrom[n] = StepFrom[Cardinality(bits) - n],
         \A n \in 0..Cardinality(bits) : \A d \in 0..Cardinality(bits) - n :
            /\ Plus(StepFrom[n], d) = StepFrom[n + d]
            /\ Minus(StepFrom[n + d], d) = StepFrom[n]
  PROVE  IteratorsAgree
BY DEF IteratorsAgree, StepFrom, BackFrom, IsStep, IsBack

LEMMA InvIteratorsAgree == ~Unsigned /\ BitmapInv => IteratorsAgree
<1> SUFFICES ASSUME ~Unsigned, BitmapInv PROVE IteratorsAgree
  OBVIOUS
<1>1. PICK sum : Counts(sum)
  BY CountsExist
<1>2. PICK size \in Nat : size = Cardinality(bits) /\ size = sum[Len(bitmap_)]
  <2>1. Len(bitmap_) \in 0..Len(bitmap_)
    BY EntryFacts
  <2> QED
    BY <1>1, <2>1, PlaceRanks, FirstBitsAreAll DEF Counts
<1>3. \A n \in 0..size : StepFrom[n] \in Places /\ Rank(sum, StepFrom[n]) = n
  <2>1. IsStep(StepFrom)
    BY <1>1, <1>2, StepsAre DEF StepFrom
  <2> QED
    BY <1>1, <1>2, <2>1, StepsAre
<1>4. \A n \in 0..size : BackFrom[n] \in Places /\ Rank(sum, BackFrom[n]) = size - n
  <2>1. IsBack(BackFrom)
    BY <1>1, <1>2, BacksAre DEF BackFrom
  <2> QED
    BY <1>1, <1>2, <2>1, BacksAre
<1>5. ASSUME NEW n \in 0..size - 1
      PROVE  /\ Deref(StepFrom[n]) \in bits
             /\ n = Cardinality({b \in bits : b < Deref(StepFrom[n])})
  <2>1. n \in 0..size /\ n # size
    OBVIOUS
  <2>2. StepFrom[n] \in Places /\ Rank(sum, StepFrom[n]) = n
    BY <1>3, <2>1
  <2>3. StepFrom[n] # end_
    BY <1>1, <1>2, <2>1, <2>2, PlaceRanks
  <2> QED
    BY <1>1, <2>2, <2>3, DerefIs
<1>6. StepFrom[size] = end_
  <2>1. size \in 0..size
    OBVIOUS
  <2> QED
    BY <1>1, <1>2, <1>3, <2>1, PlaceRanks
<1>7. ASSUME NEW n \in 0..size
      PROVE  BackFrom[n] = StepFrom[size - n]
  <2>1. size - n \in 0..size
    OBVIOUS
  <2> QED
    BY <1>1, <1>3, <1>4, <2>1, RanksDiffer
<1>8. ASSUME NEW n \in 0..size, NEW d \in 0..size - n
      PROVE  Plus(StepFrom[n], d) = StepFrom[n + d] /\ Minus(StepFrom[n + d], d) = StepFrom[n]
  <2>1. d \in Nat /\ n + d \in 0..size /\ n + d <= size /\ n + d >= d /\ n + d - d = n
    OBVIOUS
  <2>2. PICK near \in Places, far \in Places :
          near = StepFrom[n] /\ far = StepFrom[n + d] /\ Rank(sum, near) = n /\ Rank(sum, far) = n + d
    BY <1>3, <2>1
  <2>3. Plus(near, d) \in Places /\ Rank(sum, Plus(near, d)) = n + d
    BY <1>1, <1>2, <2>1, <2>2, PlusIs
  <2>4. Minus(far, d) \in Places /\ Rank(sum, Minus(far, d)) = n
    BY <1>1, <2>1, <2>2, MinusIs
  <2>5. Plus(near, d) = far
    BY <1>1, <2>2, <2>3, RanksDiffer
  <2>6. Minus(far, d) = near
    BY <1>1, <2>2, <2>4, RanksDiffer
  <2> QED
    BY <2>2, <2>5, <2>6
<1> QED
  BY <1>2, <1>5, <1>6, <1>7, <1>8, IteratorsUnfolded

(* The ranges stand for the bits that were set and not cleared, neither    *)
(* overlap nor touch, and is_set(), num_contiguous(), num_set() and the    *)
(* iterators, stepping and leaping, give the answers of the set of those   *)
(* bits: for a signed type and any bounds, if clear() splits no range.     *)
THEOREM BitmapIsItsSet == BitmapSpec /\ ~Unsigned /\ ~Splits => []BitmapIsSet
<1> SUFFICES ASSUME ~Unsigned, ~Splits PROVE BitmapSpec => []BitmapIsSet
  OBVIOUS
<1>1. BitmapInit => BitmapInv
  BY InitHoldsBitmapInv
<1>2. BitmapInv /\ [BitmapNext]_bitmapVars => BitmapInv'
  BY NextKeepsBitmapInv
<1>3. BitmapInv => BitmapIsSet
  BY InvStandsForBits, InvQueriesAgree, InvIteratorsAgree DEF BitmapIsSet
<1> QED
  BY <1>1, <1>2, <1>3, PTL DEF BitmapSpec
=============================================================================
