------------------------- MODULE DurableTableProofs -------------------------
(***************************************************************************)
(* For any keys, objects, sizes, capacity and threads: the cache's map,    *)
(* LRU list, live flags and size agree, it is over capacity only by live   *)
(* objects, and whoever was given an object has it live.  And if threads   *)
(* keep to one user of a key at a time, no assertion fails and what the    *)
(* cache has is stored.                                                    *)
(***************************************************************************)
EXTENDS DurableTable, SequenceTheorems, FiniteSetTheorems, WellFoundedInduction, TLAPS

LEMMA LeastNat ==
  ASSUME NEW T, T \subseteq Nat, T # {}
  PROVE  \E n \in T : \A m \in T : n <= m
<1>1. PICK n \in T : \A m \in T : ~(<<m, n>> \in OpToRel(<, Nat))
  BY NatLessThanWellFounded, WFMin
<1>2. \A m \in T : ~(m < n)
  BY <1>1 DEF OpToRel
<1> QED
  BY <1>2

-----------------------------------------------------------------------------
(* Sums.  SizeOf is a fold, and so a recursive function on the subsets of  *)
(* a set: that there is one, and that it does not depend on the order, is  *)
(* shown by taking a smallest counterexample.                              *)
SizeIn(c, keys) == MapThenSumSet(LAMBDA k : Size[c[k]], keys)
AnyOf(s) == CHOOSE x \in s : TRUE
IsIter(g, c, S) ==
  g = [s \in SUBSET S |-> IF s = {} THEN 0 ELSE Size[c[AnyOf(s)]] + g[s \ {AnyOf(s)}]]

LEMMA SizeInIsIter ==
  ASSUME NEW c, NEW S PROVE SizeIn(c, S) = (CHOOSE g : IsIter(g, c, S))[S]
BY DEF SizeIn, MapThenSumSet, MapThenFoldSet, IsIter, AnyOf

(* The recursion on the sets of at most n elements.                        *)
UpTo(n, S) == {s \in SUBSET S : Cardinality(s) <= n}
IsIterUpTo(g, c, S, n) ==
  g = [s \in UpTo(n, S) |-> IF s = {} THEN 0 ELSE Size[c[AnyOf(s)]] + g[s \ {AnyOf(s)}]]

LEMMA OneLess ==
  ASSUME NEW s, IsFiniteSet(s), s # {}
  PROVE  /\ AnyOf(s) \in s
         /\ \A x \in s : /\ IsFiniteSet(s \ {x}) /\ Cardinality(s) \in Nat
                         /\ Cardinality(s \ {x}) = Cardinality(s) - 1 /\ Cardinality(s) > 0
<1>1. AnyOf(s) \in s
  BY DEF AnyOf
<1>2. ASSUME NEW x \in s
      PROVE  /\ IsFiniteSet(s \ {x}) /\ Cardinality(s) \in Nat /\ Cardinality(s \ {x}) \in Nat
             /\ Cardinality(s \ {x}) = Cardinality(s) - 1
  BY FS_RemoveElement, FS_CardinalityType
<1> QED
  BY <1>1, <1>2

LEMMA IterUpToExists ==
  ASSUME NEW c, NEW S, IsFiniteSet(S), NEW n \in Nat
  PROVE  \E g : IsIterUpTo(g, c, S, n)
<1> DEFINE Bad == {m \in Nat : ~\E g : IsIterUpTo(g, c, S, m)}
<1> SUFFICES ASSUME Bad # {} PROVE FALSE
  OBVIOUS
<1>1. PICK m \in Bad : \A i \in Bad : m <= i
  <2> HIDE DEF Bad
  <2>1. Bad \subseteq Nat
    BY DEF Bad
  <2> QED
    BY <2>1, LeastNat
<1>2. \A s \in SUBSET S : IsFiniteSet(s) /\ Cardinality(s) \in Nat
  BY FS_Subset, FS_CardinalityType
<1>3. m # 0
  <2> SUFFICES \E g : IsIterUpTo(g, c, S, 0)
    BY <1>1
  <2> DEFINE g == [s \in UpTo(0, S) |-> 0]
  <2>1. \A s \in UpTo(0, S) : s = {}
    BY <1>2, FS_EmptySet DEF UpTo
  <2>2. IsIterUpTo(g, c, S, 0)
    BY <2>1 DEF IsIterUpTo
  <2> QED
    BY <2>2
<1>4. m - 1 \in Nat /\ m - 1 \notin Bad
  BY <1>1, <1>3
<1>5. PICK f : IsIterUpTo(f, c, S, m - 1)
  BY <1>4
<1> DEFINE g == [s \in UpTo(m, S) |-> IF s = {} THEN 0 ELSE Size[c[AnyOf(s)]] + f[s \ {AnyOf(s)}]]
<1>6. ASSUME NEW s \in UpTo(m, S), s # {}
      PROVE  s \ {AnyOf(s)} \in UpTo(m - 1, S) /\ s \ {AnyOf(s)} \in UpTo(m, S)
  <2>1. s \in SUBSET S /\ Cardinality(s) <= m
    BY DEF UpTo
  <2>2. Cardinality(s \ {AnyOf(s)}) = Cardinality(s) - 1 /\ s \ {AnyOf(s)} \in SUBSET S
    BY <1>2, <1>6, <2>1, OneLess
  <2>3. Cardinality(s \ {AnyOf(s)}) <= m - 1 /\ Cardinality(s \ {AnyOf(s)}) <= m
    BY <1>1, <1>2, <2>1, <2>2
  <2> QED
    BY <2>2, <2>3 DEF UpTo
<1>7. \A s \in UpTo(m - 1, S) : s \in UpTo(m, S) /\ g[s] = f[s]
  <2>1. \A s \in UpTo(m - 1, S) : s \in UpTo(m, S)
    BY <1>1, <1>2 DEF UpTo
  <2>2. \A s \in UpTo(m - 1, S) : f[s] = IF s = {} THEN 0 ELSE Size[c[AnyOf(s)]] + f[s \ {AnyOf(s)}]
    BY <1>5 DEF IsIterUpTo
  <2> QED
    BY <2>1, <2>2
<1>8. IsIterUpTo(g, c, S, m)
  <2>1. \A s \in UpTo(m, S) : s # {} => g[s \ {AnyOf(s)}] = f[s \ {AnyOf(s)}]
    BY <1>6, <1>7
  <2> QED
    BY <2>1 DEF IsIterUpTo
<1> QED
  BY <1>1, <1>8

LEMMA IterExists ==
  ASSUME NEW c, NEW S, IsFiniteSet(S) PROVE \E g : IsIter(g, c, S)
<1>1. Cardinality(S) \in Nat /\ \A s \in SUBSET S : Cardinality(s) <= Cardinality(S)
  BY FS_Subset, FS_CardinalityType
<1>2. UpTo(Cardinality(S), S) = SUBSET S
  BY <1>1 DEF UpTo
<1>3. PICK g : IsIterUpTo(g, c, S, Cardinality(S))
  BY <1>1, IterUpToExists
<1>4. IsIter(g, c, S)
  BY <1>2, <1>3 DEF IsIterUpTo, IsIter
<1> QED
  BY <1>4

LEMMA IterAgree ==
  ASSUME NEW c, NEW S, NEW g, IsIter(g, c, S),
         NEW d, NEW T, NEW h, IsIter(h, d, T),
         NEW U, U \subseteq S, U \subseteq T, IsFiniteSet(U),
         \A x \in U : Size[c[x]] = Size[d[x]]
  PROVE  g[U] = h[U]
<1> DEFINE Bad == {s \in SUBSET U : g[s] # h[s]}
           N == {Cardinality(s) : s \in Bad}
<1> SUFFICES ASSUME Bad # {} PROVE FALSE
  OBVIOUS
<1>1. \A s \in SUBSET U : IsFiniteSet(s) /\ Cardinality(s) \in Nat
  BY FS_Subset, FS_CardinalityType
<1>2. N \subseteq Nat /\ N # {}
  BY <1>1
<1>3. PICK n \in N : \A m \in N : n <= m
  <2> HIDE DEF N
  <2> QED
    BY <1>2, LeastNat
<1>4. PICK s \in Bad : Cardinality(s) = n
  OBVIOUS
<1>5. s \in SUBSET U /\ g[s] # h[s]
  OBVIOUS
<1>6. /\ g[s] = IF s = {} THEN 0 ELSE Size[c[AnyOf(s)]] + g[s \ {AnyOf(s)}]
      /\ h[s] = IF s = {} THEN 0 ELSE Size[d[AnyOf(s)]] + h[s \ {AnyOf(s)}]
  BY <1>5 DEF IsIter
<1>7. s # {}
  BY <1>5, <1>6
<1>8. AnyOf(s) \in s /\ Cardinality(s \ {AnyOf(s)}) = Cardinality(s) - 1 /\ Cardinality(s) \in Nat
  BY <1>1, <1>5, <1>7, OneLess
<1>9. s \ {AnyOf(s)} \notin Bad
  <2>1. ~(n <= Cardinality(s \ {AnyOf(s)}))
    BY <1>4, <1>8
  <2> QED
    BY <1>3, <2>1
<1>10. g[s \ {AnyOf(s)}] = h[s \ {AnyOf(s)}]
  BY <1>5, <1>9
<1> QED
  BY <1>5, <1>6, <1>7, <1>8, <1>10

LEMMA SizeInAgree ==
  ASSUME NEW c, NEW d, NEW S, IsFiniteSet(S), \A x \in S : Size[c[x]] = Size[d[x]]
  PROVE  SizeIn(c, S) = SizeIn(d, S)
<1>1. IsIter(CHOOSE g : IsIter(g, c, S), c, S) /\ IsIter(CHOOSE g : IsIter(g, d, S), d, S)
  BY IterExists
<1> QED
  BY <1>1, SizeInIsIter, IterAgree

LEMMA SizeInEmpty == ASSUME NEW c PROVE SizeIn(c, {}) = 0
<1>1. IsFiniteSet({})
  BY FS_EmptySet
<1>2. PICK g : IsIter(g, c, {}) /\ SizeIn(c, {}) = g[{}]
  BY <1>1, IterExists, SizeInIsIter
<1> QED
  BY <1>2 DEF IsIter

LEMMA SizeInFirst ==
  ASSUME NEW c, NEW S, IsFiniteSet(S), S # {}
  PROVE  SizeIn(c, S) = Size[c[AnyOf(S)]] + SizeIn(c, S \ {AnyOf(S)})
<1> DEFINE T == S \ {AnyOf(S)}
<1>1. IsFiniteSet(T)
  BY OneLess
<1>2. PICK g : IsIter(g, c, S) /\ SizeIn(c, S) = g[S]
  BY IterExists, SizeInIsIter
<1>3. PICK h : IsIter(h, c, T) /\ SizeIn(c, T) = h[T]
  BY <1>1, IterExists, SizeInIsIter
<1>4. g[T] = h[T]
  <2> HIDE DEF T
  <2>1. T \subseteq S
    BY DEF T
  <2> QED
    BY <1>1, <1>2, <1>3, <2>1, IterAgree
<1>5. g[S] = Size[c[AnyOf(S)]] + g[T]
  <2>1. S \in SUBSET S
    OBVIOUS
  <2> QED
    BY <1>2, <2>1 DEF IsIter
<1> QED
  BY <1>2, <1>3, <1>4, <1>5

(* The objects of the keys in S have sizes.                                *)
Sized(c, S) == IsFiniteSet(S) /\ \A k \in S : Size[c[k]] \in Nat

LEMMA SizedLess ==
  ASSUME NEW c, NEW S, Sized(c, S), NEW T, T \subseteq S
  PROVE  Sized(c, T) /\ Cardinality(T) \in Nat /\ Cardinality(T) <= Cardinality(S)
BY FS_Subset, FS_CardinalityType DEF Sized

LEMMA SizeInNat ==
  ASSUME NEW c, NEW S, Sized(c, S)
  PROVE  SizeIn(c, S) \in Nat
<1> DEFINE Bad == {s \in SUBSET S : SizeIn(c, s) \notin Nat}
           N == {Cardinality(s) : s \in Bad}
<1> SUFFICES ASSUME Bad # {} PROVE FALSE
  OBVIOUS
<1>1. \A s \in SUBSET S : Sized(c, s) /\ IsFiniteSet(s) /\ Cardinality(s) \in Nat
  BY SizedLess DEF Sized
<1>2. N \subseteq Nat /\ N # {}
  BY <1>1
<1>3. PICK n \in N : \A m \in N : n <= m
  <2> HIDE DEF N
  <2> QED
    BY <1>2, LeastNat
<1>4. PICK s \in Bad : Cardinality(s) = n
  OBVIOUS
<1>5. s \in SUBSET S /\ SizeIn(c, s) \notin Nat
  OBVIOUS
<1>6. s # {}
  BY <1>5, SizeInEmpty
<1>7. AnyOf(s) \in s /\ Cardinality(s \ {AnyOf(s)}) = Cardinality(s) - 1 /\ Cardinality(s) \in Nat
  BY <1>1, <1>5, <1>6, OneLess
<1>8. s \ {AnyOf(s)} \notin Bad
  <2>1. ~(n <= Cardinality(s \ {AnyOf(s)}))
    BY <1>4, <1>7
  <2> QED
    BY <1>3, <2>1
<1>9. SizeIn(c, s \ {AnyOf(s)}) \in Nat /\ Size[c[AnyOf(s)]] \in Nat
  BY <1>1, <1>5, <1>7, <1>8 DEF Sized
<1>10. SizeIn(c, s) = Size[c[AnyOf(s)]] + SizeIn(c, s \ {AnyOf(s)})
  BY <1>1, <1>5, <1>6, SizeInFirst
<1> QED
  BY <1>5, <1>9, <1>10

LEMMA SizeInMinus ==
  ASSUME NEW c, NEW S, Sized(c, S), NEW k \in S
  PROVE  SizeIn(c, S) = Size[c[k]] + SizeIn(c, S \ {k})
<1> DEFINE Good(s) == \A x \in s : SizeIn(c, s) = Size[c[x]] + SizeIn(c, s \ {x})
           Bad == {s \in SUBSET S : ~Good(s)}
           N == {Cardinality(s) : s \in Bad}
<1> SUFFICES ASSUME Bad # {} PROVE FALSE
  OBVIOUS
<1>1. \A s \in SUBSET S : Sized(c, s) /\ IsFiniteSet(s) /\ Cardinality(s) \in Nat
  BY SizedLess DEF Sized
<1>2. N \subseteq Nat /\ N # {}
  BY <1>1
<1>3. PICK n \in N : \A m \in N : n <= m
  <2> HIDE DEF N
  <2> QED
    BY <1>2, LeastNat
<1>4. PICK s \in Bad : Cardinality(s) = n
  OBVIOUS
<1>5. s \in SUBSET S /\ ~Good(s)
  OBVIOUS
<1>6. PICK x \in s : SizeIn(c, s) # Size[c[x]] + SizeIn(c, s \ {x})
  BY <1>5
<1> DEFINE y == AnyOf(s)
<1>7. y \in s /\ SizeIn(c, s) = Size[c[y]] + SizeIn(c, s \ {y})
  BY <1>1, <1>5, <1>6, SizeInFirst, OneLess
<1>8. x # y
  BY <1>6, <1>7
<1>9. \A z \in s : Good(s \ {z})
  <2> SUFFICES ASSUME NEW z \in s PROVE s \ {z} \notin Bad
    BY <1>5
  <2>1. Cardinality(s \ {z}) = Cardinality(s) - 1 /\ Cardinality(s) \in Nat
    BY <1>1, <1>5, OneLess
  <2>2. ~(n <= Cardinality(s \ {z}))
    BY <1>4, <2>1
  <2> QED
    BY <1>3, <2>2
<1> HIDE DEF y
<1>10. /\ SizeIn(c, s \ {y}) = Size[c[x]] + SizeIn(c, (s \ {y}) \ {x})
       /\ SizeIn(c, s \ {x}) = Size[c[y]] + SizeIn(c, (s \ {x}) \ {y})
  BY <1>7, <1>8, <1>9
<1>11. (s \ {y}) \ {x} = (s \ {x}) \ {y} /\ (s \ {x}) \ {y} \in SUBSET S
  BY <1>5
<1>12. /\ SizeIn(c, (s \ {x}) \ {y}) \in Nat
       /\ Size[c[x]] \in Nat /\ Size[c[y]] \in Nat
  BY <1>1, <1>5, <1>7, <1>11, SizeInNat DEF Sized
<1> QED
  BY <1>6, <1>7, <1>10, <1>11, <1>12

LEMMA SizeInSplit ==
  ASSUME NEW c, NEW S, Sized(c, S), NEW A, A \subseteq S
  PROVE  SizeIn(c, S) = SizeIn(c, A) + SizeIn(c, S \ A)
<1> DEFINE Good(s) == SizeIn(c, S) = SizeIn(c, s) + SizeIn(c, S \ s)
           Bad == {s \in SUBSET S : ~Good(s)}
           N == {Cardinality(s) : s \in Bad}
<1> SUFFICES ASSUME Bad # {} PROVE FALSE
  OBVIOUS
<1>1. \A s \in SUBSET S : Sized(c, s) /\ IsFiniteSet(s) /\ Cardinality(s) \in Nat
  BY SizedLess DEF Sized
<1>2. N \subseteq Nat /\ N # {}
  BY <1>1
<1>3. PICK n \in N : \A m \in N : n <= m
  <2> HIDE DEF N
  <2> QED
    BY <1>2, LeastNat
<1>4. PICK s \in Bad : Cardinality(s) = n
  OBVIOUS
<1>5. s \in SUBSET S /\ ~Good(s)
  OBVIOUS
<1>6. s # {}
  <2>1. S \ {} = S
    OBVIOUS
  <2>2. Good({})
    BY <2>1, SizeInEmpty, SizeInNat
  <2> QED
    BY <1>5, <2>2
<1>7. PICK x \in s : TRUE
  BY <1>6
<1>8. Good(s \ {x})
  <2>1. Cardinality(s \ {x}) = Cardinality(s) - 1 /\ Cardinality(s) \in Nat
    BY <1>1, <1>5, <1>6, OneLess
  <2>2. ~(n <= Cardinality(s \ {x}))
    BY <1>4, <2>1
  <2>3. s \ {x} \notin Bad
    BY <1>3, <2>2
  <2> QED
    BY <1>5, <2>3
<1>9. SizeIn(c, s) = Size[c[x]] + SizeIn(c, s \ {x})
  BY <1>1, <1>5, <1>7, SizeInMinus
<1>10. SizeIn(c, S \ (s \ {x})) = Size[c[x]] + SizeIn(c, S \ s)
  <2>1. x \in S \ (s \ {x}) /\ (S \ (s \ {x})) \ {x} = S \ s
    BY <1>5, <1>7
  <2>2. Sized(c, S \ (s \ {x}))
    BY <1>1
  <2> QED
    BY <2>1, <2>2, SizeInMinus
<1>11. /\ SizeIn(c, s \ {x}) \in Nat /\ SizeIn(c, S \ s) \in Nat /\ Size[c[x]] \in Nat
  BY <1>1, <1>5, <1>7, SizeInNat DEF Sized
<1> QED
  BY <1>5, <1>8, <1>9, <1>10, <1>11

-----------------------------------------------------------------------------
(* What the cache keeps of a map when keys leave it, and a new one comes.  *)
In(c) == {k \in Keys : c[k] # NoObject}
Maps == [Keys -> Objects \cup {NoObject}]
Less(c, keys) == [k \in Keys |-> IF k \in keys THEN NoObject ELSE c[k]]

LEMMA MapSized ==
  ASSUME NEW c \in Maps, IsFiniteSet(In(c)), NEW keys, keys \subseteq In(c)
  PROVE  Sized(c, keys) /\ IsFiniteSet(keys) /\ SizeIn(c, keys) \in Nat
<1>1. IsFiniteSet(keys)
  BY FS_Subset
<1>2. \A k \in keys : Size[c[k]] \in Nat
  BY DurableObjectCacheAssumption DEF In, Maps
<1>3. Sized(c, keys)
  BY <1>1, <1>2 DEF Sized
<1> QED
  BY <1>1, <1>3, SizeInNat

LEMMA LessFacts ==
  ASSUME NEW c \in Maps, IsFiniteSet(In(c)), NEW keys, keys \subseteq In(c)
  PROVE  /\ Less(c, keys) \in Maps /\ In(Less(c, keys)) = In(c) \ keys
         /\ IsFiniteSet(In(c) \ keys)
         /\ SizeIn(Less(c, keys), In(c) \ keys) = SizeIn(c, In(c)) - SizeIn(c, keys)
         /\ SizeIn(Less(c, keys), In(c) \ keys) \in Nat
         /\ Cardinality(In(c) \ keys) \in Nat /\ Cardinality(In(c)) \in Nat
         /\ Cardinality(In(c) \ keys) <= Cardinality(In(c))
<1>1. Less(c, keys) \in Maps
  BY DEF Less, Maps
<1>2. In(Less(c, keys)) = In(c) \ keys
  BY DEF Less, In
<1>3. /\ Sized(c, In(c)) /\ Sized(c, keys) /\ Sized(c, In(c) \ keys) /\ IsFiniteSet(In(c) \ keys)
      /\ SizeIn(c, In(c)) \in Nat /\ SizeIn(c, keys) \in Nat /\ SizeIn(c, In(c) \ keys) \in Nat
  BY MapSized
<1>4. SizeIn(c, In(c)) = SizeIn(c, keys) + SizeIn(c, In(c) \ keys)
  BY <1>3, SizeInSplit
<1>5. SizeIn(Less(c, keys), In(c) \ keys) = SizeIn(c, In(c) \ keys)
  <2>1. \A k \in In(c) \ keys : Less(c, keys)[k] = c[k]
    BY DEF Less, In
  <2> QED
    BY <1>3, <2>1, SizeInAgree
<1>6. /\ Cardinality(In(c) \ keys) \in Nat /\ Cardinality(In(c)) \in Nat
      /\ Cardinality(In(c) \ keys) <= Cardinality(In(c))
  BY FS_Subset, FS_CardinalityType
<1> QED
  BY <1>1, <1>2, <1>3, <1>4, <1>5, <1>6

LEMMA MoreFacts ==
  ASSUME NEW c \in Maps, IsFiniteSet(In(c)), NEW k \in Keys \ In(c), NEW o \in Objects
  PROVE  LET d == [c EXCEPT ![k] = o]
         IN  /\ d \in Maps /\ In(d) = In(c) \cup {k} /\ IsFiniteSet(In(c) \cup {k})
             /\ SizeIn(d, In(c) \cup {k}) = SizeIn(c, In(c)) + Size[o]
             /\ Cardinality(In(c) \cup {k}) = Cardinality(In(c)) + 1
<1> DEFINE d == [c EXCEPT ![k] = o]
<1>1. d \in Maps /\ d[k] = o
  BY DEF Maps
<1>2. In(d) = In(c) \cup {k}
  BY DurableObjectCacheAssumption DEF In, Maps
<1>3. IsFiniteSet(In(d)) /\ Cardinality(In(d)) = Cardinality(In(c)) + 1
  BY <1>2, FS_AddElement
<1>4. \A j \in In(c) : d[j] = c[j]
  BY DEF In, Maps
<1> HIDE DEF d
<1>5. In(d) \ {k} = In(c) /\ k \in In(d)
  BY <1>2
<1>6. SizeIn(d, In(d)) = Size[d[k]] + SizeIn(d, In(c))
  <2>1. Sized(d, In(d))
    BY <1>1, <1>3, MapSized
  <2> QED
    BY <1>5, <2>1, SizeInMinus
<1>7. SizeIn(d, In(c)) = SizeIn(c, In(c))
  BY <1>4, SizeInAgree
<1>8. SizeIn(c, In(c)) \in Nat /\ Size[o] \in Nat
  BY MapSized, DurableObjectCacheAssumption
<1>9. /\ d \in Maps /\ In(d) = In(c) \cup {k} /\ IsFiniteSet(In(c) \cup {k})
      /\ SizeIn(d, In(c) \cup {k}) = SizeIn(c, In(c)) + Size[o]
      /\ Cardinality(In(c) \cup {k}) = Cardinality(In(c)) + 1
  BY <1>1, <1>2, <1>3, <1>6, <1>7, <1>8
<1> QED
  BY <1>9 DEF d

-----------------------------------------------------------------------------
(* The LRU list.                                                           *)
LEMMA SeqFacts ==
  ASSUME NEW S, NEW s \in Seq(S)
  PROVE  /\ Len(s) \in Nat /\ DOMAIN s = 1..Len(s)
         /\ ToSet(s) = {s[i] : i \in 1..Len(s)} /\ ToSet(s) \subseteq S
BY LenProperties, ElementOfSeq DEF ToSet

LEMMA AppendFacts ==
  ASSUME NEW S, NEW s \in Seq(S), IsInjective(s), NEW x \in S, x \notin ToSet(s)
  PROVE  LET t == Append(s, x)
         IN  t \in Seq(S) /\ ToSet(t) = ToSet(s) \cup {x} /\ IsInjective(t) /\ t # <<>>
<1> DEFINE t == Append(s, x)
<1>1. /\ t \in Seq(S) /\ Len(t) = Len(s) + 1 /\ Len(s) \in Nat
      /\ \A i \in 1..Len(s) : t[i] = s[i]
      /\ t[Len(s) + 1] = x
      /\ DOMAIN s = 1..Len(s) /\ DOMAIN t = 1..Len(s) + 1
  BY AppendProperties, LenProperties
<1> HIDE DEF t
<1>2. \A i \in 1..Len(s) + 1 : i \in 1..Len(s) \/ i = Len(s) + 1
  BY <1>1
<1>3. 1..Len(s) \subseteq 1..Len(s) + 1 /\ Len(s) + 1 \in 1..Len(s) + 1
  BY <1>1
<1>4. \A y : y \in ToSet(t) <=> y \in ToSet(s) \cup {x}
  BY <1>1, <1>2, <1>3 DEF ToSet
<1>5. IsInjective(t)
  <2>1. \A i \in 1..Len(s) : s[i] # x
    BY <1>1 DEF ToSet
  <2> QED
    BY <1>1, <1>2, <2>1 DEF IsInjective
<1> QED
  BY <1>1, <1>3, <1>4, <1>5, EmptySeq DEF t

(* The list without its first n keys: the first is taken by evict_last.    *)
LEMMA DropFacts ==
  ASSUME NEW S, NEW s \in Seq(S), IsInjective(s), NEW n \in 0..Len(s)
  PROVE  LET t == SubSeq(s, n + 1, Len(s))
         IN  /\ t \in Seq(S) /\ ToSet(t) = ToSet(s) \ {s[i] : i \in 1..n}
             /\ IsInjective(t) /\ {s[i] : i \in 1..n} \subseteq ToSet(s)
<1> DEFINE t == SubSeq(s, n + 1, Len(s))
<1>1. Len(s) \in Nat /\ DOMAIN s = 1..Len(s) /\ \A i \in 1..Len(s) : s[i] \in S
  BY LenProperties, ElementOfSeq
<1>2. \A i \in n + 1..Len(s) : s[i] \in S
  BY <1>1
<1>3. t \in Seq(S) /\ Len(t) = Len(s) - n /\ \A i \in 1..Len(s) - n : t[i] = s[n + i]
  <2>1. n + 1 \in Int /\ Len(s) \in Int
    BY <1>1
  <2>2. /\ t \in Seq(S) /\ Len(t) = IF n + 1 <= Len(s) THEN Len(s) - (n + 1) + 1 ELSE 0
        /\ \A i \in 1..Len(s) - (n + 1) + 1 : t[i] = s[(n + 1) + i - 1]
    BY <1>2, <2>1, SubSeqProperties
  <2>3. Len(s) - (n + 1) + 1 = Len(s) - n /\ \A i \in 1..Len(s) - n : (n + 1) + i - 1 = n + i
    BY <1>1
  <2> HIDE DEF t
  <2>4. n \in Nat /\ Len(s) \in Nat /\ n <= Len(s)
    BY <1>1
  <2>5. Len(t) = Len(s) - n
    <3>1. CASE n + 1 <= Len(s)
      BY <2>2, <2>3, <3>1
    <3>2. CASE ~(n + 1 <= Len(s))
      <4>1. Len(s) - n = 0
        BY <2>4, <3>2
      <4> QED
        BY <2>2, <3>2, <4>1
    <3> QED
      BY <3>1, <3>2
  <2> QED
    BY <2>2, <2>3, <2>5
<1>4. DOMAIN t = 1..Len(s) - n
  BY <1>3, LenProperties
<1> HIDE DEF t
<1>5. /\ \A i \in 1..Len(s) - n : n + i \in 1..Len(s) /\ n + i \notin 1..n
      /\ \A i \in 1..Len(s) : i \in 1..n \/ (i - n \in 1..Len(s) - n /\ n + (i - n) = i)
      /\ 1..n \subseteq 1..Len(s)
  BY <1>1
<1>6. {s[i] : i \in 1..n} \subseteq ToSet(s)
  BY <1>1, <1>5 DEF ToSet
<1>7. \A y : y \in ToSet(t) <=> y \in ToSet(s) \ {s[i] : i \in 1..n}
  <2>1. ASSUME NEW i \in 1..Len(s) - n PROVE t[i] \in ToSet(s) \ {s[j] : j \in 1..n}
    <3>1. t[i] = s[n + i] /\ n + i \in 1..Len(s) /\ n + i \notin 1..n
      BY <1>3, <1>5
    <3>2. \A j \in 1..n : s[j] # s[n + i]
      BY <1>1, <1>5, <3>1 DEF IsInjective
    <3> QED
      BY <1>1, <3>1, <3>2 DEF ToSet
  <2>2. ASSUME NEW i \in 1..Len(s), s[i] \notin {s[j] : j \in 1..n} PROVE s[i] \in ToSet(t)
    <3>1. i - n \in 1..Len(s) - n /\ n + (i - n) = i
      BY <1>5, <2>2
    <3>2. t[i - n] = s[i]
      BY <1>3, <3>1
    <3> QED
      BY <1>4, <3>1, <3>2 DEF ToSet
  <2> QED
    BY <1>1, <1>4, <2>1, <2>2 DEF ToSet
<1>8. IsInjective(t)
  <2> SUFFICES ASSUME NEW i \in 1..Len(s) - n, NEW j \in 1..Len(s) - n, t[i] = t[j] PROVE i = j
    BY <1>4 DEF IsInjective
  <2>1. n + i = n + j
    BY <1>1, <1>3, <1>5 DEF IsInjective
  <2> QED
    BY <1>1, <2>1
<1> QED
  BY <1>3, <1>6, <1>7, <1>8 DEF t

LEMMA TailFacts ==
  ASSUME NEW S, NEW s \in Seq(S), IsInjective(s), s # <<>>
  PROVE  /\ Tail(s) \in Seq(S) /\ Head(s) \in ToSet(s)
         /\ ToSet(Tail(s)) = ToSet(s) \ {Head(s)} /\ IsInjective(Tail(s))
<1>1. /\ Tail(s) \in Seq(S) /\ Len(s) \in Nat \ {0} /\ Head(s) = s[1]
      /\ \A i \in 1..Len(s) - 1 : Tail(s)[i] = s[i + 1]
      /\ DOMAIN s = 1..Len(s) /\ DOMAIN Tail(s) = 1..Len(s) - 1
  BY HeadTailProperties, LenProperties, EmptySeq
<1>2. /\ \A i \in 1..Len(s) : i = 1 \/ (i - 1 \in 1..Len(s) - 1 /\ (i - 1) + 1 = i)
      /\ \A i \in 1..Len(s) - 1 : i + 1 \in 1..Len(s) /\ i + 1 # 1
      /\ 1 \in 1..Len(s)
  BY <1>1
<1>3. \A y : y \in ToSet(Tail(s)) <=> y \in ToSet(s) \ {Head(s)}
  <2>1. ASSUME NEW i \in 1..Len(s) - 1 PROVE Tail(s)[i] \in ToSet(s) \ {Head(s)}
    BY <1>1, <1>2 DEF ToSet, IsInjective
  <2>2. ASSUME NEW i \in 1..Len(s), i # 1 PROVE s[i] \in ToSet(Tail(s))
    <3>1. i - 1 \in 1..Len(s) - 1 /\ Tail(s)[i - 1] = s[i]
      BY <1>1, <1>2, <2>2
    <3> QED
      BY <1>1, <3>1 DEF ToSet
  <2> QED
    BY <1>1, <2>1, <2>2 DEF ToSet
<1>4. IsInjective(Tail(s))
  <2> SUFFICES ASSUME NEW i \in 1..Len(s) - 1, NEW j \in 1..Len(s) - 1, Tail(s)[i] = Tail(s)[j]
               PROVE  i = j
    BY <1>1 DEF IsInjective
  <2>1. i + 1 = j + 1
    BY <1>1, <1>2 DEF IsInjective
  <2> QED
    BY <1>1, <2>1
<1>5. Head(s) \in ToSet(s)
  BY <1>1, <1>2 DEF ToSet
<1> QED
  BY <1>1, <1>3, <1>4, <1>5

LEMMA RemoveAtFacts ==
  ASSUME NEW S, NEW s \in Seq(S), IsInjective(s), NEW k \in 1..Len(s)
  PROVE  LET t == RemoveAt(s, k)
         IN  t \in Seq(S) /\ ToSet(t) = ToSet(s) \ {s[k]} /\ IsInjective(t)
<1> DEFINE t == RemoveAt(s, k)
           a == SubSeq(s, 1, k - 1)
           b == SubSeq(s, k + 1, Len(s))
<1>1. Len(s) \in Nat /\ DOMAIN s = 1..Len(s) /\ \A i \in 1..Len(s) : s[i] \in S
  BY LenProperties, ElementOfSeq
<1>2. a \in Seq(S) /\ Len(a) = k - 1 /\ \A i \in 1..k - 1 : a[i] = s[i]
  <2>1. \A i \in 1..k - 1 : s[i] \in S
    BY <1>1
  <2> QED
    BY <1>1, <2>1, SubSeqProperties
<1>3. b \in Seq(S) /\ Len(b) = Len(s) - k /\ \A i \in 1..Len(s) - k : b[i] = s[k + i]
  <2>1. \A i \in k + 1..Len(s) : s[i] \in S
    BY <1>1
  <2>2. /\ b \in Seq(S) /\ Len(b) = IF k + 1 <= Len(s) THEN Len(s) - (k + 1) + 1 ELSE 0
        /\ \A i \in 1..Len(s) - (k + 1) + 1 : b[i] = s[(k + 1) + i - 1]
    BY <1>1, <2>1, SubSeqProperties
  <2>3. Len(s) - (k + 1) + 1 = Len(s) - k /\ \A i \in 1..Len(s) - k : (k + 1) + i - 1 = k + i
    BY <1>1
  <2> HIDE DEF a, b
  <2>4. Len(b) = Len(s) - k
    <3>1. CASE k + 1 <= Len(s)
      BY <1>1, <2>2, <2>3, <3>1
    <3>2. CASE ~(k + 1 <= Len(s))
      <4>0. k \in Nat /\ Len(s) \in Nat /\ k <= Len(s)
        BY <1>1
      <4>1. k = Len(s) /\ Len(s) - k = 0
        BY <3>2, <4>0
      <4>2. Len(b) = 0
        BY <2>2, <3>2
      <4> QED
        BY <4>1, <4>2
    <3> QED
      BY <3>1, <3>2
  <2> QED
    BY <2>2, <2>3, <2>4
<1> HIDE DEF a, b
<1>4. t = a \o b
  BY DEF RemoveAt, a, b
<1> HIDE DEF t
<1>5. /\ t \in Seq(S) /\ Len(t) = Len(s) - 1
      /\ \A i \in 1..Len(s) - 1 : t[i] = IF i <= k - 1 THEN a[i] ELSE b[i - (k - 1)]
  <2>1. /\ a \o b \in Seq(S) /\ Len(a \o b) = Len(a) + Len(b)
        /\ \A i \in 1..Len(a) + Len(b) : (a \o b)[i] = IF i <= Len(a) THEN a[i] ELSE b[i - Len(a)]
    BY <1>2, <1>3, ConcatProperties
  <2>2. Len(a) + Len(b) = Len(s) - 1
    BY <1>1, <1>2, <1>3
  <2> QED
    BY <1>2, <1>4, <2>1, <2>2
<1>6. ASSUME NEW i \in 1..Len(s) - 1
      PROVE  t[i] = s[IF i <= k - 1 THEN i ELSE i + 1]
  <2>1. CASE i <= k - 1
    BY <1>1, <1>2, <1>5, <2>1
  <2>2. CASE ~(i <= k - 1)
    <3>1. i - (k - 1) \in 1..Len(s) - k /\ k + (i - (k - 1)) = i + 1
      BY <1>1, <2>2
    <3> QED
      BY <1>3, <1>5, <2>2, <3>1
  <2> QED
    BY <2>1, <2>2
<1>7. DOMAIN t = 1..Len(s) - 1
  BY <1>5, LenProperties
<1>8. \A y : y \in ToSet(t) <=> y \in ToSet(s) \ {s[k]}
  <2>1. ASSUME NEW i \in 1..Len(s) - 1 PROVE t[i] \in ToSet(s) \ {s[k]}
    <3> DEFINE j == IF i <= k - 1 THEN i ELSE i + 1
    <3>1. t[i] = s[j] /\ j \in 1..Len(s) /\ j # k
      BY <1>1, <1>6
    <3> QED
      BY <1>1, <3>1 DEF ToSet, IsInjective
  <2>2. ASSUME NEW j \in 1..Len(s), s[j] # s[k] PROVE s[j] \in ToSet(t)
    <3> DEFINE i == IF j < k THEN j ELSE j - 1
    <3>1. j # k
      BY <2>2
    <3>2. i \in 1..Len(s) - 1 /\ t[i] = s[j]
      BY <1>1, <1>6, <3>1
    <3> QED
      BY <1>7, <3>2 DEF ToSet
  <2> QED
    BY <1>1, <1>7, <2>1, <2>2 DEF ToSet
<1>9. IsInjective(t)
  <2> SUFFICES ASSUME NEW i \in 1..Len(s) - 1, NEW j \in 1..Len(s) - 1, t[i] = t[j] PROVE i = j
    BY <1>7 DEF IsInjective
  <2>1. (IF i <= k - 1 THEN i ELSE i + 1) \in 1..Len(s) /\ (IF j <= k - 1 THEN j ELSE j + 1) \in 1..Len(s)
    BY <1>1
  <2>2. (IF i <= k - 1 THEN i ELSE i + 1) = (IF j <= k - 1 THEN j ELSE j + 1)
    BY <1>1, <1>6, <2>1 DEF IsInjective
  <2> QED
    BY <1>1, <2>2
<1> QED
  BY <1>5, <1>8, <1>9 DEF t

-----------------------------------------------------------------------------
(* The cache, whatever its users do.                                       *)
CacheInv ==
  /\ CacheTypeOK
  /\ IsFiniteSet(Cached)
  /\ CacheAgrees
  /\ OverOnlyByLive

LEMMA CacheBasics ==
  ASSUME CacheInv
  PROVE  /\ cache_ \in Maps /\ Cached = In(cache_) /\ IsFiniteSet(In(cache_))
         /\ size_ = SizeIn(cache_, In(cache_)) /\ size_ \in Nat
         /\ lru_ \in Seq(Keys) /\ IsInjective(lru_) /\ ToSet(lru_) = Cached \ live_
         /\ live_ \subseteq Cached
         /\ \A keys : SizeOf(keys) = SizeIn(cache_, keys) /\ Uncached(keys) = Less(cache_, keys)
         /\ \A keys \in SUBSET Cached : SizeOf(keys) \in Nat
<1>1. cache_ \in Maps /\ Cached = In(cache_) /\ IsFiniteSet(In(cache_))
  BY DEF CacheInv, CacheTypeOK, Maps, Cached, In
<1>2. \A keys : SizeOf(keys) = SizeIn(cache_, keys) /\ Uncached(keys) = Less(cache_, keys)
  BY DEF SizeOf, SizeIn, Uncached, Less
<1>3. size_ = SizeIn(cache_, In(cache_)) /\ size_ \in Nat
  BY <1>1, <1>2 DEF CacheInv, CacheAgrees, SizeIsSum, CacheTypeOK
<1>4. lru_ \in Seq(Keys) /\ IsInjective(lru_) /\ ToSet(lru_) = Cached \ live_ /\ live_ \subseteq Cached
  BY DEF CacheInv, CacheTypeOK, CacheAgrees, LruIsNotLive
<1>5. \A keys \in SUBSET Cached : SizeOf(keys) \in Nat
  BY <1>1, <1>2, MapSized
<1> QED
  BY <1>1, <1>2, <1>3, <1>4, <1>5

LEMMA CachedSize == SizeOf(Cached) = SizeIn(cache_, Cached)
BY DEF SizeOf, SizeIn

(* What is to be shown of a step, given what it does to the map.           *)
LEMMA CacheInvIf ==
  ASSUME cache_' \in Maps, IsFiniteSet(In(cache_')), size_' = SizeIn(cache_', In(cache_')),
         lru_' \in Seq(Keys), IsInjective(lru_'), ToSet(lru_') = In(cache_') \ live_',
         live_' \subseteq In(cache_'), policy_' \in CachePolicies, OverOnlyByLive'
  PROVE  CacheInv'
<1>1. Cached' = In(cache_')
  BY DEF Cached, In
<1>2. SizeOf(Cached)' = SizeIn(cache_', In(cache_'))
  <2>1. (SizeOf(Cached) = SizeIn(cache_, Cached))'
    BY CachedSize, PTL
  <2> QED
    BY <1>1, <2>1
<1>3. size_' \in Nat
  BY MapSized
<1>4. CacheTypeOK'
  BY <1>1, <1>3 DEF CacheTypeOK, Maps
<1>5. SizeIsSum'
  BY <1>2 DEF SizeIsSum
<1>6. LruIsNotLive'
  BY <1>1 DEF LruIsNotLive, ToSet, IsInjective
<1> QED
  BY <1>1, <1>4, <1>5, <1>6 DEF CacheInv, CacheAgrees

LEMMA WithoutFacts ==
  ASSUME CacheInv, NEW k
  PROVE  /\ Without(k) \in Seq(Keys) /\ IsInjective(Without(k)) /\ ToSet(Without(k)) = ToSet(lru_) \ {k}
         /\ lru_ = <<>> => Without(k) = <<>>
<1>1. lru_ \in Seq(Keys) /\ IsInjective(lru_)
  BY CacheBasics
<1>2. CASE k \in ToSet(lru_)
  <2> DEFINE i == CHOOSE j \in DOMAIN lru_ : lru_[j] = k
  <2>1. i \in DOMAIN lru_ /\ lru_[i] = k
    BY <1>2 DEF ToSet
  <2>2. i \in 1..Len(lru_)
    BY <1>1, <2>1, LenProperties
  <2>3. Without(k) = RemoveAt(lru_, i)
    BY <1>2 DEF Without
  <2>4. lru_ # <<>>
    BY <1>1, <2>2, EmptySeq
  <2> HIDE DEF i
  <2> QED
    BY <1>1, <2>1, <2>2, <2>3, <2>4, RemoveAtFacts
<1>3. CASE k \notin ToSet(lru_)
  BY <1>1, <1>3 DEF Without
<1> QED
  BY <1>2, <1>3

LEMMA ForgetInv ==
  ASSUME CacheInv, NEW keys \in SUBSET Cached, NEW lru, Forget(keys, lru),
         lru \in Seq(Keys), IsInjective(lru), ToSet(lru) = (Cached \ keys) \ live_',
         live_' \subseteq Cached \ keys, policy_' = policy_,
         lru_ = <<>> => lru = <<>>
  PROVE  CacheInv'
<1>1. /\ cache_' = Less(cache_, keys) /\ lru_' = lru
      /\ size_' = SizeIn(cache_, In(cache_)) - SizeIn(cache_, keys)
  BY CacheBasics DEF Forget
<1>2. /\ cache_' \in Maps /\ In(cache_') = Cached \ keys /\ IsFiniteSet(In(cache_'))
      /\ size_' = SizeIn(cache_', In(cache_')) /\ size_' \in Nat
      /\ Cardinality(In(cache_')) \in Nat /\ Cardinality(Cached) \in Nat
      /\ Cardinality(In(cache_')) <= Cardinality(Cached)
  <2> DEFINE d == Less(cache_, keys)
             In0 == In(cache_)
  <2>1. cache_ \in Maps /\ Cached = In0 /\ IsFiniteSet(In0) /\ keys \subseteq In0
    BY CacheBasics
  <2>2. /\ d \in Maps /\ In(d) = In0 \ keys /\ IsFiniteSet(In0 \ keys)
        /\ SizeIn(d, In0 \ keys) = SizeIn(cache_, In0) - SizeIn(cache_, keys)
        /\ SizeIn(d, In0 \ keys) \in Nat
        /\ Cardinality(In0 \ keys) \in Nat /\ Cardinality(In0) \in Nat
        /\ Cardinality(In0 \ keys) <= Cardinality(In0)
    BY <2>1, LessFacts
  <2>3. cache_' = d
    BY <1>1
  <2> HIDE DEF d, In0
  <2>4. size_' = SizeIn(cache_, In0) - SizeIn(cache_, keys)
    BY <1>1 DEF In0
  <2> QED
    BY <2>1, <2>2, <2>3, <2>4
<1>3. size_' <= size_
  <2>1. SizeIn(cache_, keys) \in Nat /\ size_ \in Nat /\ size_ = SizeIn(cache_, In(cache_))
    BY CacheBasics
  <2> QED
    BY <1>1, <2>1
<1>4. Cached' = In(cache_')
  BY DEF Cached, In
<1>5. OverOnlyByLive'
  <2>1. size_ \in Nat /\ capacity_ \in Nat /\ OverOnlyByLive
    BY CacheBasics, DurableObjectCacheAssumption DEF CacheInv
  <2> QED
    BY <1>1, <1>2, <1>3, <1>4, <2>1 DEF OverOnlyByLive
<1>6. policy_' \in CachePolicies
  BY DEF CacheInv, CacheTypeOK
<1> QED
  BY <1>1, <1>2, <1>5, <1>6, CacheInvIf

(* get() and get_copy(): an object becomes live.                           *)
LEMMA GetHitInv ==
  ASSUME CacheInv, NEW k \in Cached, live_' = live_ \cup {k}, lru_' = Without(k),
         UNCHANGED <<cache_, size_, policy_>>
  PROVE  CacheInv'
<1>1. /\ lru_' \in Seq(Keys) /\ IsInjective(lru_') /\ ToSet(lru_') = ToSet(lru_) \ {k}
      /\ lru_ = <<>> => lru_' = <<>>
  BY WithoutFacts
<1>2. ToSet(lru_') = In(cache_') \ live_' /\ live_' \subseteq In(cache_')
  BY <1>1, CacheBasics
<1>3. Cached' = Cached
  BY DEF Cached
<1>4. OverOnlyByLive'
  BY <1>1, <1>3 DEF OverOnlyByLive, CacheInv
<1>5. policy_' \in CachePolicies
  BY DEF CacheInv, CacheTypeOK
<1> QED
  BY <1>1, <1>2, <1>4, <1>5, CacheBasics, CacheInvIf

(* del() and remove().                                                     *)
LEMMA DropInv ==
  ASSUME CacheInv, NEW k \in Cached, Forget({k}, Without(k)), live_' = live_ \ {k},
         UNCHANGED policy_
  PROVE  CacheInv'
<1>1. /\ Without(k) \in Seq(Keys) /\ IsInjective(Without(k)) /\ ToSet(Without(k)) = ToSet(lru_) \ {k}
      /\ lru_ = <<>> => Without(k) = <<>>
  BY WithoutFacts
<1>2. ToSet(Without(k)) = (Cached \ {k}) \ live_' /\ live_' \subseteq Cached \ {k}
  BY <1>1, CacheBasics
<1> QED
  BY <1>1, <1>2, ForgetInv

LEMMA FlushInv == ASSUME CacheInv, Flush PROVE CacheInv'
<1>1. <<>> \in Seq(Keys) /\ IsInjective(<<>>) /\ ToSet(<<>>) = {}
  <2>1. <<>> \in Seq(Keys) /\ DOMAIN <<>> = {}
    BY EmptySeq, LenProperties
  <2> QED
    BY <2>1 DEF IsInjective, ToSet
<1>2. /\ ToSet(lru_) \in SUBSET Cached /\ live_' = live_ /\ policy_' = policy_
      /\ ToSet(<<>>) = (Cached \ ToSet(lru_)) \ live_'
      /\ live_' \subseteq Cached \ ToSet(lru_)
  BY <1>1, CacheBasics DEF Flush
<1> QED
  BY <1>1, <1>2, ForgetInv DEF Flush

(* release(): at the end of the list, which loses its head if the cache is *)
(* over capacity.  It was not, unless the list was empty.                  *)
LEMMA SettleInv ==
  ASSUME CacheInv, NEW lru \in Seq(Keys), IsInjective(lru), lru # <<>>, Settle(lru),
         ToSet(lru) = Cached \ live_', live_' \subseteq Cached, policy_' = policy_,
         lru_ = <<>> => Tail(lru) = <<>>
  PROVE  CacheInv'
<1>1. CASE IsOver(0, {}) /\ Forget({Head(lru)}, Tail(lru))
  <2>1. /\ Tail(lru) \in Seq(Keys) /\ IsInjective(Tail(lru)) /\ Head(lru) \in ToSet(lru)
        /\ ToSet(Tail(lru)) = ToSet(lru) \ {Head(lru)}
    BY TailFacts
  <2>2. /\ {Head(lru)} \in SUBSET Cached
        /\ ToSet(Tail(lru)) = (Cached \ {Head(lru)}) \ live_'
        /\ live_' \subseteq Cached \ {Head(lru)}
    BY <2>1
  <2> QED
    BY <1>1, <2>1, <2>2, ForgetInv
<1>2. CASE ~IsOver(0, {}) /\ lru_' = lru /\ UNCHANGED <<cache_, size_>>
  <2>1. Cached' = Cached
    BY <1>2 DEF Cached
  <2>2. size_ - SizeOf({}) + 0 = size_ /\ size_ \in Nat
    <3>1. SizeOf({}) = 0 /\ size_ \in Nat
      BY CacheBasics, SizeInEmpty
    <3> QED
      BY <3>1
  <2>3. Cached \ {} = Cached /\ Cardinality(Cached) \in Nat /\ capacity_ \in Nat
    BY CacheBasics, FS_CardinalityType, DurableObjectCacheAssumption
  <2>4. OverOnlyByLive'
    BY <1>2, <2>1, <2>2, <2>3 DEF IsOver, OverOnlyByLive
  <2>5. policy_' \in CachePolicies
    BY DEF CacheInv, CacheTypeOK
  <2> QED
    BY <1>2, <2>4, <2>5, CacheBasics, CacheInvIf
<1> QED
  BY <1>1, <1>2 DEF Settle

LEMMA TailOfOne == ASSUME NEW S, NEW x \in S PROVE Tail(Append(<<>>, x)) = <<>>
OBVIOUS

LEMMA ReleaseInv == ASSUME CacheInv, NEW k, Release(k) \/ ReleaseAgain(k) PROVE CacheInv'
<1>0. k \in Keys
  BY CacheBasics DEF Release, ReleaseAgain, Cached
<1>a. \A s \in Seq(Keys) : s = <<>> => Tail(Append(s, k)) = <<>>
  BY <1>0, TailOfOne
<1>1. CASE Release(k)
  <2>1. k \notin ToSet(lru_)
    BY <1>1, CacheBasics DEF Release
  <2>2. /\ Append(lru_, k) \in Seq(Keys) /\ IsInjective(Append(lru_, k)) /\ Append(lru_, k) # <<>>
        /\ ToSet(Append(lru_, k)) = ToSet(lru_) \cup {k}
    BY <1>0, <2>1, CacheBasics, AppendFacts
  <2>3. ToSet(Append(lru_, k)) = Cached \ live_' /\ live_' \subseteq Cached /\ policy_' = policy_
    BY <1>1, <2>2, CacheBasics DEF Release
  <2>4. lru_ \in Seq(Keys)
    BY CacheBasics
  <2> QED
    BY <1>1, <1>a, <2>2, <2>3, <2>4, SettleInv DEF Release
<1>2. CASE ReleaseAgain(k)
  <2>1. /\ Without(k) \in Seq(Keys) /\ IsInjective(Without(k)) /\ ToSet(Without(k)) = ToSet(lru_) \ {k}
        /\ lru_ = <<>> => Without(k) = <<>>
    BY WithoutFacts
  <2>2. /\ Append(Without(k), k) \in Seq(Keys) /\ IsInjective(Append(Without(k), k))
        /\ Append(Without(k), k) # <<>>
        /\ ToSet(Append(Without(k), k)) = (ToSet(lru_) \ {k}) \cup {k}
    BY <1>0, <2>1, AppendFacts
  <2>3. /\ ToSet(Append(Without(k), k)) = Cached \ live_' /\ live_' \subseteq Cached
        /\ policy_' = policy_
    BY <1>2, <2>2, CacheBasics DEF ReleaseAgain
  <2> QED
    BY <1>2, <1>a, <2>1, <2>2, <2>3, SettleInv DEF ReleaseAgain
<1> QED
  BY <1>1, <1>2

(* put() evicts until the new object fits, or there is nothing to evict.   *)
LEMMA EvictedFacts ==
  ASSUME CacheInv, NEW o
  PROVE  /\ Evicted(o) \in 0..Len(lru_)
         /\ Evicted(o) = Len(lru_) \/ ~IsOver(Size[o], First(Evicted(o)))
<1> DEFINE enough == {n \in 0..Len(lru_) : ~IsOver(Size[o], First(n))}
<1>1. Len(lru_) \in Nat
  BY CacheBasics, LenProperties
<1>2. Evicted(o) = IF enough = {} THEN Len(lru_) ELSE Min(enough)
  BY DEF Evicted
<1>3. CASE enough = {}
  BY <1>1, <1>2, <1>3
<1>4. CASE enough # {}
  <2>1. enough \subseteq Nat
    BY <1>1
  <2> HIDE DEF enough
  <2>2. \E n \in enough : \A m \in enough : n <= m
    BY <1>4, <2>1, LeastNat
  <2>3. Min(enough) \in enough
    BY <2>2 DEF Min
  <2> QED
    BY <1>2, <1>4, <2>3 DEF enough
<1> QED
  BY <1>3, <1>4

LEMMA PutNewInv ==
  ASSUME CacheInv, NEW k \in Keys, NEW o \in Objects, PutNew(k, o)
  PROVE  /\ CacheInv'
         /\ Cached' \subseteq Cached \cup {k} /\ cache_'[k] = o
         /\ \A j \in Cached' : j # k => cache_'[j] = cache_[j]
<1> DEFINE n == Evicted(o)
           gone == First(n)
           c == Less(cache_, gone)
<1>1. /\ n \in 0..Len(lru_) /\ (n = Len(lru_) \/ ~IsOver(Size[o], gone))
  BY EvictedFacts
<1>2. /\ lru_' \in Seq(Keys) /\ ToSet(lru_') = ToSet(lru_) \ gone /\ IsInjective(lru_')
      /\ gone \subseteq ToSet(lru_) /\ lru_' = SubSeq(lru_, n + 1, Len(lru_))
  BY <1>1, CacheBasics, DropFacts DEF PutNew, First
<1>3. /\ cache_' = [c EXCEPT ![k] = o] /\ k \notin Cached /\ live_' = live_ \cup {k}
      /\ size_' = size_ - SizeIn(cache_, gone) + Size[o] /\ policy_' = policy_
      /\ SizeOf(gone) = SizeIn(cache_, gone)
  BY CacheBasics DEF PutNew
<1> HIDE DEF n, gone
<1>4. /\ c \in Maps /\ In(c) = Cached \ gone /\ IsFiniteSet(In(c))
      /\ SizeIn(c, In(c)) = size_ - SizeIn(cache_, gone)
      /\ SizeIn(c, In(c)) \in Nat /\ Cardinality(In(c)) \in Nat
  <2>1. /\ gone \subseteq In(cache_) /\ In(cache_) = Cached /\ cache_ \in Maps
        /\ IsFiniteSet(In(cache_)) /\ size_ = SizeIn(cache_, In(cache_))
    BY <1>2, CacheBasics
  <2> QED
    BY <2>1, LessFacts
<1> HIDE DEF c
<1>5. /\ cache_' \in Maps /\ In(cache_') = In(c) \cup {k} /\ IsFiniteSet(In(cache_'))
      /\ SizeIn(cache_', In(cache_')) = SizeIn(c, In(c)) + Size[o]
      /\ Cardinality(In(cache_')) = Cardinality(In(c)) + 1
  <2> DEFINE d == [c EXCEPT ![k] = o]
  <2>1. k \in Keys \ In(c)
    BY <1>3, <1>4
  <2>2. /\ d \in Maps /\ In(d) = In(c) \cup {k} /\ IsFiniteSet(In(c) \cup {k})
        /\ SizeIn(d, In(c) \cup {k}) = SizeIn(c, In(c)) + Size[o]
        /\ Cardinality(In(c) \cup {k}) = Cardinality(In(c)) + 1
    BY <1>4, <2>1, MoreFacts
  <2>3. cache_' = d
    BY <1>3
  <2> HIDE DEF d
  <2> QED
    BY <2>2, <2>3
<1>6. Cached' = In(cache_')
  BY DEF Cached, In
<1>7. size_' = SizeIn(cache_', In(cache_'))
  BY <1>3, <1>4, <1>5
<1>8. live_' \subseteq In(cache_') /\ ToSet(lru_') = In(cache_') \ live_'
  BY <1>2, <1>3, <1>4, <1>5, CacheBasics
<1>9. OverOnlyByLive'
  <2>1. CASE n = Len(lru_)
    <3>1. lru_' = <<>>
      <4>1. Len(lru_) \in Nat
        BY CacheBasics, LenProperties
      <4> QED
        BY <1>2, <2>1, <4>1, SubSeqEmpty
    <3> QED
      BY <3>1 DEF OverOnlyByLive
  <2>2. CASE ~IsOver(Size[o], gone)
    <3>1. /\ size_' = size_ - SizeOf(gone) + Size[o]
          /\ Cardinality(Cached') = Cardinality(Cached \ gone) + 1
      BY <1>3, <1>4, <1>5, <1>6
    <3> QED
      BY <1>3, <2>2, <3>1 DEF IsOver, OverOnlyByLive
  <2> QED
    BY <1>1, <2>1, <2>2
<1>10. policy_' \in CachePolicies
  BY <1>3 DEF CacheInv, CacheTypeOK
<1>11. CacheInv'
  BY <1>2, <1>5, <1>7, <1>8, <1>9, <1>10, CacheInvIf
<1>12. cache_'[k] = o /\ \A j \in Cached' : j # k => cache_'[j] = cache_[j]
  BY <1>3, <1>4, <1>5, <1>6 DEF c, Less, In, Maps
<1> QED
  BY <1>4, <1>5, <1>6, <1>11, <1>12

-----------------------------------------------------------------------------
(* The table, whatever convention its users keep.                          *)
TableTypeOK ==
  /\ stored \subseteq Keys
  /\ user \in [Keys -> Threads \cup {NoThread}]
  /\ pc \in [Threads -> TableLabels]
  /\ key \in [Threads -> Keys \cup {NoKey}]
  /\ obj \in [Threads -> Objects \cup {NoObject}]
  /\ excl \in [Threads -> BOOLEAN]

(* A thread inside an operation has a key, and an object on its way in.    *)
HasArgs(t) ==
  /\ pc[t] # "idle" => key[t] \in Keys
  /\ pc[t] \in {"fill", "store", "cache"} => obj[t] \in Objects

TableInv ==
  /\ CacheInv
  /\ TableTypeOK
  /\ \A t \in Threads : HasArgs(t)
  /\ UserHasLiveObject

(* With one user of a key at a time: the key of an operation is nobody     *)
(* else's until the operation ends, so what the thread found in the cache  *)
(* or in the store at one step still holds, of that key, at the next.      *)
Alone(t) ==
  /\ pc[t] = "idle" => key[t] = NoKey
  /\ pc[t] # "idle" => /\ user[key[t]] \in {t, NoThread}
                       /\ \A u \in Threads \ {t} : key[u] # key[t]
Found(t) ==
  /\ pc[t] # "abort"
  /\ pc[t] \in {"read", "fill", "erase"} => key[t] \notin Cached
  /\ pc[t] \in {"fill", "cache"} => key[t] \in stored
  /\ pc[t] \in {"store", "cache"} /\ key[t] \in Cached => cache_[key[t]] = obj[t]
  /\ pc[t] = "cache" /\ key[t] \in Cached => ~excl[t]

OneUserInv ==
  /\ TableInv
  /\ \A t \in Threads : Alone(t) /\ Found(t)
  /\ CachedIsStored

(* What the operations of the cache do to its map: put() adds one key, and *)
(* the others only drop keys.                                              *)
Shrinks == Cached' \subseteq Cached /\ \A j \in Cached' : cache_'[j] = cache_[j]

LEMMA ForgetShrinks ==
  ASSUME CacheInv, NEW keys, NEW lru, Forget(keys, lru)
  PROVE  Shrinks
BY DEF Forget, Uncached, Cached, Shrinks

LEMMA SettleShrinks ==
  ASSUME CacheInv, NEW lru, Settle(lru)
  PROVE  Shrinks
<1>1. CASE Forget({Head(lru)}, Tail(lru))
  BY <1>1, ForgetShrinks
<1>2. CASE UNCHANGED cache_
  BY <1>2 DEF Cached, Shrinks
<1> QED
  BY <1>1, <1>2 DEF Settle

LEMMA SameCacheInv ==
  ASSUME CacheInv, UNCHANGED cvars
  PROVE  CacheInv' /\ Shrinks /\ live_' = live_
<1>1. Cached' = Cached /\ SizeOf(Cached)' = SizeOf(Cached)
  BY DEF cvars, Cached, SizeOf, MapThenSumSet, MapThenFoldSet
<1> QED
  BY <1>1 DEF cvars, CacheInv, CacheTypeOK, CacheAgrees, LruIsNotLive, SizeIsSum, OverOnlyByLive,
              ToSet, IsInjective, Shrinks

-----------------------------------------------------------------------------
(* The arguments of the operations under way.                              *)
ArgsInv ==
  /\ pc \in [Threads -> TableLabels]
  /\ key \in [Threads -> Keys \cup {NoKey}]
  /\ obj \in [Threads -> Objects \cup {NoObject}]
  /\ excl \in [Threads -> BOOLEAN]
  /\ \A t \in Threads : HasArgs(t)

LEMMA BeginArgs ==
  ASSUME ArgsInv, NEW t \in Threads, NEW k \in Keys, NEW label \in {"read", "store", "erase"},
         NEW o \in Objects \cup {NoObject}, NEW x \in BOOLEAN, label = "store" => o \in Objects,
         Begin(t, k, label, o, x)
  PROVE  ArgsInv'
BY DEF ArgsInv, Begin, Goto, HasArgs, TableLabels

LEMMA EndArgs ==
  ASSUME ArgsInv, NEW t \in Threads, NEW from, End(t, from)
  PROVE  ArgsInv'
BY DEF ArgsInv, End, Goto, HasArgs, TableLabels

LEMMA AbortArgs ==
  ASSUME ArgsInv, NEW t \in Threads, NEW from \in {"fill", "cache"}, Abort(t, from)
  PROVE  ArgsInv'
BY DEF ArgsInv, Abort, Goto, HasArgs, TableLabels

LEMMA SameArgs == ASSUME ArgsInv, UNCHANGED <<pc, Args>> PROVE ArgsInv'
BY DEF ArgsInv, Args, HasArgs

LEMMA TableInvParts ==
  TableInv <=> /\ CacheInv /\ ArgsInv /\ UserHasLiveObject /\ stored \subseteq Keys
               /\ user \in [Keys -> Threads \cup {NoThread}]
BY DEF TableInv, TableTypeOK, ArgsInv

LEMMA TableInvIf ==
  ASSUME CacheInv', ArgsInv', UserHasLiveObject', stored' \subseteq Keys,
         user' \in [Keys -> Threads \cup {NoThread}]
  PROVE  TableInv'
BY DEF TableInv, TableTypeOK, ArgsInv

LEMMA ObjectOfUser ==
  ASSUME TableInv, NEW t \in Threads, NEW k \in Keys, user[k] = t
  PROVE  k \in live_ /\ k \in Cached /\ cache_[k] \in Objects
<1>1. k \in live_
  BY DurableTableAssumption DEF TableInv, UserHasLiveObject
<1>2. k \in Cached
  BY <1>1, TableInvParts, CacheBasics
<1> QED
  BY <1>1, <1>2, TableInvParts, CacheBasics DEF Cached, Maps

-----------------------------------------------------------------------------
(* Each operation preserves TableInv, and only those that put in the cache *)
(* add to its map.                                                         *)
LEMMA GetSteps ==
  ASSUME TableInv, NEW t \in Threads, NEW k \in Keys, GetCached(t, k) \/ GetCopy(t, k)
  PROVE  TableInv' /\ Shrinks
<1>0. /\ CacheInv /\ ArgsInv /\ UserHasLiveObject /\ stored \subseteq Keys
      /\ user \in [Keys -> Threads \cup {NoThread}]
  BY TableInvParts
<1>1. /\ k \in Cached /\ live_' = live_ \cup {k} /\ lru_' = Without(k)
      /\ UNCHANGED <<cache_, size_, policy_, stored, pc, Args>>
      /\ user' = [user EXCEPT ![k] = t] \/ user' = user
  BY DEF GetCached, GetCopy, GetHit, tvars, Args
<1>2. CacheInv'
  BY <1>0, <1>1, GetHitInv
<1>3. ArgsInv'
  BY <1>0, <1>1, SameArgs
<1>4. UserHasLiveObject' /\ user' \in [Keys -> Threads \cup {NoThread}]
  BY <1>0, <1>1 DEF UserHasLiveObject
<1>5. Shrinks
  BY <1>1 DEF Shrinks, Cached
<1> QED
  BY <1>0, <1>1, <1>2, <1>3, <1>4, <1>5, TableInvIf

LEMMA ReleaseSteps ==
  ASSUME TableInv, NEW t \in Threads, NEW k \in Keys, ReleaseObject(t, k) \/ ReleaseTwice(t, k)
  PROVE  TableInv' /\ Shrinks
<1>0. /\ CacheInv /\ ArgsInv /\ UserHasLiveObject /\ stored \subseteq Keys
      /\ user \in [Keys -> Threads \cup {NoThread}]
  BY TableInvParts
<1>1. /\ UNCHANGED <<stored, pc, Args>>
      /\ \/ Release(k) /\ user' = [user EXCEPT ![k] = NoThread]
         \/ ReleaseAgain(k) /\ user' = user
  BY DEF ReleaseObject, ReleaseTwice, tvars, Args
<1>2. CacheInv'
  BY <1>0, <1>1, ReleaseInv
<1>3. ArgsInv'
  BY <1>0, <1>1, SameArgs
<1>4. UserHasLiveObject' /\ user' \in [Keys -> Threads \cup {NoThread}]
  BY <1>0, <1>1 DEF UserHasLiveObject, Release, ReleaseAgain
<1>5. Shrinks
  BY <1>0, <1>1, SettleShrinks DEF Release, ReleaseAgain
<1> QED
  BY <1>0, <1>1, <1>2, <1>3, <1>4, <1>5, TableInvIf

LEMMA RemoveStep ==
  ASSUME TableInv, NEW t \in Threads, NEW k \in Keys, RemoveObject(t, k)
  PROVE  TableInv' /\ Shrinks
<1>0. /\ CacheInv /\ ArgsInv /\ UserHasLiveObject /\ stored \subseteq Keys
      /\ user \in [Keys -> Threads \cup {NoThread}]
  BY TableInvParts
<1>1. /\ UNCHANGED <<stored, pc, Args>> /\ user' = [user EXCEPT ![k] = NoThread]
      /\ k \in Cached /\ Forget({k}, Without(k)) /\ live_' = live_ \ {k} /\ UNCHANGED policy_
  BY DEF RemoveObject, RemoveKey
<1>2. CacheInv'
  BY <1>0, <1>1, DropInv
<1>3. ArgsInv'
  BY <1>0, <1>1, SameArgs
<1>4. UserHasLiveObject' /\ user' \in [Keys -> Threads \cup {NoThread}]
  BY <1>0, <1>1 DEF UserHasLiveObject
<1>5. Shrinks
  BY <1>0, <1>1, ForgetShrinks
<1> QED
  BY <1>0, <1>1, <1>2, <1>3, <1>4, <1>5, TableInvIf

LEMMA FlushStep == ASSUME TableInv, FlushCache PROVE TableInv' /\ Shrinks
<1>0. /\ CacheInv /\ ArgsInv /\ UserHasLiveObject /\ stored \subseteq Keys
      /\ user \in [Keys -> Threads \cup {NoThread}]
  BY TableInvParts
<1>1. UNCHANGED <<stored, user, pc, Args, live_>> /\ Flush /\ Forget(ToSet(lru_), <<>>)
  BY DEF FlushCache, Flush, tvars, Args
<1>2. CacheInv' /\ ArgsInv' /\ Shrinks
  BY <1>0, <1>1, FlushInv, SameArgs, ForgetShrinks
<1>3. UserHasLiveObject'
  BY <1>0, <1>1 DEF UserHasLiveObject
<1> QED
  BY <1>0, <1>1, <1>2, <1>3, TableInvIf

(* The steps that begin an operation: only del() touches the cache.        *)
LEMMA BeginSteps ==
  ASSUME TableInv, NEW t \in Threads, NEW k \in Keys,
         \/ GetMiss(t, k) \/ DelCached(t, k) \/ DelMiss(t, k)
         \/ \E x \in BOOLEAN : PutCall(t, k, x)
  PROVE  TableInv' /\ Shrinks /\ UNCHANGED <<stored, user>>
<1>0. /\ CacheInv /\ ArgsInv /\ UserHasLiveObject /\ stored \subseteq Keys
      /\ user \in [Keys -> Threads \cup {NoThread}]
  BY TableInvParts
<1>1. CacheInv' /\ Shrinks /\ live_' = live_
  <2>1. CASE DelCached(t, k)
    <3>1. /\ k \in Cached \ live_ /\ Forget({k}, Without(k)) /\ live_' = live_ /\ UNCHANGED policy_
      BY <2>1 DEF DelCached, Del
    <3>2. live_' = live_ \ {k}
      BY <3>1
    <3> QED
      BY <1>0, <3>1, <3>2, DropInv, ForgetShrinks
  <2>2. CASE GetMiss(t, k) \/ DelMiss(t, k) \/ \E x \in BOOLEAN : PutCall(t, k, x)
    BY <1>0, <2>2, SameCacheInv DEF GetMiss, DelMiss, PutCall
  <2> QED
    BY <2>1, <2>2
<1>2. ArgsInv'
  <2>1. CASE GetMiss(t, k) \/ DelCached(t, k) \/ DelMiss(t, k)
    <3>1. \E label \in {"read", "erase"} : Begin(t, k, label, NoObject, FALSE)
      BY <2>1 DEF GetMiss, DelCached, DelMiss
    <3> QED
      BY <1>0, <3>1, BeginArgs
  <2>2. ASSUME NEW x \in BOOLEAN, PutCall(t, k, x) PROVE ArgsInv'
    <3>1. \E o \in Objects : Begin(t, k, "store", o, x)
      BY <2>2, ObjectOfUser DEF PutCall, Unused
    <3> QED
      BY <1>0, <3>1, BeginArgs
  <2> QED
    BY <2>1, <2>2
<1>3. UNCHANGED <<stored, user>>
  BY DEF GetMiss, DelCached, DelMiss, PutCall
<1>4. UserHasLiveObject'
  BY <1>0, <1>1, <1>3 DEF UserHasLiveObject
<1> QED
  BY <1>0, <1>1, <1>2, <1>3, <1>4, TableInvIf

(* The steps between the cache and the store.                              *)
LEMMA StoreSteps ==
  ASSUME TableInv, NEW t \in Threads,
         Read(t) \/ Erase(t) \/ \E create \in BOOLEAN : PutInStore(t, create)
  PROVE  TableInv' /\ UNCHANGED <<cvars, user>>
<1>0. /\ CacheInv /\ ArgsInv /\ UserHasLiveObject /\ stored \subseteq Keys
      /\ user \in [Keys -> Threads \cup {NoThread}]
  BY TableInvParts
<1>1. UNCHANGED <<cvars, user>>
  BY DEF Read, Erase, PutInStore
<1>2. CacheInv' /\ live_' = live_
  BY <1>0, <1>1, SameCacheInv
<1>3. UserHasLiveObject'
  BY <1>0, <1>1, <1>2 DEF UserHasLiveObject
<1>4. ArgsInv' /\ stored' \subseteq Keys
  <2>1. CASE \E from : End(t, from)
    <3>1. ArgsInv'
      BY <1>0, <2>1, EndArgs
    <3>2. stored' \subseteq stored \/ (pc[t] = "store" /\ stored' = stored \cup {key[t]})
      BY DEF Read, Erase, PutInStore, Goto, End
    <3> QED
      BY <1>0, <3>1, <3>2 DEF ArgsInv, HasArgs
  <2>2. CASE /\ Goto(t, "read", "fill") /\ \E o \in Unused : obj' = [obj EXCEPT ![t] = o]
             /\ UNCHANGED <<key, excl, stored>>
    <3>1. Unused \subseteq Objects
      BY DEF Unused
    <3> QED
      BY <1>0, <2>2, <3>1 DEF ArgsInv, HasArgs, Goto, TableLabels
  <2>3. CASE Goto(t, "store", "cache") /\ UNCHANGED Args /\ stored' \subseteq stored \cup {key[t]}
    BY <1>0, <2>3 DEF ArgsInv, HasArgs, Goto, TableLabels, Args
  <2> QED
    BY <2>1, <2>2, <2>3 DEF Read, Erase, PutInStore
<1> QED
  BY <1>0, <1>1, <1>2, <1>3, <1>4, TableInvIf

(* The steps that put in the cache, or find the assertion false.           *)
LEMMA CacheSteps ==
  ASSUME TableInv, NEW t \in Threads, Fill(t) \/ PutInCache(t)
  PROVE  /\ TableInv' /\ UNCHANGED stored
         /\ Cached' \subseteq Cached \cup {key[t]}
         /\ \A j \in Cached' : j # key[t] => cache_'[j] = cache_[j]
<1>0. /\ CacheInv /\ ArgsInv /\ UserHasLiveObject /\ stored \subseteq Keys
      /\ user \in [Keys -> Threads \cup {NoThread}]
  BY TableInvParts
<1>1. key[t] \in Keys /\ obj[t] \in Objects /\ UNCHANGED stored
  BY <1>0 DEF ArgsInv, HasArgs, Fill, PutInCache
<1>2. ArgsInv'
  <2>1. \E from \in {"fill", "cache"} : End(t, from) \/ Abort(t, from)
    BY DEF Fill, PutInCache
  <2> QED
    BY <1>0, <2>1, EndArgs, AbortArgs
<1>3. CASE PutNew(key[t], obj[t]) /\ user' = [user EXCEPT ![key[t]] = t]
  <2>1. /\ CacheInv' /\ Cached' \subseteq Cached \cup {key[t]}
        /\ \A j \in Cached' : j # key[t] => cache_'[j] = cache_[j]
    BY <1>0, <1>1, <1>3, PutNewInv
  <2>2. live_' = live_ \cup {key[t]}
    BY <1>3 DEF PutNew
  <2>3. UserHasLiveObject' /\ user' \in [Keys -> Threads \cup {NoThread}]
    BY <1>0, <1>1, <1>3, <2>2 DEF UserHasLiveObject
  <2> QED
    BY <1>0, <1>1, <1>2, <2>1, <2>3, TableInvIf
<1>4. CASE UNCHANGED <<cvars, user>>
  <2>1. CacheInv' /\ live_' = live_ /\ Shrinks
    BY <1>0, <1>4, SameCacheInv
  <2>2. UserHasLiveObject'
    BY <1>0, <1>4, <2>1 DEF UserHasLiveObject
  <2> QED
    BY <1>0, <1>1, <1>2, <1>4, <2>1, <2>2, TableInvIf DEF Shrinks
<1> QED
  BY <1>3, <1>4 DEF Fill, PutInCache

LEMMA TableInvInit == ASSUME Init PROVE TableInv
<1>1. Cached = {} /\ cache_ \in Maps
  BY DEF Init, CacheInit, Cached, Maps
<1>2. IsFiniteSet(Cached) /\ SizeOf(Cached) = 0 /\ Cardinality(Cached) = 0
  BY <1>1, CachedSize, SizeInEmpty, FS_EmptySet
<1>3. <<>> \in Seq(Keys) /\ IsInjective(<<>>) /\ ToSet(<<>>) = {}
  <2>1. <<>> \in Seq(Keys) /\ DOMAIN <<>> = {}
    BY EmptySeq, LenProperties
  <2> QED
    BY <2>1 DEF IsInjective, ToSet
<1>4. CacheInv
  BY <1>1, <1>2, <1>3
     DEF Init, CacheInit, CacheInv, CacheTypeOK, CacheAgrees, LruIsNotLive, SizeIsSum,
         OverOnlyByLive, Maps
<1> QED
  BY <1>4 DEF Init, TableInv, TableTypeOK, TableLabels, HasArgs, UserHasLiveObject

LEMMA TableInvSame == ASSUME TableInv, UNCHANGED vars PROVE TableInv'
<1>1. CacheInv'
  BY TableInvParts, SameCacheInv DEF vars
<1> QED
  BY <1>1 DEF TableInv, TableTypeOK, HasArgs, UserHasLiveObject, vars, tvars, cvars

LEMMA TableInvNext == ASSUME TableInv, [Next]_vars PROVE TableInv'
<1>1. ASSUME NEW t \in Threads, NEW k \in Keys,
             \/ GetCached(t, k) \/ GetMiss(t, k) \/ GetCopy(t, k)
             \/ \E x \in BOOLEAN : PutCall(t, k, x)
             \/ DelCached(t, k) \/ DelMiss(t, k)
             \/ ReleaseObject(t, k) \/ ReleaseTwice(t, k) \/ RemoveObject(t, k)
      PROVE  TableInv'
  BY <1>1, GetSteps, BeginSteps, ReleaseSteps, RemoveStep
<1>2. ASSUME NEW t \in Threads,
             \/ Read(t) \/ Fill(t) \/ PutInCache(t) \/ Erase(t)
             \/ \E create \in BOOLEAN : PutInStore(t, create)
      PROVE  TableInv'
  BY <1>2, StoreSteps, CacheSteps
<1> QED
  BY <1>1, <1>2, FlushStep, TableInvSame DEF Next

(* Nothing is asked of the threads: the cache's lock is enough.            *)
THEOREM AlwaysTableInv == Spec => []TableInv
BY TableInvInit, TableInvNext, PTL DEF Spec

(* The map, the LRU list, the live flags and the size of                   *)
(* DurableObjectCache agree after any sequence of its operations, by any   *)
(* number of threads, for any capacity and either policy.                  *)
THEOREM TableCacheAgrees == Spec => []CacheAgrees
<1>1. TableInv => CacheAgrees
  BY DEF TableInv, CacheInv
<1> QED
  BY <1>1, AlwaysTableInv, PTL

(* The cache is over capacity only when nothing in it could be evicted:    *)
(* one eviction in release() and the loop of put() are enough.             *)
THEOREM TableOverOnlyByLive == Spec => []OverOnlyByLive
<1>1. TableInv => OverOnlyByLive
  BY DEF TableInv, CacheInv
<1> QED
  BY <1>1, AlwaysTableInv, PTL

(* The object that get() or put() gave to a thread stays in the cache and  *)
(* live until its user releases or removes it, even when other threads     *)
(* use the same key.                                                       *)
THEOREM TableUserHasLiveObject == Spec => []UserHasLiveObject
<1>1. TableInv => UserHasLiveObject
  BY DEF TableInv
<1> QED
  BY <1>1, AlwaysTableInv, PTL

-----------------------------------------------------------------------------
(* One user of a key at a time.                                            *)
LEMMA BeginAlone ==
  ASSUME OneUserInv, OneUser, NEW t \in Threads, NEW k \in Keys, MayUse(t, k),
         NEW label, NEW o, NEW x, label # "idle", Begin(t, k, label, o, x), UNCHANGED user
  PROVE  \A u \in Threads : Alone(u)'
<1>1. /\ pc' = [pc EXCEPT ![t] = label] /\ key' = [key EXCEPT ![t] = k] /\ pc[t] = "idle"
      /\ pc \in [Threads -> TableLabels] /\ key \in [Threads -> Keys \cup {NoKey}]
      /\ \A u \in Threads : Alone(u)
      /\ user[k] \in {t, NoThread} /\ \A u \in Threads \ {t} : key[u] # k
  BY DEF Begin, Goto, OneUserInv, TableInv, TableTypeOK, MayUse
<1> QED
  BY <1>1 DEF Alone

LEMMA EndAlone ==
  ASSUME OneUserInv, NEW t \in Threads, NEW from, from # "idle", End(t, from),
         user' = user \/ user' = [user EXCEPT ![key[t]] = t]
  PROVE  \A u \in Threads : Alone(u)'
<1>1. /\ pc' = [pc EXCEPT ![t] = "idle"] /\ key' = [key EXCEPT ![t] = NoKey] /\ pc[t] # "idle"
      /\ pc \in [Threads -> TableLabels] /\ key \in [Threads -> Keys \cup {NoKey}]
      /\ user \in [Keys -> Threads \cup {NoThread}]
      /\ \A u \in Threads : Alone(u) /\ HasArgs(u)
  BY DEF End, Goto, OneUserInv, TableInv, TableTypeOK
<1>2. \A u \in Threads : pc[u] # "idle" => key[u] \in Keys
  BY <1>1 DEF HasArgs
<1> QED
  BY <1>1, <1>2, DurableTableAssumption DEF Alone

LEMMA GotoAlone ==
  ASSUME OneUserInv, NEW t \in Threads, NEW from, NEW to, from # "idle", to # "idle",
         Goto(t, from, to), UNCHANGED <<key, user>>
  PROVE  \A u \in Threads : Alone(u)'
BY DEF Goto, OneUserInv, TableInv, TableTypeOK, Alone

(* A thread takes or gives up a key that no operation is using.            *)
LEMMA IdleAlone ==
  ASSUME OneUserInv, NEW k \in Keys, NEW t, UNCHANGED <<pc, key>>,
         user' = [user EXCEPT ![k] = t], \A u \in Threads : key[u] # k
  PROVE  \A u \in Threads : Alone(u)'
<1>1. /\ \A u \in Threads : Alone(u) /\ HasArgs(u) /\ key[u] # k
      /\ user \in [Keys -> Threads \cup {NoThread}]
  BY DEF OneUserInv, TableInv, TableTypeOK
<1> QED
  BY <1>1 DEF Alone, HasArgs

LEMMA SameAlone ==
  ASSUME OneUserInv, UNCHANGED <<pc, key, user>>
  PROVE  \A u \in Threads : Alone(u)'
BY DEF OneUserInv, Alone

(* A step that concerns only key k leaves what others found as it was.     *)
LEMMA FoundKept ==
  ASSUME OneUserInv, NEW u \in Threads, NEW k, pc[u] # "idle" => key[u] # k,
         pc'[u] = pc[u], key'[u] = key[u], obj'[u] = obj[u], excl'[u] = excl[u],
         Cached' \subseteq Cached \cup {k},
         \A j \in Cached' : j # k => cache_'[j] = cache_[j],
         stored \ {k} \subseteq stored'
  PROVE  Found(u)'
<1>1. Found(u)
  BY DEF OneUserInv
<1> QED
  BY <1>1 DEF Found

(* The key of an operation is not the key of another.                      *)
LEMMA KeyApart ==
  ASSUME OneUserInv, NEW t \in Threads, pc[t] # "idle"
  PROVE  \A u \in Threads \ {t} : key[u] # key[t]
BY DEF OneUserInv, Alone

LEMMA OneUserInvIf ==
  ASSUME TableInv', \A u \in Threads : Alone(u)', \A u \in Threads : Found(u)', CachedIsStored'
  PROVE  OneUserInv'
BY DEF OneUserInv

-----------------------------------------------------------------------------
LEMMA OneUserInit == ASSUME Init PROVE OneUserInv
<1>1. TableInv
  BY TableInvInit
<1> QED
  BY <1>1 DEF Init, CacheInit, OneUserInv, Alone, Found, CachedIsStored, Cached

LEMMA OneUserGet ==
  ASSUME OneUserInv, OneUser, NEW t \in Threads, NEW k \in Keys, GetCached(t, k) \/ GetCopy(t, k)
  PROVE  OneUserInv'
<1>1. TableInv' /\ Shrinks
  BY GetSteps DEF OneUserInv
<1>2. /\ MayUse(t, k) /\ pc[t] = "idle" /\ UNCHANGED <<stored, pc, key, obj, excl>>
      /\ user' = [user EXCEPT ![k] = t] \/ user' = user
  BY DEF GetCached, GetCopy, tvars, Args
<1>3. \A u \in Threads : key[u] # k
  BY <1>2, DurableTableAssumption DEF MayUse, OneUserInv, Alone
<1>4. \A u \in Threads : Alone(u)'
  BY <1>2, <1>3, IdleAlone, SameAlone
<1>5. \A u \in Threads : Found(u)'
  BY <1>1, <1>2, <1>3, FoundKept DEF Shrinks
<1>6. CachedIsStored'
  BY <1>1, <1>2 DEF OneUserInv, CachedIsStored, Shrinks
<1> QED
  BY <1>1, <1>4, <1>5, <1>6, OneUserInvIf

LEMMA OneUserRelease ==
  ASSUME OneUserInv, OneUser, NEW t \in Threads, NEW k \in Keys,
         ReleaseObject(t, k) \/ ReleaseTwice(t, k) \/ RemoveObject(t, k)
  PROVE  OneUserInv'
<1>1. TableInv' /\ Shrinks
  BY ReleaseSteps, RemoveStep DEF OneUserInv
<1>2. /\ pc[t] = "idle" /\ UNCHANGED <<stored, pc, key, obj, excl>>
      /\ \/ user[k] = t /\ user' = [user EXCEPT ![k] = NoThread]
         \/ user' = user
  BY DEF ReleaseObject, ReleaseTwice, RemoveObject, tvars, Args
<1>3. \A u \in Threads : Alone(u)'
  <2>1. CASE user' = user
    BY <1>2, <2>1, SameAlone
  <2>2. CASE user[k] = t /\ user' = [user EXCEPT ![k] = NoThread]
    <3>1. \A u \in Threads : key[u] # k
      BY <1>2, <2>2, DurableTableAssumption DEF OneUserInv, Alone
    <3> QED
      BY <1>2, <2>2, <3>1, IdleAlone
  <2> QED
    BY <1>2, <2>1, <2>2
<1>4. \A u \in Threads : Found(u)'
  <2>1. NoKey \notin Cached'
    BY <1>1, DurableTableAssumption DEF Shrinks, Cached
  <2> QED
    BY <1>1, <1>2 DEF Shrinks, OneUserInv, Found
<1>5. CachedIsStored'
  BY <1>1, <1>2 DEF OneUserInv, CachedIsStored, Shrinks
<1> QED
  BY <1>1, <1>3, <1>4, <1>5, OneUserInvIf

LEMMA OneUserFlush == ASSUME OneUserInv, FlushCache PROVE OneUserInv'
<1>1. TableInv' /\ Shrinks
  BY FlushStep DEF OneUserInv
<1>2. UNCHANGED <<stored, user, pc, key, obj, excl>>
  BY DEF FlushCache, tvars
<1>3. \A u \in Threads : Found(u)'
  BY <1>1, <1>2 DEF Shrinks, OneUserInv, Found
<1>4. CachedIsStored'
  BY <1>1, <1>2 DEF OneUserInv, CachedIsStored, Shrinks
<1> QED
  BY <1>1, <1>2, <1>3, <1>4, SameAlone, OneUserInvIf

(* An operation begins: what it tests first is what it goes by.            *)
LEMMA OneUserBegin ==
  ASSUME OneUserInv, OneUser, NEW t \in Threads, NEW k \in Keys,
         \/ GetMiss(t, k) \/ DelCached(t, k) \/ DelMiss(t, k)
         \/ \E x \in BOOLEAN : PutCall(t, k, x)
  PROVE  OneUserInv'
<1>1. TableInv' /\ Shrinks /\ UNCHANGED <<stored, user>>
  BY BeginSteps DEF OneUserInv
<1> DEFINE Started(label, o, x) ==
      /\ label \in {"read", "store", "erase"}
      /\ MayUse(t, k) /\ Begin(t, k, label, o, x)
      /\ label # "store" => k \notin Cached'
      /\ label = "store" => (k \in Cached => cache_[k] = o)
<1>2. PICK label, o, x : Started(label, o, x)
  <2>1. ASSUME GetMiss(t, k)
        PROVE  Started("read", NoObject, FALSE)
    BY <1>1, <2>1 DEF GetMiss, Shrinks
  <2>2. ASSUME DelMiss(t, k)
        PROVE  Started("erase", NoObject, FALSE)
    BY <1>1, <2>2 DEF DelMiss, Shrinks
  <2>3. ASSUME DelCached(t, k)
        PROVE  Started("erase", NoObject, FALSE)
    <3>1. k \notin Cached'
      BY <2>3 DEF DelCached, Del, Forget, Uncached, Cached
    <3> QED
      BY <2>3, <3>1 DEF DelCached
  <2>4. ASSUME NEW x \in BOOLEAN, PutCall(t, k, x)
        PROVE  \E o : Started("store", o, x)
    <3>1. PICK o : /\ MayUse(t, k) /\ Begin(t, k, "store", o, x)
                   /\ k \in Cached => cache_[k] = o
      BY <2>4 DEF PutCall, OneUserInv, CachedIsStored
    <3>2. Started("store", o, x)
      BY <3>1
    <3> HIDE DEF Started
    <3> QED
      BY <3>2
  <2> HIDE DEF Started
  <2> QED
    BY <2>1, <2>2, <2>3, <2>4
<1>3. \A u \in Threads : Alone(u)'
  BY <1>1, <1>2, BeginAlone
<1>4. /\ pc' = [pc EXCEPT ![t] = label] /\ key' = [key EXCEPT ![t] = k]
      /\ obj' = [obj EXCEPT ![t] = o] /\ excl' = [excl EXCEPT ![t] = x]
      /\ pc \in [Threads -> TableLabels] /\ key \in [Threads -> Keys \cup {NoKey}]
      /\ obj \in [Threads -> Objects \cup {NoObject}] /\ excl \in [Threads -> BOOLEAN]
  BY <1>2 DEF Begin, Goto, OneUserInv, TableInv, TableTypeOK
<1>5. Found(t)'
  BY <1>1, <1>2, <1>4 DEF Found, Shrinks
<1>6. \A u \in Threads \ {t} : Found(u)'
  <2>1. \A u \in Threads \ {t} : key[u] # k
    BY <1>2 DEF MayUse
  <2> QED
    BY <1>1, <1>4, <2>1, FoundKept DEF Shrinks
<1>7. CachedIsStored'
  BY <1>1 DEF OneUserInv, CachedIsStored, Shrinks
<1> QED
  BY <1>1, <1>3, <1>5, <1>6, <1>7, OneUserInvIf

(* The store answers: nobody else has changed what it says of this key.    *)
LEMMA OneUserStore ==
  ASSUME OneUserInv, OneUser, NEW t \in Threads,
         Read(t) \/ Erase(t) \/ \E create \in BOOLEAN : PutInStore(t, create)
  PROVE  OneUserInv'
<1>1. TableInv' /\ UNCHANGED <<cvars, user>> /\ Cached' = Cached /\ cache_' = cache_
  BY StoreSteps DEF OneUserInv, cvars, Cached
<1>2. /\ pc \in [Threads -> TableLabels] /\ key \in [Threads -> Keys \cup {NoKey}]
      /\ obj \in [Threads -> Objects \cup {NoObject}] /\ excl \in [Threads -> BOOLEAN]
      /\ Found(t) /\ CachedIsStored
  BY DEF OneUserInv, TableInv, TableTypeOK
<1>3. /\ pc[t] # "idle" /\ stored \ {key[t]} \subseteq stored'
      /\ \A u \in Threads \ {t} : /\ pc'[u] = pc[u] /\ key'[u] = key[u]
                                   /\ obj'[u] = obj[u] /\ excl'[u] = excl[u]
  BY <1>2 DEF Read, Erase, PutInStore, Goto, End, Args
<1>4. \A u \in Threads : Alone(u)'
  <2>1. \/ \E from \in {"read", "erase", "store"} : End(t, from)
        \/ UNCHANGED key /\ (Goto(t, "read", "fill") \/ Goto(t, "store", "cache"))
    BY DEF Read, Erase, PutInStore, Args
  <2> QED
    BY <1>1, <2>1, EndAlone, GotoAlone
<1>5. \A u \in Threads \ {t} : Found(u)'
  BY <1>1, <1>3, KeyApart, FoundKept
<1>6. Found(t)'
  BY <1>1, <1>2 DEF Read, Erase, PutInStore, Goto, End, Args, Found, CachedIsStored
<1>7. CachedIsStored'
  BY <1>1, <1>2 DEF Read, Erase, PutInStore, Goto, End, Found, CachedIsStored
<1> QED
  BY <1>1, <1>4, <1>5, <1>6, <1>7, OneUserInvIf

(* The object goes into the cache: neither assertion can fail.             *)
LEMMA OneUserCache ==
  ASSUME OneUserInv, OneUser, NEW t \in Threads, Fill(t) \/ PutInCache(t)
  PROVE  OneUserInv'
<1>1. /\ TableInv' /\ UNCHANGED stored /\ Cached' \subseteq Cached \cup {key[t]}
      /\ \A j \in Cached' : j # key[t] => cache_'[j] = cache_[j]
  BY CacheSteps DEF OneUserInv
<1>2. /\ pc \in [Threads -> TableLabels] /\ key \in [Threads -> Keys \cup {NoKey}]
      /\ obj \in [Threads -> Objects \cup {NoObject}] /\ excl \in [Threads -> BOOLEAN]
      /\ Found(t) /\ CachedIsStored
  BY DEF OneUserInv, TableInv, TableTypeOK
<1>3. /\ \E from \in {"fill", "cache"} : End(t, from)
      /\ user' = user \/ user' = [user EXCEPT ![key[t]] = t]
      /\ key[t] \in stored
  BY <1>2 DEF Fill, PutInCache, Found
<1>4. /\ pc[t] # "idle" /\ pc' = [pc EXCEPT ![t] = "idle"] /\ key' = [key EXCEPT ![t] = NoKey]
      /\ obj' = [obj EXCEPT ![t] = NoObject] /\ excl' = [excl EXCEPT ![t] = FALSE]
  BY <1>3 DEF End, Goto
<1>5. \A u \in Threads : Alone(u)'
  BY <1>3, EndAlone
<1>6. \A u \in Threads \ {t} : Found(u)'
  BY <1>1, <1>2, <1>4, KeyApart, FoundKept
<1>7. Found(t)'
  BY <1>2, <1>4 DEF Found
<1>8. CachedIsStored'
  BY <1>1, <1>2, <1>3 DEF CachedIsStored
<1> QED
  BY <1>1, <1>5, <1>6, <1>7, <1>8, OneUserInvIf

LEMMA OneUserNext == ASSUME OneUser, OneUserInv, [Next]_vars PROVE OneUserInv'
<1>1. ASSUME NEW t \in Threads, NEW k \in Keys,
             \/ GetCached(t, k) \/ GetMiss(t, k) \/ GetCopy(t, k)
             \/ \E x \in BOOLEAN : PutCall(t, k, x)
             \/ DelCached(t, k) \/ DelMiss(t, k)
             \/ ReleaseObject(t, k) \/ ReleaseTwice(t, k) \/ RemoveObject(t, k)
      PROVE  OneUserInv'
  BY <1>1, OneUserGet, OneUserBegin, OneUserRelease
<1>2. ASSUME NEW t \in Threads,
             \/ Read(t) \/ Fill(t) \/ PutInCache(t) \/ Erase(t)
             \/ \E create \in BOOLEAN : PutInStore(t, create)
      PROVE  OneUserInv'
  BY <1>2, OneUserStore, OneUserCache
<1>3. CASE UNCHANGED vars
  <2>1. TableInv'
    BY <1>3, TableInvSame DEF OneUserInv
  <2> QED
    BY <1>3, <2>1 DEF OneUserInv, Alone, Found, CachedIsStored, Cached, vars, tvars, cvars
<1> QED
  BY <1>1, <1>2, <1>3, OneUserFlush DEF Next

THEOREM AlwaysOneUserInv == ASSUME OneUser PROVE Spec => []OneUserInv
BY OneUserInit, OneUserNext, PTL DEF Spec

(* When the threads keep to one user of a key at a time, the assertions of *)
(* DurableTable's get() and put(), that the cache takes the object, hold   *)
(* whatever the threads do with other keys, and whatever is evicted or     *)
(* flushed between the two halves of the operation.  Without that          *)
(* convention they fail: the run MCDurableTableGetters.                    *)
THEOREM TableNoAssertFails == ASSUME OneUser PROVE Spec => []NoAssertFails
<1>1. OneUserInv => NoAssertFails
  BY DEF OneUserInv, Found, NoAssertFails
<1> QED
  BY <1>1, AlwaysOneUserInv, PTL

(* And then whatever is in the cache is in the store.                      *)
THEOREM TableCachedIsStored == ASSUME OneUser PROVE Spec => []CachedIsStored
<1>1. OneUserInv => CachedIsStored
  BY DEF OneUserInv
<1> QED
  BY <1>1, AlwaysOneUserInv, PTL
=============================================================================
