-------------------------- MODULE RelationsProofs --------------------------
(***************************************************************************)
(* What holds of the index of certificates and of what is shown of it, for *)
(* any files, contents and edits.  The verification of a signature stays   *)
(* closed here: whatever verdict it gives, the status and the arrow carry  *)
(* the same one.                                                           *)
(***************************************************************************)
EXTENDS Relations, Integers, FiniteSetTheorems, WellFoundedInduction,
        SequenceTheorems, TLAPS

-----------------------------------------------------------------------------
(* Filtering a sequence is keeping the positions of a kind.  The least     *)
(* number takes the place of an induction in what is proved of it.         *)
(* Every nonempty set of naturals has a least element.                     *)
LEMMA LeastNatural ==
  ASSUME NEW S \in SUBSET Nat, S # {}
  PROVE  \E m \in S : \A n \in S : m <= n
<1> DEFINE R == OpToRel(<, Nat)
<1>1. IsWellFoundedOn(R, Nat)
  BY NatLessThanWellFounded
<1>2. R = {ss \in Nat \X Nat : ss[1] < ss[2]}
  BY DEF OpToRel
<1> HIDE DEF R
<1>3. PICK m \in S : \A y \in S : ~(<<y, m>> \in R)
  BY <1>1, WFMin
<1>4. \A y \in S : ~(y < m)
  BY <1>2, <1>3
<1> QED
  BY <1>4

(* The positions of a sequence are finitely many naturals.                 *)
LEMMA PositionsAreFinite ==
  ASSUME NEW n \in Nat, NEW I \in SUBSET (1 .. n)
  PROVE  IsFiniteSet(I) /\ I \in SUBSET Nat /\ Cardinality(I) \in Nat
<1>1. IsFiniteSet(1 .. n)
  <2>1. n \in Int
    OBVIOUS
  <2> QED
    BY <2>1, FS_Interval
<1>2. IsFiniteSet(I)
  BY <1>1, FS_Subset
<1> QED
  BY <1>2, FS_CardinalityType

(* How many positions there are up to one of them.                         *)
LEMMA CountToType ==
  ASSUME NEW I \in SUBSET Nat, IsFiniteSet(I), NEW i \in Int
  PROVE  countTo(I, i) \in Nat /\ countTo(I, i) <= Cardinality(I) /\ Cardinality(I) \in Nat
<1>1. {j \in I : j <= i} \in SUBSET I
  OBVIOUS
<1> QED
  BY <1>1, FS_Subset, FS_CardinalityType DEF countTo

LEMMA CountToGrows ==
  ASSUME NEW I \in SUBSET Nat, IsFiniteSet(I), NEW i \in Nat
  PROVE  countTo(I, i) = countTo(I, i - 1) + IF i \in I THEN 1 ELSE 0
<1> DEFINE low == {j \in I : j <= i - 1}
<1>1. IsFiniteSet(low)
  BY FS_Subset
<1>0. \A j \in I : j \in Nat /\ (j <= i <=> j <= i - 1 \/ j = i)
  OBVIOUS
<1>2. CASE i \in I
  <2>0. ~(i <= i - 1)
    OBVIOUS
  <2>3. i \notin low
    BY <2>0
  <2>1. {j \in I : j <= i} = low \cup {i}
    BY <1>0, <1>2, Zenon
  <2> QED
    BY <1>1, <1>2, <2>1, <2>3, FS_AddElement, CountToType DEF countTo
<1>3. CASE i \notin I
  <2>1. {j \in I : j <= i} = low
    BY <1>0, <1>3
  <2>2. Cardinality(low) \in Nat
    BY <1>1, FS_CardinalityType
  <2> QED
    BY <1>3, <2>1, <2>2 DEF countTo
<1> QED
  BY <1>2, <1>3

LEMMA CountToIsStrict ==
  ASSUME NEW I \in SUBSET Nat, IsFiniteSet(I), NEW i \in I, NEW j \in I, i < j
  PROVE  countTo(I, i) < countTo(I, j)
<1> DEFINE A == {k \in I : k <= i}
           B == {k \in I : k <= j}
<1>1. A \in SUBSET B /\ A # B /\ IsFiniteSet(B) /\ IsFiniteSet(A)
  <2>1. j \in B /\ j \notin A
    OBVIOUS
  <2>2. IsFiniteSet(B) /\ IsFiniteSet(A)
    BY FS_Subset
  <2>3. \A k \in I : k \in Nat /\ (k <= i => k <= j)
    OBVIOUS
  <2> QED
    BY <2>1, <2>2, <2>3
<1>2. Cardinality(A) <= Cardinality(B) /\ Cardinality(A) # Cardinality(B)
  BY <1>1, FS_Subset
<1>3. Cardinality(A) \in Nat /\ Cardinality(B) \in Nat
  BY <1>1, FS_CardinalityType
<1> QED
  BY <1>2, <1>3 DEF countTo

(* There is a k-th position, and it is one only.                           *)
LEMMA NthExists ==
  ASSUME NEW n \in Nat, NEW I \in SUBSET (1 .. n), NEW k \in 1 .. Cardinality(I)
  PROVE  nth(I, k) \in I /\ countTo(I, nth(I, k)) = k
<1>1. IsFiniteSet(I) /\ I \in SUBSET Nat /\ Cardinality(I) \in Nat
  BY PositionsAreFinite
<1>2. Cardinality(I) \in Nat /\ k \in Nat /\ k > 0
  BY <1>1, FS_CardinalityType
<1> DEFINE D == {m \in 0 .. n : countTo(I, m) >= k}
<1>3. n \in D
  <2>0. \A j \in I : j <= n
    OBVIOUS
  <2>1. {j \in I : j <= n} = I
    BY <2>0
  <2> QED
    BY <1>2, <2>1 DEF countTo
<1>4. PICK m \in D : \A l \in D : m <= l
  <2>1. D \in SUBSET Nat /\ D # {}
    BY <1>3
  <2> HIDE DEF D
  <2> QED
    BY <2>1, LeastNatural
<1>5. m # 0
  <2>0. \A j \in I : ~(j <= 0)
    OBVIOUS
  <2>1. {j \in I : j <= 0} = {}
    BY <2>0
  <2>2. countTo(I, 0) = 0
    BY <2>1, FS_EmptySet DEF countTo
  <2> QED
    BY <1>2, <1>4, <2>2
<1>6. m - 1 \in 0 .. n /\ ~(countTo(I, m - 1) >= k)
  BY <1>4, <1>5
<1>7. countTo(I, m) = countTo(I, m - 1) + IF m \in I THEN 1 ELSE 0
  BY <1>1, <1>4, CountToGrows
<1>8. countTo(I, m) \in Nat /\ countTo(I, m - 1) \in Nat
  BY <1>1, <1>4, CountToType
<1>9. m \in I /\ countTo(I, m) = k
  BY <1>2, <1>4, <1>6, <1>7, <1>8
<1> QED
  BY <1>9 DEF nth

LEMMA NthIncreases ==
  ASSUME NEW n \in Nat, NEW I \in SUBSET (1 .. n),
         NEW k \in 1 .. Cardinality(I), NEW l \in 1 .. Cardinality(I), k < l
  PROVE  nth(I, k) < nth(I, l)
<1>1. IsFiniteSet(I) /\ I \in SUBSET Nat /\ Cardinality(I) \in Nat
  BY PositionsAreFinite
<1>2. /\ nth(I, k) \in I /\ countTo(I, nth(I, k)) = k
      /\ nth(I, l) \in I /\ countTo(I, nth(I, l)) = l
  BY NthExists
<1>3. k \in Int /\ l \in Int
  BY <1>1, FS_CardinalityType
<1>4. nth(I, l) < nth(I, k) => l < k
  BY <1>1, <1>2, CountToIsStrict
<1>5. k # l
  BY <1>3
<1>6. nth(I, l) # nth(I, k)
  BY <1>2, <1>5
<1>7. nth(I, l) \in Nat /\ nth(I, k) \in Nat
  BY <1>1, <1>2
<1> QED
  BY <1>3, <1>4, <1>6, <1>7

LEMMA NthReaches ==
  ASSUME NEW n \in Nat, NEW I \in SUBSET (1 .. n), NEW i \in I
  PROVE  countTo(I, i) \in 1 .. Cardinality(I) /\ nth(I, countTo(I, i)) = i
<1>1. IsFiniteSet(I) /\ I \in SUBSET Nat /\ Cardinality(I) \in Nat
  BY PositionsAreFinite
<1>2. countTo(I, i) \in 1 .. Cardinality(I)
  <2>1. countTo(I, i) = countTo(I, i - 1) + 1 /\ countTo(I, i - 1) \in Nat
    BY <1>1, CountToGrows, CountToType
  <2>2. countTo(I, i) \in Nat /\ countTo(I, i) <= Cardinality(I) /\ Cardinality(I) \in Nat
    BY <1>1, CountToType
  <2> QED
    BY <2>1, <2>2
<1> DEFINE j == nth(I, countTo(I, i))
<1>3. j \in I /\ countTo(I, j) = countTo(I, i)
  BY <1>2, NthExists
<1> HIDE DEF j
<1>4. ~(i < j) /\ ~(j < i)
  <2>1. countTo(I, i) \in Nat
    BY <1>1, CountToType
  <2>2. i < j => countTo(I, i) < countTo(I, j)
    BY <1>1, <1>3, CountToIsStrict
  <2>3. j < i => countTo(I, j) < countTo(I, i)
    BY <1>1, <1>3, CountToIsStrict
  <2> QED
    BY <1>3, <2>1, <2>2, <2>3
<1>5. i = j
  BY <1>1, <1>3, <1>4
<1> QED
  BY <1>2, <1>5 DEF j

(* An increasing enumeration of a set of positions is the one.             *)
LEMMA OrderIsUnique ==
  ASSUME NEW n \in Nat, NEW I \in SUBSET (1 .. n), NEW c \in Nat, NEW f \in [1 .. c -> I],
         \A k, l \in 1 .. c : k < l => f[k] < f[l],
         \A i \in I : \E k \in 1 .. c : f[k] = i
  PROVE  Cardinality(I) = c /\ \A k \in 1 .. c : nth(I, k) = f[k]
<1>1. IsFiniteSet(I) /\ I \in SUBSET Nat /\ \A i \in I : i \in Nat
  BY PositionsAreFinite
<1>2. \A k, l \in 1 .. c : f[l] <= f[k] <=> l <= k
  <2> TAKE k, l \in 1 .. c
  <2>1. f[k] \in Nat /\ f[l] \in Nat
    BY <1>1
  <2>2. k \in Nat /\ l \in Nat
    OBVIOUS
  <2>3. (k < l => f[k] < f[l]) /\ (l < k => f[l] < f[k])
    OBVIOUS
  <2>4. k = l => f[k] = f[l]
    OBVIOUS
  <2> QED
    BY <2>1, <2>2, <2>3, <2>4
<1>3. ASSUME NEW k \in 1 .. c PROVE countTo(I, f[k]) = k
  <2> DEFINE A == {j \in I : j <= f[k]}
             g == [l \in 1 .. k |-> f[l]]
  <2>1. 1 .. k \subseteq 1 .. c /\ k \in Nat
    OBVIOUS
  <2>2. \A l \in 1 .. k : l \in 1 .. c /\ f[l] \in A
    BY <1>2, <2>1
  <2>3. g \in [1 .. k -> A]
    BY <2>2
  <2>4. \A l, m \in 1 .. k : g[l] = g[m] => l = m
    <3> SUFFICES ASSUME NEW l \in 1 .. k, NEW m \in 1 .. k, f[l] = f[m] PROVE l = m
      OBVIOUS
    <3>1. l \in 1 .. c /\ m \in 1 .. c /\ l \in Nat /\ m \in Nat
      BY <2>1
    <3>2. f[l] \in Nat
      BY <1>1, <3>1
    <3>3. f[l] <= f[m] /\ f[m] <= f[l]
      BY <3>2
    <3> QED
      BY <1>2, <3>1, <3>3
  <2>5. \A a \in A : \E l \in 1 .. k : g[l] = a
    <3> TAKE a \in A
    <3>1. PICK l \in 1 .. c : f[l] = a
      OBVIOUS
    <3>2. l <= k
      BY <1>2, <3>1
    <3>3. l \in 1 .. k
      BY <3>2
    <3> QED
      BY <3>1, <3>3
  <2>6. g \in Bijection(1 .. k, A)
    BY <2>3, <2>4, <2>5 DEF Bijection, Injection, Surjection, IsInjective
  <2>7. IsFiniteSet(1 .. k) /\ Cardinality(1 .. k) = k
    <3>1. 1 \in Int /\ k \in Int /\ k >= 1
      OBVIOUS
    <3> QED
      BY <3>1, FS_Interval
  <2>8. ExistsBijection(1 .. k, A)
    BY <2>6 DEF ExistsBijection
  <2> HIDE DEF A, g
  <2>9. Cardinality(A) = k
    BY <2>7, <2>8, FS_Bijection
  <2> QED
    BY <2>9 DEF A, countTo
<1>4. \A k \in 1 .. c : nth(I, k) = f[k]
  BY <1>3, NthReaches, ZenonT(30)
<1>5. Cardinality(I) = c
  <2>1. CASE c = 0
    <3>1. I = {}
      BY <2>1
    <3> QED
      BY <2>1, <3>1, FS_EmptySet
  <2>2. CASE c # 0
    <3>1. c \in 1 .. c
      BY <2>2
    <3>2. \A i \in I : i <= f[c]
      <4> TAKE i \in I
      <4>1. PICK k \in 1 .. c : f[k] = i
        OBVIOUS
      <4>2. k <= c
        OBVIOUS
      <4> QED
        BY <1>2, <3>1, <4>1, <4>2
    <3>3. {j \in I : j <= f[c]} = I
      BY <3>2
    <3> QED
      BY <1>3, <3>1, <3>3 DEF countTo
  <2> QED
    BY <2>1, <2>2
<1> QED
  BY <1>4, <1>5

-----------------------------------------------------------------------------
(* What is left of a sequence when only a set of positions is kept: its    *)
(* elements there, in order.                                               *)
keep(s, I) == [k \in 1 .. Cardinality(I) |-> s[nth(I, k)]]

partOf(T, s, I, t) ==
  /\ Cardinality(I) \in Nat
  /\ t \in Seq(T)
  /\ Len(t) = Cardinality(I)
  /\ DOMAIN t = 1 .. Cardinality(I)
  /\ \A k \in 1 .. Cardinality(I) : nth(I, k) \in I /\ t[k] = s[nth(I, k)]
  /\ \A i \in I : \E k \in 1 .. Cardinality(I) : nth(I, k) = i
  /\ \A k, l \in 1 .. Cardinality(I) : nth(I, k) = nth(I, l) => k = l

LEMMA KeepIs ==
  ASSUME NEW T, NEW s \in Seq(T), NEW I \in SUBSET (1 .. Len(s))
  PROVE  partOf(T, s, I, keep(s, I))
<1> DEFINE c == Cardinality(I)
           n == Len(s)
<1>1. n \in Nat /\ s \in [1 .. n -> T]
  BY LenProperties
<1>2. c \in Nat
  BY <1>1, PositionsAreFinite
<1>3. \A k \in 1 .. c : nth(I, k) \in I /\ countTo(I, nth(I, k)) = k
  BY <1>1, NthExists
<1>4. \A i \in I : \E k \in 1 .. c : nth(I, k) = i
  BY <1>1, NthReaches
<1>5. keep(s, I) = [k \in 1 .. c |-> s[nth(I, k)]]
  BY DEF keep
<1> HIDE DEF c, n
<1>6. keep(s, I) \in [1 .. c -> T]
  <2>1. \A k \in 1 .. c : s[nth(I, k)] \in T
    BY <1>1, <1>3 DEF n
  <2> QED
    BY <1>5, <2>1
<1>7. keep(s, I) \in Seq(T) /\ Len(keep(s, I)) = c
  BY <1>2, <1>6, LenProperties, SeqDef
<1>8. \A k, l \in 1 .. c : nth(I, k) = nth(I, l) => k = l
  <2> SUFFICES ASSUME NEW k \in 1 .. c, NEW l \in 1 .. c, nth(I, k) = nth(I, l)
               PROVE  k = l
    OBVIOUS
  <2>1. countTo(I, nth(I, k)) = k /\ countTo(I, nth(I, l)) = l
    BY <1>3
  <2> QED
    BY <2>1
<1>9. \A k \in 1 .. c : keep(s, I)[k] = s[nth(I, k)]
  BY <1>5
<1>10. DOMAIN keep(s, I) = 1 .. c
  BY <1>5
<1> QED
  BY <1>2, <1>3, <1>4, <1>7, <1>8, <1>9, <1>10 DEF c, partOf

(* Keeping some of what was kept is keeping the positions they came from.  *)
LEMMA KeepOfKeep ==
  ASSUME NEW T, NEW s \in Seq(T), NEW I \in SUBSET (1 .. Len(s)),
         NEW J \in SUBSET (1 .. Cardinality(I))
  PROVE  keep(keep(s, I), J) = keep(s, {nth(I, j) : j \in J})
<1> DEFINE n == Len(s)
           c == Cardinality(I)
           d == Cardinality(J)
           K == {nth(I, j) : j \in J}
           f == [k \in 1 .. d |-> nth(I, nth(J, k))]
<1>1. n \in Nat /\ c \in Nat /\ d \in Nat
  BY LenProperties, PositionsAreFinite
<1>2. \A j \in 1 .. c : nth(I, j) \in I
  BY <1>1, NthExists
<1>3. \A k \in 1 .. d : nth(J, k) \in J
  BY <1>1, NthExists
<1>4. K \in SUBSET (1 .. n)
  BY <1>2
<1>5. f \in [1 .. d -> K]
  BY <1>3
<1>6. \A k, l \in 1 .. d : k < l => f[k] < f[l]
  <2> SUFFICES ASSUME NEW k \in 1 .. d, NEW l \in 1 .. d, k < l
               PROVE  nth(I, nth(J, k)) < nth(I, nth(J, l))
    OBVIOUS
  <2>1. nth(J, k) < nth(J, l)
    BY <1>1, NthIncreases
  <2>2. nth(J, k) \in 1 .. c /\ nth(J, l) \in 1 .. c
    BY <1>3
  <2> QED
    BY <1>1, <2>1, <2>2, NthIncreases
<1>7. \A i \in K : \E k \in 1 .. d : f[k] = i
  <2> SUFFICES ASSUME NEW j \in J PROVE \E k \in 1 .. d : f[k] = nth(I, j)
    OBVIOUS
  <2>1. countTo(J, j) \in 1 .. d /\ nth(J, countTo(J, j)) = j
    BY <1>1, NthReaches
  <2> QED
    BY <2>1
<1> HIDE DEF n, c, d, K, f
<1>8. Cardinality(K) = d /\ \A k \in 1 .. d : nth(K, k) = f[k]
  BY <1>1, <1>4, <1>5, <1>6, <1>7, OrderIsUnique, ZenonT(30)
<1>9. keep(s, K) = [k \in 1 .. d |-> s[nth(K, k)]]
  BY <1>8 DEF keep
<1>10. keep(keep(s, I), J) = [k \in 1 .. d |-> keep(s, I)[nth(J, k)]]
  BY DEF keep, d
<1>11. \A k \in 1 .. d : keep(s, I)[nth(J, k)] = s[nth(K, k)]
  <2> SUFFICES ASSUME NEW k \in 1 .. d PROVE keep(s, I)[nth(J, k)] = s[nth(K, k)]
    OBVIOUS
  <2>1. nth(J, k) \in 1 .. c
    BY <1>3 DEF c
  <2>2. keep(s, I)[nth(J, k)] = s[nth(I, nth(J, k))]
    BY <2>1 DEF keep, c
  <2>3. nth(K, k) = nth(I, nth(J, k))
    BY <1>8 DEF f
  <2> QED
    BY <2>2, <2>3
<1>12. keep(s, K) = keep(keep(s, I), J)
  BY <1>9, <1>10, <1>11
<1> QED
  BY <1>12 DEF K

(* An element at the end is kept, or it is not.                            *)
LEMMA KeepLast ==
  ASSUME NEW T, NEW s \in Seq(T), NEW e \in T, NEW I \in SUBSET (1 .. Len(s))
  PROVE  /\ keep(Append(s, e), I) = keep(s, I)
         /\ keep(Append(s, e), I \cup {Len(s) + 1}) = Append(keep(s, I), e)
<1> DEFINE n == Len(s)
           c == Cardinality(I)
           K == I \cup {n + 1}
           f == [k \in 1 .. c + 1 |-> IF k = c + 1 THEN n + 1 ELSE nth(I, k)]
           t == Append(s, e)
<1>1. n \in Nat /\ c \in Nat /\ n + 1 \in Nat /\ c + 1 \in Nat
  <2>1. n \in Nat
    BY LenProperties
  <2>2. c \in Nat
    BY <2>1, PositionsAreFinite
  <2> HIDE DEF n, c
  <2> QED
    BY <2>1, <2>2
<1>2. /\ \A i \in 1 .. n : t[i] = s[i]
      /\ t[n + 1] = e
  BY AppendProperties
<1>3. \A k \in 1 .. c : nth(I, k) \in I /\ nth(I, k) \in 1 .. n
  BY <1>1, NthExists
<1>4. keep(t, I) = keep(s, I)
  <2>1. \A k \in 1 .. c : t[nth(I, k)] = s[nth(I, k)]
    BY <1>2, <1>3
  <2> QED
    BY <2>1 DEF keep
<1>5. f \in [1 .. c + 1 -> K]
  <2>1. \A k \in 1 .. c + 1 : k = c + 1 \/ k \in 1 .. c
    BY <1>1
  <2> QED
    BY <1>3, <2>1
<1>6. \A k, l \in 1 .. c + 1 : k < l => f[k] < f[l]
  <2> SUFFICES ASSUME NEW k \in 1 .. c + 1, NEW l \in 1 .. c + 1, k < l
               PROVE  f[k] < f[l]
    OBVIOUS
  <2>1. k \in 1 .. c /\ k # c + 1 /\ (l = c + 1 \/ l \in 1 .. c)
    BY <1>1
  <2>2. l \in 1 .. c => nth(I, k) < nth(I, l)
    BY <1>1, <2>1, NthIncreases
  <2>3. nth(I, k) < n + 1
    BY <1>1, <1>3, <2>1
  <2>4. l \in 1 .. c => l # c + 1
    BY <1>1
  <2> QED
    BY <2>1, <2>2, <2>3, <2>4
<1>7. \A i \in K : \E k \in 1 .. c + 1 : f[k] = i
  <2>1. \A i \in I : countTo(I, i) \in 1 .. c /\ nth(I, countTo(I, i)) = i
    BY <1>1, NthReaches
  <2>2. \A k \in 1 .. c : k \in 1 .. c + 1 /\ k # c + 1
    BY <1>1
  <2>3. \A i \in I : \E k \in 1 .. c + 1 : f[k] = i
    BY <2>1, <2>2
  <2>4. c + 1 \in 1 .. c + 1 /\ f[c + 1] = n + 1
    BY <1>1
  <2> QED
    BY <2>3, <2>4
<1>8. K \in SUBSET (1 .. n + 1)
  <2>1. I \in SUBSET (1 .. n)
    OBVIOUS
  <2> HIDE DEF n
  <2>2. n + 1 \in 1 .. n + 1 /\ \A i \in 1 .. n : i \in 1 .. n + 1
    BY <1>1
  <2> QED
    BY <2>1, <2>2
<1> HIDE DEF n, c, K, f, t
<1>9. Cardinality(K) = c + 1 /\ \A k \in 1 .. c + 1 : nth(K, k) = f[k]
  BY <1>1, <1>5, <1>6, <1>7, <1>8, OrderIsUnique, ZenonT(30)
<1>10. keep(t, K) = [k \in 1 .. c + 1 |-> t[nth(K, k)]]
  BY <1>9 DEF keep
<1>11. /\ keep(s, I) \in Seq(T) /\ Len(keep(s, I)) = c
       /\ \A k \in 1 .. c : keep(s, I)[k] = s[nth(I, k)]
  <2>1. partOf(T, s, I, keep(s, I))
    BY KeepIs
  <2> QED
    BY <2>1 DEF partOf, c
<1>12. /\ Append(keep(s, I), e) \in Seq(T) /\ Len(Append(keep(s, I), e)) = c + 1
       /\ DOMAIN Append(keep(s, I), e) = 1 .. c + 1
       /\ \A k \in 1 .. c : Append(keep(s, I), e)[k] = s[nth(I, k)]
       /\ Append(keep(s, I), e)[c + 1] = e
  BY <1>11, AppendProperties, LenProperties
<1>13. \A k \in 1 .. c + 1 : t[nth(K, k)] = Append(keep(s, I), e)[k]
  <2> TAKE k \in 1 .. c + 1
  <2>1. CASE k = c + 1
    <3>1. nth(K, k) = n + 1
      BY <1>9, <2>1 DEF f
    <3> QED
      BY <1>2, <1>12, <2>1, <3>1
  <2>2. CASE k # c + 1
    <3>1. k \in 1 .. c
      BY <1>1, <2>2
    <3>2. nth(K, k) = nth(I, k)
      BY <1>9, <2>2 DEF f
    <3> QED
      BY <1>2, <1>3, <1>12, <3>1, <3>2
  <2> QED
    BY <2>1, <2>2
<1>14. keep(t, K) = Append(keep(s, I), e)
  <2>1. keep(t, K) \in [1 .. c + 1 -> T]
    <3>1. Append(keep(s, I), e) \in [1 .. c + 1 -> T]
      BY <1>12, LenProperties
    <3> QED
      BY <1>10, <1>13, <3>1
  <2>2. keep(t, K) \in Seq(T) /\ Len(keep(t, K)) = c + 1
    BY <1>1, <2>1, LenProperties, SeqDef
  <2> QED
    BY <1>10, <1>12, <1>13, <2>2, SeqEqual
<1> QED
  BY <1>4, <1>14 DEF n, t, K

(* Filtering, element by element, is keeping the positions of the kind:    *)
(* after n elements, what is kept of those n.                              *)
filtered(s, I, f) ==
  [n \in 0 .. Len(s) |->
     IF n = 0 THEN <<>> ELSE IF n \in I THEN Append(f[n - 1], s[n]) ELSE f[n - 1]]

keptOf(s, I, n) == keep(SubSeq(s, 1, n), I \cap (1 .. n))

LEMMA KeepNone == keep(<<>>, {}) = <<>>
<1>1. Cardinality({}) = 0
  BY FS_EmptySet
<1>2. keep(<<>>, {}) = [k \in 1 .. 0 |-> <<>>[nth({}, k)]]
  BY <1>1 DEF keep
<1> DEFINE e == keep(<<>>, {})
<1>3. e \in [1 .. 0 -> {}]
  <2>1. \A k \in 1 .. 0 : <<>>[nth({}, k)] \in {}
    OBVIOUS
  <2> QED
    BY <1>2, <2>1
<1> HIDE DEF e
<1>4. e \in Seq({}) /\ Len(e) = 0
  BY <1>3, LenProperties, SeqDef
<1>5. e = <<>>
  BY <1>4, EmptySeq
<1> QED
  BY <1>5 DEF e

LEMMA KeptStep ==
  ASSUME NEW T, NEW s \in Seq(T), NEW I \in SUBSET (1 .. Len(s)), NEW n \in 1 .. Len(s)
  PROVE  /\ s[n] \in T
         /\ keptOf(s, I, 0) = <<>>
         /\ n \in I => keptOf(s, I, n) = Append(keptOf(s, I, n - 1), s[n])
         /\ n \notin I => keptOf(s, I, n) = keptOf(s, I, n - 1)
<1> DEFINE p == SubSeq(s, 1, n - 1)
           J == I \cap (1 .. (n - 1))
<1>1. Len(s) \in Nat /\ s \in [1 .. Len(s) -> T]
  BY LenProperties
<1>2. s[n] \in T
  BY <1>1
<1>3. p \in Seq(T) /\ Len(p) = n - 1
  <2>1. \A i \in 1 .. (n - 1) : s[i] \in T
    BY <1>1
  <2>2. p = [i \in 1 .. (n - 1) |-> s[i]]
    OBVIOUS
  <2>3. n - 1 \in Nat
    BY <1>1
  <2>4. p \in [1 .. (n - 1) -> T]
    BY <2>1, <2>2
  <2> HIDE DEF p
  <2> QED
    BY <2>3, <2>4, LenProperties, SeqDef
<1>4. SubSeq(s, 1, n) = Append(p, s[n])
  BY <1>1, <1>3
<1>5. J \in SUBSET (1 .. Len(p)) /\ Len(p) + 1 = n
  BY <1>1, <1>3
<1>6. keptOf(s, I, n - 1) = keep(p, J)
  BY DEF keptOf
<1>7. n \in I => I \cap (1 .. n) = J \cup {Len(p) + 1}
  BY <1>1, <1>5
<1>8. n \notin I => I \cap (1 .. n) = J
  BY <1>1
<1>9. keptOf(s, I, 0) = <<>>
  <2>1. SubSeq(s, 1, 0) = <<>> /\ I \cap (1 .. 0) = {}
    BY <1>1
  <2> QED
    BY <2>1, KeepNone DEF keptOf
<1> HIDE DEF p, J
<1>10. /\ keep(Append(p, s[n]), J) = keep(p, J)
       /\ keep(Append(p, s[n]), J \cup {Len(p) + 1}) = Append(keep(p, J), s[n])
  <2> DEFINE e == s[n]
  <2>1. e \in T
    BY <1>2
  <2> HIDE DEF e
  <2>2. /\ keep(Append(p, e), J) = keep(p, J)
        /\ keep(Append(p, e), J \cup {Len(p) + 1}) = Append(keep(p, J), e)
    <3>1. p \in Seq(T) /\ J \in SUBSET (1 .. Len(p))
      BY <1>3, <1>5
    <3> QED
      BY ONLY <2>1, <3>1, KeepLast
  <2> QED
    BY <2>2 DEF e
<1> QED
  BY <1>2, <1>4, <1>6, <1>7, <1>8, <1>9, <1>10 DEF keptOf

LEMMA FilteredIsKept ==
  ASSUME NEW T, NEW s \in Seq(T), NEW I \in SUBSET (1 .. Len(s))
  PROVE  (CHOOSE f : f = filtered(s, I, f))[Len(s)] = keep(s, I)
<1> DEFINE g == [n \in 0 .. Len(s) |-> keptOf(s, I, n)]
<1>1. Len(s) \in Nat
  BY LenProperties
<1>2. \A n \in 1 .. Len(s) :
        /\ n - 1 \in 0 .. Len(s)
        /\ keptOf(s, I, n)
             = IF n \in I THEN Append(keptOf(s, I, n - 1), s[n]) ELSE keptOf(s, I, n - 1)
  <2> TAKE n \in 1 .. Len(s)
  <2>1. n - 1 \in 0 .. Len(s)
    BY <1>1
  <2>2. /\ n \in I => keptOf(s, I, n) = Append(keptOf(s, I, n - 1), s[n])
        /\ n \notin I => keptOf(s, I, n) = keptOf(s, I, n - 1)
    BY KeptStep, Zenon
  <2> QED
    BY <2>1, <2>2
<1>3. keptOf(s, I, 0) = <<>>
  <2>1. SubSeq(s, 1, 0) = <<>> /\ I \cap (1 .. 0) = {}
    BY <1>1
  <2> QED
    BY <2>1, KeepNone DEF keptOf
<1>4. g = filtered(s, I, g)
  <2>1. \A n \in 0 .. Len(s) :
          g[n] = IF n = 0 THEN <<>> ELSE IF n \in I THEN Append(g[n - 1], s[n]) ELSE g[n - 1]
    <3> TAKE n \in 0 .. Len(s)
    <3>1. n = 0 \/ n \in 1 .. Len(s)
      BY <1>1
    <3> QED
      BY <1>2, <1>3, <3>1
  <2>2. g = [n \in 0 .. Len(s) |-> g[n]]
    OBVIOUS
  <2> HIDE DEF g
  <2> QED
    BY <2>1, <2>2 DEF filtered
<1>5. \A f : f = filtered(s, I, f) => f[Len(s)] = g[Len(s)]
  <2> SUFFICES ASSUME NEW f, f = filtered(s, I, f) PROVE f[Len(s)] = g[Len(s)]
    OBVIOUS
  <2> DEFINE W == {n \in 0 .. Len(s) : f[n] # g[n]}
  <2> SUFFICES W = {}
    <3>1. Len(s) \in 0 .. Len(s)
      BY <1>1
    <3> HIDE DEF g
    <3> QED
      BY <3>1
  <2> SUFFICES ASSUME W # {} PROVE FALSE
    OBVIOUS
  <2>1. W \in SUBSET Nat
    OBVIOUS
  <2>2. PICK m \in W : \A n \in W : m <= n
    BY <2>1, LeastNatural
  <2>3. /\ f[m] = IF m = 0 THEN <<>> ELSE IF m \in I THEN Append(f[m - 1], s[m]) ELSE f[m - 1]
        /\ g[m] = IF m = 0 THEN <<>> ELSE IF m \in I THEN Append(g[m - 1], s[m]) ELSE g[m - 1]
    <3> HIDE DEF g
    <3>1. m \in 0 .. Len(s)
      OBVIOUS
    <3>2. \A h : filtered(s, I, h)[m]
             = IF m = 0 THEN <<>> ELSE IF m \in I THEN Append(h[m - 1], s[m]) ELSE h[m - 1]
      BY <3>1 DEF filtered
    <3> HIDE DEF W
    <3> QED
      BY <1>4, <3>2
  <2>4. f[m] # g[m] /\ m \in 0 .. Len(s)
    OBVIOUS
  <2>5. m # 0 => m - 1 \in 0 .. Len(s) /\ ~(m <= m - 1)
    BY <1>1, <2>4
  <2>6. m # 0 => f[m - 1] = g[m - 1]
    BY <2>2, <2>5
  <2> HIDE DEF g, W
  <2> QED
    BY <2>3, <2>4, <2>6
<1>6. g[Len(s)] = keep(s, I)
  <2>1. SubSeq(s, 1, Len(s)) = s
    <3>1. \A i \in 1 .. Len(s) : SubSeq(s, 1, Len(s))[i] = s[i]
      BY <1>1
    <3>2. SubSeq(s, 1, Len(s)) \in Seq(T) /\ Len(SubSeq(s, 1, Len(s))) = Len(s)
      BY <1>1
    <3> QED
      BY <3>1, <3>2, SeqEqual
  <2>2. I \cap (1 .. Len(s)) = I
    OBVIOUS
  <2>3. keptOf(s, I, Len(s)) = keep(s, I)
    BY <2>1, <2>2 DEF keptOf
  <2>4. Len(s) \in 0 .. Len(s)
    BY <1>1
  <2> QED
    BY <2>3, <2>4
<1> HIDE DEF g
<1> QED
  BY <1>4, <1>5, <1>6

-----------------------------------------------------------------------------
(* The index of certificates.                                              *)
Indexed == Entry(Content)

keysOfContents == {c.key : c \in Content}
KeyFile == [path : Files, key : keysOfContents]

unique(s) == \A i, j \in DOMAIN s : s[i].path = s[j].path => i = j

certificatesAt(s) == {i \in 1 .. Len(s) : s[i].content.kind = "certificate"}
othersAt(s, f) == {i \in 1 .. Len(s) : s[i].path # f}

-----------------------------------------------------------------------------
(* The filters of the index, as sets of positions.                         *)
LEMMA CandidatesAreKept ==
  ASSUME NEW T, NEW s \in Seq(T)
  PROVE  certCandidates(s) = keep(s, certificatesAt(s))
<1> DEFINE loop(f) ==
             [n \in 0 .. Len(s) |->
                IF n = 0 THEN <<>>
                ELSE IF s[n].content.kind = "certificate" THEN Append(f[n - 1], s[n])
                ELSE f[n - 1]]
           I == certificatesAt(s)
<1>1. certCandidates(s) = (CHOOSE f : f = loop(f))[Len(s)]
  BY DEF certCandidates, retain
<1>2. \A f : loop(f) = filtered(s, I, f)
  <2>1. Len(s) \in Nat
    BY LenProperties
  <2> QED
    BY <2>1 DEF filtered, certificatesAt
<1>3. (CHOOSE f : f = loop(f)) = (CHOOSE f : f = filtered(s, I, f))
  BY <1>2
<1>4. I \in SUBSET (1 .. Len(s))
  BY DEF certificatesAt
<1> QED
  BY <1>1, <1>3, <1>4, FilteredIsKept

LEMMA WithoutIsKept ==
  ASSUME NEW T, NEW s \in Seq(T), NEW file
  PROVE  without(s, file) = keep(s, othersAt(s, file))
<1> DEFINE loop(f) ==
             [n \in 0 .. Len(s) |->
                IF n = 0 THEN <<>>
                ELSE IF s[n].path # file THEN Append(f[n - 1], s[n]) ELSE f[n - 1]]
           I == othersAt(s, file)
<1>1. without(s, file) = (CHOOSE f : f = loop(f))[Len(s)]
  BY DEF without, retain
<1>2. \A f : loop(f) = filtered(s, I, f)
  <2>1. Len(s) \in Nat
    BY LenProperties
  <2> QED
    BY <2>1 DEF filtered, othersAt
<1>3. (CHOOSE f : f = loop(f)) = (CHOOSE f : f = filtered(s, I, f))
  BY <1>2
<1>4. I \in SUBSET (1 .. Len(s))
  BY DEF othersAt
<1> QED
  BY <1>1, <1>3, <1>4, FilteredIsKept

(* A part of an index without repetitions has none.                        *)
LEMMA KeptIsUnique ==
  ASSUME NEW T, NEW s \in Seq(T), NEW I \in SUBSET (1 .. Len(s)), unique(s)
  PROVE  unique(keep(s, I))
<1>1. /\ DOMAIN keep(s, I) = 1 .. Cardinality(I)
      /\ \A k \in 1 .. Cardinality(I) : nth(I, k) \in I /\ keep(s, I)[k] = s[nth(I, k)]
      /\ \A k, l \in 1 .. Cardinality(I) : nth(I, k) = nth(I, l) => k = l
  <2>1. partOf(T, s, I, keep(s, I))
    BY KeepIs
  <2> QED
    BY <2>1 DEF partOf
<1>2. DOMAIN s = 1 .. Len(s)
  BY LenProperties
<1>3. \A k, l \in 1 .. Cardinality(I) : s[nth(I, k)].path = s[nth(I, l)].path => k = l
  <2> SUFFICES ASSUME NEW k \in 1 .. Cardinality(I), NEW l \in 1 .. Cardinality(I),
                      s[nth(I, k)].path = s[nth(I, l)].path
               PROVE  k = l
    OBVIOUS
  <2>1. nth(I, k) \in DOMAIN s /\ nth(I, l) \in DOMAIN s
    BY <1>1, <1>2
  <2>2. nth(I, k) = nth(I, l)
    BY <2>1 DEF unique
  <2> QED
    BY <1>1, <2>2
<1> QED
  BY <1>1, <1>3 DEF unique

(* An index without a file, and the file's own entry at its end.           *)
LEMMA WithoutIs ==
  ASSUME NEW T, NEW s \in Seq(T), NEW file, unique(s)
  PROVE  /\ without(s, file) \in Seq(T)
         /\ unique(without(s, file))
         /\ \A i \in DOMAIN without(s, file) : without(s, file)[i].path # file
<1> DEFINE I == othersAt(s, file)
<1>1. I \in SUBSET (1 .. Len(s)) /\ \A i \in I : s[i].path # file
  BY DEF othersAt
<1>2. without(s, file) = keep(s, I)
  BY WithoutIsKept
<1> HIDE DEF I
<1>3. /\ keep(s, I) \in Seq(T)
      /\ DOMAIN keep(s, I) = 1 .. Cardinality(I)
      /\ \A k \in 1 .. Cardinality(I) : nth(I, k) \in I /\ keep(s, I)[k] = s[nth(I, k)]
  <2>1. partOf(T, s, I, keep(s, I))
    BY <1>1, KeepIs
  <2> QED
    BY <2>1 DEF partOf
<1>4. unique(keep(s, I))
  BY <1>1, KeptIsUnique
<1>5. \A i \in DOMAIN keep(s, I) : keep(s, I)[i].path # file
  BY <1>1, <1>3
<1> QED
  BY <1>2, <1>3, <1>4, <1>5

LEMMA OneMoreIsUnique ==
  ASSUME NEW T, NEW s \in Seq(T), NEW e \in T, unique(s),
         \A i \in DOMAIN s : s[i].path # e.path
  PROVE  /\ s \o <<e>> \in Seq(T)
         /\ unique(s \o <<e>>)
         /\ DOMAIN (s \o <<e>>) = 1 .. Len(s) + 1
         /\ \A i \in DOMAIN s : (s \o <<e>>)[i] = s[i]
         /\ \A i \in DOMAIN (s \o <<e>>) : i \in DOMAIN s \/ (i = Len(s) + 1 /\ (s \o <<e>>)[i] = e)
         /\ Len(s) + 1 \in DOMAIN (s \o <<e>>)
         /\ (s \o <<e>>)[Len(s) + 1] = e
<1> DEFINE t == s \o <<e>>
           n == Len(s)
<1>1. n \in Nat /\ DOMAIN s = 1 .. n
  BY LenProperties
<1>2. t \in Seq(T) /\ Len(t) = n + 1 /\ DOMAIN t = 1 .. n + 1
  BY LenProperties
<1>3. \A i \in 1 .. n : t[i] = s[i]
  OBVIOUS
<1>4. t[n + 1] = e
  BY <1>1
<1> HIDE DEF t, n
<1>5. \A i \in 1 .. n + 1 : i \in 1 .. n \/ i = n + 1
  BY <1>1
<1>6. n + 1 \in 1 .. n + 1
  BY <1>1
<1>7. \A i, j \in 1 .. n + 1 : t[i].path = t[j].path => i = j
  <2> SUFFICES ASSUME NEW i \in 1 .. n + 1, NEW j \in 1 .. n + 1, t[i].path = t[j].path
               PROVE  i = j
    OBVIOUS
  <2>1. CASE i \in 1 .. n /\ j \in 1 .. n
    BY <1>1, <1>3, <2>1 DEF unique
  <2>2. CASE i = n + 1 /\ j \in 1 .. n
    BY <1>1, <1>3, <1>4, <2>2
  <2>3. CASE i \in 1 .. n /\ j = n + 1
    BY <1>1, <1>3, <1>4, <2>3
  <2> QED
    BY <1>5, <2>1, <2>2, <2>3
<1>8. unique(t)
  BY <1>2, <1>7 DEF unique
<1> QED
  BY <1>1, <1>2, <1>3, <1>4, <1>5, <1>6, <1>8 DEF t, n

-----------------------------------------------------------------------------
(* The candidate issuers follow the index.                                 *)
alsoAt(I, J) == {k \in 1 .. Cardinality(I) : nth(I, k) \in J}

LEMMA KeptBoth ==
  ASSUME NEW T, NEW s \in Seq(T), NEW I \in SUBSET (1 .. Len(s)), NEW J \in SUBSET (1 .. Len(s))
  PROVE  keep(keep(s, I), alsoAt(I, J)) = keep(s, I \cap J)
<1> DEFINE K == alsoAt(I, J)
<1>1. K \in SUBSET (1 .. Cardinality(I))
  BY DEF alsoAt
<1>2. /\ Cardinality(I) \in Nat
      /\ \A k \in 1 .. Cardinality(I) : nth(I, k) \in I
      /\ \A i \in I : \E k \in 1 .. Cardinality(I) : nth(I, k) = i
  <2>1. partOf(T, s, I, keep(s, I))
    BY KeepIs
  <2> QED
    BY <2>1 DEF partOf
<1>3. {nth(I, k) : k \in K} = I \cap J
  BY <1>2 DEF alsoAt
<1> HIDE DEF K
<1>4. keep(keep(s, I), K) = keep(s, {nth(I, k) : k \in K})
  BY <1>1, KeepOfKeep
<1> QED
  BY <1>3, <1>4 DEF K

LEMMA CandidatesOfOthers ==
  ASSUME NEW T, NEW s \in Seq(T), NEW file
  PROVE  certCandidates(without(s, file)) = without(certCandidates(s), file)
<1> DEFINE I == othersAt(s, file)
           J == certificatesAt(s)
<1>1. /\ I \in SUBSET (1 .. Len(s))
      /\ J \in SUBSET (1 .. Len(s))
      /\ \A i \in 1 .. Len(s) : i \in I <=> s[i].path # file
      /\ \A i \in 1 .. Len(s) : i \in J <=> s[i].content.kind = "certificate"
  BY DEF othersAt, certificatesAt
<1>2. without(s, file) = keep(s, I) /\ certCandidates(s) = keep(s, J)
  BY WithoutIsKept, CandidatesAreKept
<1> HIDE DEF I, J
<1>a. I \in SUBSET (1 .. Len(s)) /\ J \in SUBSET (1 .. Len(s))
  BY <1>1
<1>3. /\ keep(s, I) \in Seq(T) /\ Len(keep(s, I)) = Cardinality(I)
      /\ \A k \in 1 .. Cardinality(I) : nth(I, k) \in I /\ keep(s, I)[k] = s[nth(I, k)]
  <2>1. partOf(T, s, I, keep(s, I))
    BY <1>a, KeepIs
  <2> QED
    BY <2>1 DEF partOf
<1>4. /\ keep(s, J) \in Seq(T) /\ Len(keep(s, J)) = Cardinality(J)
      /\ \A k \in 1 .. Cardinality(J) : nth(J, k) \in J /\ keep(s, J)[k] = s[nth(J, k)]
  <2>1. partOf(T, s, J, keep(s, J))
    BY <1>a, KeepIs
  <2> QED
    BY <2>1 DEF partOf
<1>5. certificatesAt(keep(s, I)) = alsoAt(I, J)
  BY <1>1, <1>3 DEF certificatesAt, alsoAt
<1>6. othersAt(keep(s, J), file) = alsoAt(J, I)
  BY <1>1, <1>4 DEF othersAt, alsoAt
<1>7. certCandidates(keep(s, I)) = keep(s, I \cap J)
  <2>1. certCandidates(keep(s, I)) = keep(keep(s, I), certificatesAt(keep(s, I)))
    BY <1>3, CandidatesAreKept
  <2>2. keep(keep(s, I), alsoAt(I, J)) = keep(s, I \cap J)
    BY <1>a, KeptBoth
  <2> QED
    BY <2>1, <2>2, <1>5
<1>8. without(keep(s, J), file) = keep(s, J \cap I)
  <2>1. without(keep(s, J), file) = keep(keep(s, J), othersAt(keep(s, J), file))
    BY <1>4, WithoutIsKept
  <2>2. keep(keep(s, J), alsoAt(J, I)) = keep(s, J \cap I)
    BY <1>a, KeptBoth
  <2> QED
    BY <2>1, <2>2, <1>6
<1>9. I \cap J = J \cap I
  OBVIOUS
<1> QED
  BY <1>2, <1>7, <1>8, <1>9

LEMMA CandidatesOfAppend ==
  ASSUME NEW T, NEW s \in Seq(T), NEW e \in T
  PROVE  certCandidates(Append(s, e))
           = IF e.content.kind = "certificate" THEN Append(certCandidates(s), e)
             ELSE certCandidates(s)
<1> DEFINE t == Append(s, e)
           I == certificatesAt(s)
           n == Len(s)
<1>1. n \in Nat /\ t \in Seq(T) /\ Len(t) = n + 1
  BY LenProperties, AppendProperties
<1>2. (\A i \in 1 .. n : t[i] = s[i]) /\ t[n + 1] = e
  BY AppendProperties
<1>3. I \in SUBSET (1 .. Len(s))
  BY DEF certificatesAt
<1>4. certCandidates(t) = keep(t, certificatesAt(t)) /\ certCandidates(s) = keep(s, I)
  BY <1>1, CandidatesAreKept
<1>5. certificatesAt(t) = IF e.content.kind = "certificate" THEN I \cup {n + 1} ELSE I
  <2>1. \A i \in 1 .. n + 1 : i \in 1 .. n \/ i = n + 1
    BY <1>1
  <2>2. \A i \in 1 .. n : i \in 1 .. n + 1 /\ i # n + 1
    BY <1>1
  <2>3. n + 1 \in 1 .. n + 1
    BY <1>1
  <2> HIDE DEF t, n
  <2>4. certificatesAt(t) = {i \in 1 .. n + 1 : t[i].content.kind = "certificate"}
    BY <1>1 DEF certificatesAt
  <2>5. I = {i \in 1 .. n : s[i].content.kind = "certificate"}
    BY DEF certificatesAt, n
  <2> HIDE DEF I
  <2> QED
    BY <1>2, <2>1, <2>2, <2>3, <2>4, <2>5
<1> HIDE DEF I
<1>6. keep(Append(s, e), I) = keep(s, I) /\ keep(Append(s, e), I \cup {Len(s) + 1}) = Append(keep(s, I), e)
  BY <1>3, KeepLast
<1> QED
  BY <1>4, <1>5, <1>6

LEMMA NoCandidates == certCandidates(<<>>) = <<>>
<1> DEFINE s == <<>>
<1>1. s \in Seq({}) /\ Len(s) = 0
  OBVIOUS
<1>2. certificatesAt(s) = {}
  BY <1>1 DEF certificatesAt
<1>3. certCandidates(s) = keep(s, certificatesAt(s))
  <2> HIDE DEF s
  <2> QED
    BY <1>1, CandidatesAreKept
<1> QED
  BY <1>2, <1>3, KeepNone

(* The candidates among an index, and their index by itself.               *)
LEMMA CandidatesAre ==
  ASSUME NEW T, NEW s \in Seq(T), unique(s)
  PROVE  certCandidates(s) \in Seq(T) /\ unique(certCandidates(s))
<1> DEFINE I == certificatesAt(s)
<1>1. I \in SUBSET (1 .. Len(s))
  BY DEF certificatesAt
<1>2. certCandidates(s) = keep(s, I)
  BY CandidatesAreKept
<1> HIDE DEF I
<1>3. keep(s, I) \in Seq(T)
  <2>1. partOf(T, s, I, keep(s, I))
    BY <1>1, KeepIs
  <2> QED
    BY <2>1 DEF partOf
<1>4. unique(keep(s, I))
  BY <1>1, KeptIsUnique
<1> QED
  BY <1>2, <1>3, <1>4

-----------------------------------------------------------------------------
(* The scan of a directory finds each file once.                           *)
entriesOf(h, found) == [i \in DOMAIN found |-> [path |-> found[i], content |-> h[found[i]]]]

LEMMA FoundOnce ==
  ASSUME NEW h, NEW Contents,
         NEW I \in SUBSET (1 .. Len(ScanOrder)),
         \A i \in I : h[ScanOrder[i]] \in Contents,
         NEW found, found = keep(ScanOrder, I)
  PROVE  entriesOf(h, found) \in Seq(Entry(Contents)) /\ unique(entriesOf(h, found))
<1> DEFINE r == entriesOf(h, found)
<1>1. /\ ScanOrder \in Seq(Files)
      /\ \A i, j \in DOMAIN ScanOrder : ScanOrder[i] = ScanOrder[j] => i = j
  BY ScanAssumption DEF IsInjective
<1>2. DOMAIN ScanOrder = 1 .. Len(ScanOrder) /\ Len(ScanOrder) \in Nat
      /\ ScanOrder \in [1 .. Len(ScanOrder) -> Files]
  BY <1>1, LenProperties
<1>3. /\ Cardinality(I) \in Nat
      /\ DOMAIN found = 1 .. Cardinality(I)
      /\ \A k \in 1 .. Cardinality(I) : nth(I, k) \in I /\ found[k] = ScanOrder[nth(I, k)]
      /\ \A k, l \in 1 .. Cardinality(I) : nth(I, k) = nth(I, l) => k = l
  <2>1. partOf(Files, ScanOrder, I, found)
    BY <1>1, KeepIs
  <2> QED
    BY <2>1 DEF partOf
<1> DEFINE c == Cardinality(I)
<1>4. \A k \in 1 .. c : found[k] \in Files /\ h[found[k]] \in Contents
  <2> TAKE k \in 1 .. c
  <2>1. nth(I, k) \in I /\ nth(I, k) \in 1 .. Len(ScanOrder) /\ found[k] = ScanOrder[nth(I, k)]
    BY <1>3
  <2>2. found[k] \in Files /\ h[found[k]] \in Contents
    BY <1>2, <2>1
  <2> QED
    BY <2>2
<1>5. \A k, l \in 1 .. c : found[k] = found[l] => k = l
  <2> SUFFICES ASSUME NEW k \in 1 .. c, NEW l \in 1 .. c, found[k] = found[l]
               PROVE  k = l
    OBVIOUS
  <2>1. /\ nth(I, k) \in DOMAIN ScanOrder /\ nth(I, l) \in DOMAIN ScanOrder
        /\ ScanOrder[nth(I, k)] = ScanOrder[nth(I, l)]
    BY <1>2, <1>3
  <2>2. nth(I, k) = nth(I, l)
    BY <1>1, <2>1
  <2> QED
    BY <1>3, <2>2
<1>6. DOMAIN r = 1 .. c /\ \A k \in 1 .. c : r[k] = [path |-> found[k], content |-> h[found[k]]]
  BY <1>3 DEF entriesOf
<1>7. \A k \in 1 .. c : r[k] \in Entry(Contents) /\ r[k].path = found[k]
  BY <1>4, <1>6 DEF Entry
<1> DEFINE T == Entry(Contents)
<1>8. r \in [1 .. c -> T] /\ c \in Nat
  BY <1>3, <1>6, <1>7 DEF entriesOf
<1> HIDE DEF c, T, r
<1>9. r \in Seq(T)
  BY <1>8, SeqDef
<1>10. unique(r)
  BY <1>5, <1>6, <1>7 DEF unique
<1> QED
  BY <1>9, <1>10 DEF T, r

LEMMA ScannedOnce ==
  ASSUME NEW h, NEW recognised, NEW Contents, \A f \in recognised : h[f] \in Contents
  PROVE  scan(h, recognised) \in Seq(Entry(Contents)) /\ unique(scan(h, recognised))
<1> DEFINE loop(f) ==
             [n \in 0 .. Len(ScanOrder) |->
                IF n = 0 THEN <<>>
                ELSE IF ScanOrder[n] \in recognised THEN Append(f[n - 1], ScanOrder[n])
                ELSE f[n - 1]]
           I == {i \in 1 .. Len(ScanOrder) : ScanOrder[i] \in recognised}
           found == (CHOOSE f : f = loop(f))[Len(ScanOrder)]
<1>1. scan(h, recognised) = entriesOf(h, found)
  BY DEF scan, retain, entriesOf
<1>2. ScanOrder \in Seq(Files) /\ Len(ScanOrder) \in Nat
  BY ScanAssumption, LenProperties
<1>3. \A f : loop(f) = filtered(ScanOrder, I, f)
  BY <1>2 DEF filtered
<1>4. (CHOOSE f : f = loop(f)) = (CHOOSE f : f = filtered(ScanOrder, I, f))
  BY <1>3
<1>5. I \in SUBSET (1 .. Len(ScanOrder)) /\ \A i \in I : h[ScanOrder[i]] \in Contents
  OBVIOUS
<1>6. found = keep(ScanOrder, I)
  BY <1>2, <1>4, <1>5, FilteredIsKept
<1> HIDE DEF found, I
<1> QED
  BY <1>1, <1>5, <1>6, FoundOnce

LEMMA AllAreScanned ==
  ASSUME NEW h \in [Files -> Content \cup {Absent}]
  PROVE  /\ scan(h, signableFiles(h)) \in Seq(Indexed) /\ unique(scan(h, signableFiles(h)))
         /\ scan(h, messageFiles(h)) \in Seq(Indexed) /\ unique(scan(h, messageFiles(h)))
         /\ scan(h, usableKeyFiles(h)) \in Seq(Indexed) /\ unique(scan(h, usableKeyFiles(h)))
<1>1. /\ \A f \in signableFiles(h) : h[f] \in Content
      /\ \A f \in messageFiles(h) : h[f] \in Content
      /\ \A f \in usableKeyFiles(h) : h[f] \in Content
  BY DEF signableFiles, messageFiles, usableKeyFiles
<1> QED
  BY <1>1, ScannedOnce DEF Indexed

(* Each kind of files is what its parser recognises.                       *)
LEMMA Recognised ==
  ASSUME NEW content \in Content
  PROVE  /\ parseSignable(content) => content \in Certificate \cup Crl
         /\ parseCmsSigned(content) => content \in Message
         /\ content.kind = "certificate" => content \in Certificate
         /\ content.kind = "key" => content \in PrivateKey
         /\ content.kind = "encrypted" => content \in EncryptedKey
BY DEF Content, parseSignable, parseCmsSigned, Certificate, Crl, Message, PrivateKey,
       EncryptedKey, Other

LEMMA KindsAreScanned ==
  ASSUME NEW h \in [Files -> Content \cup {Absent}]
  PROVE  /\ scan(h, signableFiles(h)) \in Seq(Entry(Certificate \cup Crl))
         /\ scan(h, messageFiles(h)) \in Seq(Entry(Message))
         /\ scan(h, usableKeyFiles(h)) \in Seq(Entry(PrivateKey))
<1>1. ASSUME NEW f \in Files, h[f] # Absent PROVE h[f] \in Content
  BY <1>1
<1>2. \A f \in signableFiles(h) : h[f] \in Certificate \cup Crl
  BY <1>1, Recognised DEF signableFiles
<1>3. \A f \in messageFiles(h) : h[f] \in Message
  BY <1>1, Recognised DEF messageFiles
<1>4. \A f \in usableKeyFiles(h) : h[f] \in PrivateKey
  BY <1>1, Recognised DEF usableKeyFiles, usableKey
<1> QED
  BY <1>2, <1>3, <1>4, ScannedOnce

LEMMA KeyEntriesAre ==
  ASSUME NEW s \in Seq(Indexed), unique(s)
  PROVE  keyEntries(s) \in Seq(KeyFile) /\ unique(keyEntries(s))
<1> DEFINE n == Len(s)
           t == keyEntries(s)
<1>1. n \in Nat /\ DOMAIN s = 1 .. n /\ s \in [1 .. n -> Indexed]
  BY LenProperties
<1>2. DOMAIN t = 1 .. n
      /\ \A i \in 1 .. n : t[i] = [path |-> s[i].path, key |-> s[i].content.key]
  BY <1>1 DEF keyEntries
<1>3. \A i \in 1 .. n : t[i] \in KeyFile /\ t[i].path = s[i].path
  <2> TAKE i \in 1 .. n
  <2>1. s[i].path \in Files /\ s[i].content \in Content
    <3>1. s[i] \in Indexed
      BY <1>1
    <3> QED
      BY <3>1 DEF Indexed, Entry
  <2>2. s[i].content.key \in keysOfContents
    BY <2>1 DEF keysOfContents
  <2> QED
    BY <1>2, <2>1, <2>2 DEF KeyFile
<1>4. t = [i \in 1 .. n |-> t[i]]
  BY <1>1 DEF keyEntries
<1> HIDE DEF t, n
<1>5. t \in [1 .. n -> KeyFile]
  BY <1>3, <1>4
<1>6. t \in Seq(KeyFile)
  BY <1>1, <1>5, SeqDef
<1>7. unique(t)
  BY <1>1, <1>2, <1>3 DEF unique
<1> QED
  BY <1>6, <1>7 DEF t

-----------------------------------------------------------------------------
(* What is shown comes from one index: the candidate issuers are its       *)
(* certificates, the open document's entry holds the document as it is     *)
(* edited, and the status is what that index makes of it.                  *)
DocumentTyped ==
  /\ disk \in [Files -> Content \cup {Absent}]
  /\ path \in Files \cup {NoFile}
  /\ roots \in Content
  /\ selected \in Files \cup {NoFile}

IndexesTyped ==
  /\ signables \in Seq(Indexed)
  /\ keyFiles \in Seq(KeyFile)

EachFileOnce == unique(signables) /\ unique(keyFiles) /\ unique(cmsFiles)

CandidatesAreIndexed == caIndex = certCandidates(signables)

EntryIsTheDocument ==
  fileOpen => \A i \in DOMAIN signables :
                signables[i].path = path => parseSignable(roots) /\ signables[i].content = roots

DocumentHasItsEntry ==
  fileOpen /\ parseSignable(roots) =>
    \E i \in DOMAIN signables : signables[i] = [path |-> path, content |-> roots]

StatusIsOfTheIndex ==
  fileOpen /\ parseSignable(roots) => sigStatus = verifyAgainst(caIndex, roots)

IndexIsWhole ==
  /\ IndexesTyped
  /\ EachFileOnce
  /\ CandidatesAreIndexed
  /\ EntryIsTheDocument
  /\ DocumentHasItsEntry
  /\ StatusIsOfTheIndex

IndexInvariant == DocumentTyped /\ IndexIsWhole

(* An index in which the open document's entry is replaced.                *)
updated(E, f, doc) == without(E, f) \o own(f, doc)

describes(N, f, doc) ==
  /\ N \in Seq(Indexed)
  /\ unique(N)
  /\ f # NoFile => \A i \in DOMAIN N : N[i].path = f => parseSignable(doc) /\ N[i].content = doc
  /\ f # NoFile /\ parseSignable(doc)
       => \E i \in DOMAIN N : N[i] = [path |-> f, content |-> doc]

LEMMA OwnEntryReplaced ==
  ASSUME NEW E \in Seq(Indexed), unique(E), NEW f \in Files \cup {NoFile}, NEW doc \in Content
  PROVE  /\ describes(updated(E, f, doc), f, doc)
         /\ certCandidates(updated(E, f, doc))
              = without(certCandidates(E), f) \o certCandidates(own(f, doc))
<1> DEFINE N == updated(E, f, doc)
<1>a. N = without(E, f) \o own(f, doc)
  BY DEF updated
<1> SUFFICES /\ describes(N, f, doc)
             /\ certCandidates(N) = without(certCandidates(E), f) \o certCandidates(own(f, doc))
  OBVIOUS
<1> HIDE DEF N
<1> DEFINE W == without(E, f)
<1>1. /\ W \in Seq(Indexed)
      /\ unique(W)
      /\ \A i \in DOMAIN W : W[i].path # f
  BY WithoutIs
<1>2. certCandidates(W) = without(certCandidates(E), f)
  BY CandidatesOfOthers
<1>3. certCandidates(E) \in Seq(Indexed) /\ unique(certCandidates(E))
  BY CandidatesAre
<1>4. without(certCandidates(E), f) \in Seq(Indexed)
  BY <1>3, WithoutIs
<1> HIDE DEF W
<1>5. CASE ~(f # NoFile /\ parseSignable(doc))
  <2>1. own(f, doc) = <<>>
    BY <1>5 DEF own
  <2>2. N = W
    BY <1>a, <1>1, <2>1 DEF W
  <2>3. without(certCandidates(E), f) \o certCandidates(own(f, doc)) = certCandidates(W)
    BY <1>2, <1>4, <2>1, NoCandidates
  <2> QED
    BY <1>1, <1>5, <2>2, <2>3 DEF describes
<1>6. CASE f # NoFile /\ parseSignable(doc)
  <2> DEFINE e == [path |-> f, content |-> doc]
  <2>1. own(f, doc) = <<e>>
    BY <1>6 DEF own
  <2>2. e \in Indexed /\ e.path = f /\ e.content = doc
    BY <1>6 DEF Indexed, Entry
  <2> HIDE DEF e
  <2>3. N = W \o <<e>>
    BY <1>a, <2>1 DEF W
  <2>4. /\ N \in Seq(Indexed)
        /\ unique(N)
        /\ DOMAIN N = 1 .. Len(W) + 1
        /\ \A i \in DOMAIN W : N[i] = W[i]
        /\ \A i \in DOMAIN N : i \in DOMAIN W \/ (i = Len(W) + 1 /\ N[i] = e)
        /\ Len(W) + 1 \in DOMAIN N
        /\ N[Len(W) + 1] = e
    BY <1>1, <2>2, <2>3, OneMoreIsUnique
  <2>5. \A i \in DOMAIN N : N[i].path = f => N[i].content = doc
    BY <1>1, <2>2, <2>4
  <2>6. \E i \in DOMAIN N : N[i] = e
    BY <2>4
  <2>7. certCandidates(N) = certCandidates(W) \o certCandidates(<<e>>)
    <3>1. W \o <<e>> = Append(W, e)
      BY <1>1, <2>2
    <3>2. certCandidates(Append(W, e))
            = IF e.content.kind = "certificate" THEN Append(certCandidates(W), e)
              ELSE certCandidates(W)
      BY <1>1, <2>2, CandidatesOfAppend
    <3>3. certCandidates(<<e>>) = IF e.content.kind = "certificate" THEN <<e>> ELSE <<>>
      <4> DEFINE none == <<>>
      <4>1. none \in Seq(Indexed) /\ certCandidates(none) = <<>> /\ Append(none, e) = <<e>>
        BY NoCandidates
      <4> HIDE DEF none
      <4>2. certCandidates(Append(none, e))
              = IF e.content.kind = "certificate" THEN Append(certCandidates(none), e)
                ELSE certCandidates(none)
        BY <2>2, <4>1, CandidatesOfAppend
      <4>3. Append(<<>>, e) = <<e>>
        OBVIOUS
      <4> QED
        BY <4>1, <4>2, <4>3
    <3>4. certCandidates(W) \in Seq(Indexed)
      BY <1>2, <1>4
    <3>5. Append(certCandidates(W), e) = certCandidates(W) \o <<e>>
          /\ certCandidates(W) \o <<>> = certCandidates(W)
      BY <2>2, <3>4
    <3> QED
      BY <2>3, <3>1, <3>2, <3>3, <3>5
  <2> QED
    BY <1>2, <1>6, <2>1, <2>4, <2>5, <2>6, <2>7 DEF e, describes
<1> QED
  BY <1>5, <1>6

(* What App::recompute_sig_status makes of an index and the key files.     *)
LEMMA Recomputed ==
  ASSUME NEW E \in Seq(Indexed), unique(E), NEW K \in Seq(KeyFile), unique(K),
         NEW C, C = certCandidates(E),
         DocumentTyped', unique(cmsFiles'),
         recomputeSigStatus(E, C, K)
  PROVE  IndexInvariant'
<1> DEFINE N == without(E, path') \o own(path', roots')
<1>1. path' \in Files \cup {NoFile} /\ roots' \in Content
  BY DEF DocumentTyped
<1>a. /\ describes(updated(E, path', roots'), path', roots')
      /\ certCandidates(updated(E, path', roots'))
           = without(certCandidates(E), path') \o certCandidates(own(path', roots'))
  BY <1>1, OwnEntryReplaced
<1>2. /\ describes(N, path', roots')
      /\ certCandidates(N) = without(certCandidates(E), path') \o certCandidates(own(path', roots'))
  BY <1>a DEF updated
<1>3. Recompute(N, certCandidates(N), K)
  BY <1>2 DEF recomputeSigStatus
<1> HIDE DEF N
<1>4. /\ signables' = N
      /\ caIndex' = certCandidates(N)
      /\ sigStatus' = signatureStatus(disk', path', roots', signables', caIndex')
      /\ refreshOwnKeyFile(K)
  BY <1>3 DEF Recompute
<1>5. keyFiles' \in Seq(KeyFile) /\ unique(keyFiles')
  <2> DEFINE W == without(K, path')
             e == [path |-> path', key |-> roots'.key]
  <2>1. /\ W \in Seq(KeyFile)
        /\ unique(W)
        /\ \A i \in DOMAIN W : W[i].path # path'
    BY WithoutIs, Zenon
  <2>2. \/ keyFiles' = K
        \/ keyFiles' = W \o <<>>
        \/ path' # NoFile /\ keyFiles' = W \o <<e>>
    BY <1>4 DEF refreshOwnKeyFile, fileOpen
  <2>3. path' # NoFile => e \in KeyFile /\ e.path = path'
    <3>1. roots'.key \in keysOfContents
      BY <1>1 DEF keysOfContents
    <3>2. path' # NoFile => path' \in Files
      BY <1>1
    <3> QED
      BY <3>1, <3>2 DEF KeyFile
  <2> HIDE DEF W, e
  <2>4. W \o <<>> = W
    BY <2>1
  <2>5. path' # NoFile => W \o <<e>> \in Seq(KeyFile) /\ unique(W \o <<e>>)
    BY <2>1, <2>3, OneMoreIsUnique
  <2> QED
    BY <2>1, <2>2, <2>4, <2>5
<1>6. StatusIsOfTheIndex'
  BY <1>4 DEF StatusIsOfTheIndex, signatureStatus, fileOpen
<1>7. IndexesTyped' /\ EachFileOnce' /\ CandidatesAreIndexed'
  BY <1>2, <1>4, <1>5 DEF IndexesTyped, EachFileOnce, CandidatesAreIndexed, describes
<1>8. EntryIsTheDocument' /\ DocumentHasItsEntry'
  BY <1>2, <1>4 DEF EntryIsTheDocument, DocumentHasItsEntry, fileOpen, describes
<1> QED
  BY <1>6, <1>7, <1>8 DEF IndexInvariant, IndexIsWhole

LEMMA Rescanned ==
  ASSUME NEW h \in [Files -> Content \cup {Absent}], DocumentTyped', rescan(h)
  PROVE  IndexInvariant'
<1> DEFINE E == scan(h, signableFiles(h))
           K == keyEntries(scan(h, usableKeyFiles(h)))
<1>1. E \in Seq(Indexed) /\ unique(E)
  BY AllAreScanned
<1>2. K \in Seq(KeyFile) /\ unique(K)
  BY AllAreScanned, KeyEntriesAre
<1>3. cmsFiles' = scan(h, messageFiles(h)) /\ recomputeSigStatus(E, certCandidates(E), K)
  BY DEF rescan
<1>4. unique(cmsFiles')
  BY <1>3, AllAreScanned
<1> HIDE DEF E, K
<1> QED
  BY <1>1, <1>2, <1>3, <1>4, Recomputed

(* What is not recomputed stays as whole as it was.                        *)
LEMMA StillWhole ==
  ASSUME IndexIsWhole, UNCHANGED <<path, roots, index, cmsFiles, sigStatus>>
  PROVE  IndexIsWhole'
BY DEF IndexIsWhole, IndexesTyped, EachFileOnce, CandidatesAreIndexed, EntryIsTheDocument,
       DocumentHasItsEntry, StatusIsOfTheIndex, index, fileOpen

LEMMA FirstIndex == ASSUME Init PROVE IndexInvariant
<1>1. /\ disk \in [Files -> Content \cup {Absent}]
      /\ path = NoFile /\ roots \in Other
      /\ signables = scan(disk, signableFiles(disk))
      /\ caIndex = certCandidates(signables)
      /\ keyFiles = keyEntries(scan(disk, usableKeyFiles(disk)))
      /\ cmsFiles = scan(disk, messageFiles(disk))
  BY FilesAssumption DEF Init
<1>2. DocumentTyped
  <2>1. selected \in Files \cup {NoFile}
    BY DEF Init, present
  <2> QED
    BY <1>1, <2>1 DEF DocumentTyped, Content
<1>3. IndexesTyped /\ EachFileOnce
  BY <1>1, AllAreScanned, KeyEntriesAre
     DEF IndexesTyped, EachFileOnce
<1> QED
  BY <1>1, <1>2, <1>3 DEF IndexInvariant, IndexIsWhole, CandidatesAreIndexed, EntryIsTheDocument,
     DocumentHasItsEntry, StatusIsOfTheIndex, fileOpen

(* Opening a file that is there, and a document that became another.       *)
LEMMA FileOpened ==
  ASSUME IndexInvariant, NEW f \in Files, disk[f] # Absent, openFile(f),
         UNCHANGED <<disk, cmsFiles>>, selected' \in Files \cup {NoFile}
  PROVE  IndexInvariant'
<1>1. DocumentTyped'
  <2>1. disk[f] \in Content
    BY DEF IndexInvariant, DocumentTyped
  <2> QED
    BY <2>1 DEF IndexInvariant, DocumentTyped, openFile
<1>2. recomputeSigStatus(signables, caIndex, keyFiles)
  BY DEF openFile
<1> QED
  BY <1>1, <1>2, Recomputed
     DEF IndexInvariant, IndexIsWhole, IndexesTyped, EachFileOnce, CandidatesAreIndexed

LEMMA IndexStaysWhole == ASSUME IndexInvariant, [Next]_vars PROVE IndexInvariant'
<1> USE DEF IndexInvariant
<1>1. ASSUME NEW f \in Files, Select(f) PROVE IndexInvariant'
  <2>1. selected' \in Files \cup {NoFile} /\ UNCHANGED <<disk, cmsFiles>>
    BY <1>1 DEF Select, files
  <2>2. CASE previews(f)
    <3>1. openFile(f) /\ disk[f] # Absent
      BY <1>1, <2>2 DEF Select, previews
    <3> QED
      BY <2>1, <3>1, FileOpened
  <2>3. CASE ~previews(f)
    <3>1. UNCHANGED <<path, roots, index, cmsFiles, sigStatus>>
      BY <1>1, <2>3 DEF Select, document
    <3> QED
      BY <2>1, <3>1, StillWhole DEF DocumentTyped
  <2> QED
    BY <2>2, <2>3
<1>2. CASE Activate
  <2>1. /\ selected \in Files /\ disk[selected] # Absent /\ openFile(selected)
        /\ UNCHANGED <<disk, cmsFiles>> /\ selected' = selected
    BY <1>2 DEF Activate, DocumentTyped, files
  <2> QED
    BY <2>1, FileOpened
<1>3. CASE ToggleTrust
  <2>1. selected \in Files
    <3>1. PICK e \in Range(signables) : e.path = selected
      BY <1>3 DEF ToggleTrust
    <3>2. signables \in Seq(Indexed)
      BY DEF IndexIsWhole, IndexesTyped
    <3>3. PICK i \in DOMAIN signables : e = signables[i]
      BY <3>1 DEF Range
    <3>4. e \in Indexed
      BY <3>2, <3>3
    <3> QED
      BY <3>1, <3>4 DEF Indexed, Entry
  <2>2. selected' = selected /\ UNCHANGED <<disk, cmsFiles>>
    BY <1>3 DEF ToggleTrust, files
  <2>3. CASE previews(selected)
    <3>1. openFile(selected) /\ disk[selected] # Absent
      BY <1>3, <2>3 DEF ToggleTrust, previews
    <3> QED
      BY <2>1, <2>2, <3>1, FileOpened
  <2>4. CASE ~previews(selected)
    <3>1. UNCHANGED <<path, roots, index, cmsFiles, sigStatus>>
      BY <1>3, <2>4 DEF ToggleTrust, document
    <3> QED
      BY <2>2, <3>1, StillWhole DEF DocumentTyped
  <2> QED
    BY <2>3, <2>4
<1>4. ASSUME NEW v \in Variants, Edit(v[2]) PROVE IndexInvariant'
  <2>1. /\ v[2] # Absent /\ <<roots, v[2]>> \in Variants
        /\ roots' = v[2] /\ UNCHANGED <<path, selected, disk, cmsFiles>>
        /\ recomputeSigStatus(signables, caIndex, keyFiles)
    BY <1>4 DEF Edit
  <2>2. v[2] \in Content
    BY <2>1, VariantsAssumption
  <2>3. DocumentTyped' /\ unique(cmsFiles')
    BY <2>1, <2>2 DEF DocumentTyped, IndexIsWhole, EachFileOnce
  <2> QED
    BY <2>1, <2>3, Recomputed DEF IndexIsWhole, IndexesTyped, EachFileOnce, CandidatesAreIndexed
<1>5. CASE Save
  <2>1. /\ fileOpen /\ disk' = [disk EXCEPT ![path] = roots]
        /\ UNCHANGED <<path, roots, selected, index, cmsFiles, sigStatus>>
    BY <1>5 DEF Save, writes, shown
  <2>2. DocumentTyped'
    BY <2>1 DEF DocumentTyped, fileOpen
  <2> QED
    BY <2>1, <2>2, StillWhole
<1>6. CASE Unlock
  <2>1. UNCHANGED <<disk, path, roots, selected, index, cmsFiles, sigStatus>>
    BY <1>6 DEF Unlock, files, document
  <2> QED
    BY <2>1, StillWhole DEF DocumentTyped
<1>7. CASE Refresh
  <2>1. /\ UNCHANGED <<disk, path, roots>> /\ rescan(disk)
        /\ selected' \in Files \cup {NoFile}
    BY <1>7 DEF Refresh, document, present, DocumentTyped
  <2>2. DocumentTyped'
    BY <2>1 DEF DocumentTyped
  <2> QED
    BY <2>1, <2>2, Rescanned DEF DocumentTyped
<1>8. ASSUME NEW f \in Files, CommitNewDer(f) PROVE IndexInvariant'
  <2>1. PICK empty \in Other : writes(f, empty) /\ path' = f /\ roots' = empty
    BY <1>8 DEF CommitNewDer
  <2>2. selected' = f /\ rescan(disk')
    BY <1>8 DEF CommitNewDer
  <2>3. empty \in Content
    BY DEF Content
  <2>4. disk' = [disk EXCEPT ![f] = empty]
    BY <2>1 DEF writes
  <2>5. DocumentTyped'
    BY <2>1, <2>2, <2>3, <2>4 DEF DocumentTyped
  <2>6. disk' \in [Files -> Content \cup {Absent}]
    BY <2>5 DEF DocumentTyped
  <2> QED
    BY <2>2, <2>5, <2>6, Rescanned
<1>9. ASSUME NEW f \in Files, NEW v \in Variants, OtherProgram(f, v[2]) PROVE IndexInvariant'
  <2>1. /\ <<disk[f], v[2]>> \in Variants /\ disk' = [disk EXCEPT ![f] = v[2]]
        /\ UNCHANGED <<path, roots, selected, index, cmsFiles, sigStatus>>
    BY <1>9 DEF OtherProgram, writes, document, shown
  <2>2. v[2] \in Content \cup {Absent}
    BY <2>1, VariantsAssumption
  <2>3. DocumentTyped'
    BY <2>1, <2>2 DEF DocumentTyped
  <2> QED
    BY <2>1, <2>3, StillWhole
<1>10. CASE UNCHANGED vars
  <2>1. UNCHANGED <<disk, path, roots, selected, index, cmsFiles, sigStatus>>
    BY <1>10 DEF vars, document, shown
  <2> QED
    BY <2>1, StillWhole DEF DocumentTyped
<1> QED
  BY <1>1, <1>2, <1>3, <1>4, <1>5, <1>6, <1>7, <1>8, <1>9, <1>10 DEF Next

-----------------------------------------------------------------------------
(* No file is twice in an index of the directory, with the open document's *)
(* entry replaced after every edit and every scan.                         *)
THEOREM NoFileTwice == Spec => []OneEntryPerFile
<1>1. IndexInvariant => OneEntryPerFile
  <2> SUFFICES ASSUME IndexInvariant PROVE OneEntryPerFile
    OBVIOUS
  <2>1. unique(signables) /\ unique(keyFiles) /\ unique(cmsFiles)
    BY DEF IndexInvariant, IndexIsWhole, EachFileOnce
  <2>2. unique(caIndex)
    BY <2>1, CandidatesAre DEF IndexInvariant, IndexIsWhole, IndexesTyped, CandidatesAreIndexed
  <2> QED
    BY <2>1, <2>2 DEF OneEntryPerFile, unique
<1> QED
  BY <1>1, FirstIndex, IndexStaysWhole, PTL DEF Spec

(* The status of the open document and the arrow into it are computed from *)
(* two indexes, by two functions (App::recompute_sig_status and            *)
(* compute_issuance_edges), and never contradict each other: one entry of  *)
(* the index is the document, and the candidates are the index's.          *)
THEOREM StatusAndArrowAgree == Spec => []StatusMatchesTheArrow
<1>1. IndexInvariant => StatusMatchesTheArrow
  <2> SUFFICES ASSUME IndexInvariant, fileOpen, parseSignable(roots), ~isSelfSigned(roots),
                      sigStatus.issuer # path
               PROVE  {e \in drawn(issuanceEdges(signables)) : e.signed = path}
                        = IF sigStatus.issuer = NoFile THEN {}
                          ELSE {edge(sigStatus.issuer, path, sigStatus.verdict = "verified")}
    BY DEF StatusMatchesTheArrow
  <2> DEFINE arrow == foundBy(sigStatus, path)
             found(i) == foundBy(verifyAgainst(caIndex, signables[i].content), signables[i].path)
             signed == {j \in DOMAIN signables : ~isSelfSigned(signables[j].content)}
  <2>1. issuanceEdges(signables) = {found(i) : i \in signed}
    BY DEF issuanceEdges, IndexInvariant, IndexIsWhole, CandidatesAreIndexed
  <2>2. sigStatus = verifyAgainst(caIndex, roots)
    BY DEF IndexInvariant, IndexIsWhole, StatusIsOfTheIndex
  <2>3. PICK k \in DOMAIN signables : signables[k] = [path |-> path, content |-> roots]
    BY DEF IndexInvariant, IndexIsWhole, DocumentHasItsEntry
  <2>4. signables[k].path = path /\ signables[k].content = roots
    BY <2>3
  <2>5. k \in signed /\ found(k) = arrow
    BY <2>2, <2>4
  <2>6. \A i \in signed : found(i).signed = signables[i].path
    BY DEF foundBy, edge
  <2>7. \A i \in signed : signables[i].path = path => found(i) = arrow
    BY <2>2 DEF IndexInvariant, IndexIsWhole, EntryIsTheDocument
  <2>8. arrow = edge(sigStatus.issuer, path, sigStatus.verdict = "verified")
        /\ arrow.signer = sigStatus.issuer /\ arrow.signed = path
    BY DEF foundBy, edge
  <2> HIDE DEF arrow, found, signed
  <2>9. {e \in drawn(issuanceEdges(signables)) : e.signed = path}
          = IF sigStatus.issuer = NoFile THEN {} ELSE {arrow}
    BY <2>1, <2>5, <2>6, <2>7, <2>8 DEF drawn
  <2> QED
    BY <2>8, <2>9
<1> QED
  BY <1>1, FirstIndex, IndexStaysWhole, PTL DEF Spec

-----------------------------------------------------------------------------
(* Everything shown is a function of the files, the document, the index,   *)
(* the selection, the keys and the trusted files; each of them is read     *)
(* only after all that it depends on has changed.                          *)
whatIsShown ==
  /\ sigStatus = currentStatus
  /\ pathStatus \in currentPaths
  /\ browserRelations = currentRelations

LEMMA RecomputedIsCurrent ==
  ASSUME NEW E, NEW C, NEW K, recomputeSigStatus(E, C, K) PROVE whatIsShown'
<1>1. /\ sigStatus' = signatureStatus(disk', path', roots', signables', caIndex')
      /\ pathStatus' \in pathOutcomes(disk', path', roots', signables', trustedCerts', sigStatus')
      /\ showRelations
  BY DEF recomputeSigStatus, Recompute
<1> QED
  BY <1>1 DEF whatIsShown, currentStatus, currentPaths, currentRelations, showRelations

LEMMA RescannedIsCurrent == ASSUME NEW h, rescan(h) PROVE whatIsShown'
<1>1. \E E, C, K : recomputeSigStatus(E, C, K)
  BY DEF rescan
<1> QED
  BY <1>1, RecomputedIsCurrent

LEMMA OpenedIsCurrent == ASSUME NEW f, openFile(f) PROVE whatIsShown'
BY RecomputedIsCurrent DEF openFile

(* What is shown stays as current as it was, when only the relations are   *)
(* computed anew and what the others depend on is unchanged.               *)
LEMMA StillCurrent ==
  ASSUME whatIsShown, UNCHANGED <<disk, path, roots, signables, caIndex, sigStatus>>,
         \/ UNCHANGED <<trustedCerts, pathStatus>>
         \/ pathStatus' \in pathOutcomes(disk, path, roots, signables, trustedCerts', sigStatus),
         \/ showRelations
         \/ UNCHANGED <<selected, cmsFiles, keyFiles, unlockedKeys, browserRelations>>
  PROVE  whatIsShown'
<1>1. sigStatus' = signatureStatus(disk', path', roots', signables', caIndex')
  BY DEF whatIsShown, currentStatus
<1>2. pathStatus' \in pathOutcomes(disk', path', roots', signables', trustedCerts', sigStatus')
  BY DEF whatIsShown, currentPaths
<1>3. browserRelations' = relationsOf(selected', disk', signables', cmsFiles', keyFiles', unlockedKeys')
  BY DEF whatIsShown, currentRelations, showRelations
<1> QED
  BY <1>1, <1>2, <1>3 DEF whatIsShown, currentStatus, currentPaths, currentRelations

LEMMA FirstShown == ASSUME Init PROVE whatIsShown
<1>1. /\ path = NoFile /\ roots \in Other
      /\ sigStatus = status("none", NoFile) /\ pathStatus = "none"
      /\ browserRelations = currentRelations
  BY DEF Init
<1>2. ~parseSignable(roots) /\ ~fileOpen
  BY <1>1 DEF Other, parseSignable, fileOpen
<1>3. sigStatus = currentStatus
  BY <1>1, <1>2 DEF currentStatus, signatureStatus, fileOpen
<1>4. pathStatus \in currentPaths
  BY <1>1 DEF currentPaths, pathOutcomes
<1> QED
  BY <1>1, <1>3, <1>4 DEF whatIsShown

LEMMA ShownStaysCurrent ==
  ASSUME ~pending => whatIsShown, [Next]_vars, ~pending' PROVE whatIsShown'
<1>1. ASSUME NEW f \in Files, Select(f) PROVE whatIsShown'
  <2>1. ~pending /\ UNCHANGED <<disk, trustedCerts>>
    BY <1>1 DEF Select, files
  <2>2. CASE previews(f)
    BY <1>1, <2>2, OpenedIsCurrent DEF Select
  <2>3. CASE ~previews(f)
    <3>1. /\ UNCHANGED <<disk, path, roots, signables, caIndex, sigStatus>>
          /\ UNCHANGED <<trustedCerts, pathStatus>> /\ showRelations
      BY <1>1, <2>1, <2>3 DEF Select, document, index
    <3> QED
      BY <2>1, <3>1, StillCurrent
  <2> QED
    BY <2>2, <2>3
<1>2. CASE Activate
  BY <1>2, OpenedIsCurrent DEF Activate
<1>3. CASE ToggleTrust
  <2>1. ~pending /\ UNCHANGED disk
    BY <1>3 DEF ToggleTrust, files
  <2>2. CASE previews(selected)
    BY <1>3, <2>2, OpenedIsCurrent DEF ToggleTrust
  <2>3. CASE ~previews(selected)
    <3>1. /\ UNCHANGED <<disk, path, roots, signables, caIndex, sigStatus>>
          /\ pathStatus' \in pathOutcomes(disk, path, roots, signables, trustedCerts', sigStatus)
          /\ showRelations
      BY <1>3, <2>1, <2>3 DEF ToggleTrust, document, index
    <3> QED
      BY <2>1, <3>1, StillCurrent
  <2> QED
    BY <2>2, <2>3
<1>4. ASSUME NEW v \in Variants, Edit(v[2]) PROVE whatIsShown'
  BY <1>4, RecomputedIsCurrent DEF Edit
<1>5. CASE Save
  BY <1>5 DEF Save
<1>6. CASE Unlock
  <2>1. /\ ~pending
        /\ UNCHANGED <<disk, path, roots, signables, caIndex, sigStatus>>
        /\ UNCHANGED <<trustedCerts, pathStatus>> /\ showRelations
    BY <1>6 DEF Unlock, files, document, index
  <2> QED
    BY <2>1, StillCurrent
<1>7. CASE Refresh
  BY <1>7, RescannedIsCurrent DEF Refresh
<1>8. ASSUME NEW f \in Files, CommitNewDer(f) PROVE whatIsShown'
  <2>1. rescan(disk')
    BY <1>8 DEF CommitNewDer
  <2> QED
    BY <2>1, RescannedIsCurrent
<1>9. ASSUME NEW f \in Files, NEW v \in Variants, OtherProgram(f, v[2]) PROVE whatIsShown'
  BY <1>9 DEF OtherProgram
<1>10. CASE UNCHANGED vars
  <2>1. /\ ~pending
        /\ UNCHANGED <<disk, path, roots, signables, caIndex, sigStatus, trustedCerts, pathStatus>>
        /\ UNCHANGED <<selected, cmsFiles, keyFiles, unlockedKeys, browserRelations>>
    BY <1>10 DEF vars, document, index, shown
  <2> QED
    BY <2>1, StillCurrent
<1> QED
  BY <1>1, <1>2, <1>3, <1>4, <1>5, <1>6, <1>7, <1>8, <1>9, <1>10 DEF Next

(* Once the directory has been polled, the status, the path verdict and    *)
(* the relations shown are what the present index, document and files      *)
(* amount to, whatever was edited, opened, trusted, unlocked or selected   *)
(* last: no handler forgets to compute one of them.                        *)
THEOREM WhatIsShownIsCurrent == Spec => []ShownIsCurrent
<1>1. Init => ShownIsCurrent
  BY FirstShown DEF ShownIsCurrent, whatIsShown
<1>2. ShownIsCurrent /\ [Next]_vars => ShownIsCurrent'
  <2> SUFFICES ASSUME ShownIsCurrent, [Next]_vars, ~pending' PROVE whatIsShown'
    BY DEF ShownIsCurrent, whatIsShown
  <2>1. ~pending => whatIsShown
    BY DEF ShownIsCurrent, whatIsShown
  <2> QED
    BY <2>1, ShownStaysCurrent
<1> QED
  BY <1>1, <1>2, PTL DEF Spec

-----------------------------------------------------------------------------
(* The types: each index holds one kind of contents, and a status names an *)
(* issuer, a file, exactly when a signature was verified or refuted.       *)
Verdicts == [verdict : {"none", "issuer not found", "unsupported"}, issuer : {NoFile}]
              \cup [verdict : {"verified", "invalid"}, issuer : Files]
PathVerdicts == {"none", "valid", "revoked", "invalid", "error"}

IndexTypes ==
  /\ signables \in Seq(Entry(Certificate \cup Crl))
  /\ caIndex \in Seq(Entry(Certificate))
  /\ keyFiles \in Seq([path : Files, key : Keys])
  /\ cmsFiles \in Seq(Entry(Message))

ShownTypes == sigStatus \in Verdicts /\ pathStatus \in PathVerdicts

(* The first of some entries is one of them.                               *)
LEMMA FirstIsAnEntry ==
  ASSUME NEW T, NEW s \in Seq(T), NEW I \in SUBSET (DOMAIN s), I # {}
  PROVE  firstOf(s, I) \in T
<1>1. I \in SUBSET Nat
  BY LenProperties
<1>2. Min(I) \in I
  BY <1>1, LeastNatural DEF Min
<1> QED
  BY <1>2 DEF firstOf

LEMMA StatusKinds ==
  /\ status("issuer not found", NoFile) \in Verdicts
  /\ status("unsupported", NoFile) \in Verdicts
  /\ \A f \in Files : status("verified", f) \in Verdicts /\ status("invalid", f) \in Verdicts
BY DEF status, Verdicts

LEMMA VerdictTypes ==
  ASSUME NEW C, NEW candidates \in Seq(Entry(C)), NEW s
  PROVE  verifyAgainst(candidates, s) \in Verdicts
<1> DEFINE claimed == claimedIssuers(candidates, s)
           verified == {i \in claimed : verifySignature(s, candidates[i].content.key)}
<1>1. claimed \in SUBSET (DOMAIN candidates) /\ verified \in SUBSET (DOMAIN candidates)
  BY DEF claimedIssuers
<1>2. verifyAgainst(candidates, s)
        = IF claimed = {} THEN status("issuer not found", NoFile)
          ELSE IF ~s.known THEN status("unsupported", NoFile)
          ELSE IF verified # {} THEN status("verified", firstOf(candidates, verified).path)
          ELSE status("invalid", firstOf(candidates, claimed).path)
  BY DEF verifyAgainst
<1> HIDE DEF claimed, verified
<1>3. /\ claimed # {} => firstOf(candidates, claimed).path \in Files
      /\ verified # {} => firstOf(candidates, verified).path \in Files
  <2>1. \A e \in Entry(C) : e.path \in Files
    BY DEF Entry
  <2> QED
    BY <1>1, <2>1, FirstIsAnEntry
<1> QED
  BY <1>2, <1>3, StatusKinds

LEMMA MessageVerdictTypes ==
  ASSUME NEW C, NEW entries \in Seq(Entry(C)), NEW h, NEW cms
  PROVE  verifyCms(h, entries, cms) \in Verdicts
<1> DEFINE signers == {i \in DOMAIN entries : signerOf(entries[i].content, cms)}
           signer == firstOf(entries, signers)
           good == cmsRawVerify(cms, signer.content) /\ cmsOpensslVerify(h, cms, signer.path)
<1>1. signers \in SUBSET (DOMAIN entries)
  OBVIOUS
<1>2. verifyCms(h, entries, cms)
        = IF signers = {} THEN status("issuer not found", NoFile)
          ELSE IF ~cms.known THEN status("unsupported", NoFile)
          ELSE IF good THEN status("verified", signer.path) ELSE status("invalid", signer.path)
  BY DEF verifyCms
<1> HIDE DEF signers, good
<1>3. signers # {} => signer.path \in Files
  <2>1. \A e \in Entry(C) : e.path \in Files
    BY DEF Entry
  <2> QED
    BY <1>1, <2>1, FirstIsAnEntry
<1> QED
  BY <1>2, <1>3, StatusKinds

LEMMA StatusTypes ==
  ASSUME NEW C, NEW D, NEW entries \in Seq(Entry(C)), NEW candidates \in Seq(Entry(D)),
         NEW h, NEW open, NEW doc
  PROVE  signatureStatus(h, open, doc, entries, candidates) \in Verdicts
<1>1. status("none", NoFile) \in Verdicts
  BY DEF status, Verdicts
<1> QED
  BY <1>1, VerdictTypes, MessageVerdictTypes DEF signatureStatus

LEMMA PathTypes ==
  ASSUME NEW h, NEW open, NEW doc, NEW entries, NEW trusted, NEW sig
  PROVE  pathOutcomes(h, open, doc, entries, trusted, sig) \subseteq PathVerdicts
<1>1. ASSUME NEW target, NEW t, NEW u, NEW crls PROVE validate(target, t, u, crls) \subseteq PathVerdicts
  BY DEF validate, PathVerdicts
<1>2. {"none"} \subseteq PathVerdicts
  BY DEF PathVerdicts
<1> QED
  BY <1>1, <1>2 DEF pathOutcomes

LEMMA CandidateTypes ==
  ASSUME NEW C, C \subseteq Content, NEW s \in Seq(Entry(C))
  PROVE  certCandidates(s) \in Seq(Entry(Certificate))
<1> DEFINE I == certificatesAt(s)
           T == Entry(C)
           n == Cardinality(I)
           t == keep(s, I)
<1>1. I \in SUBSET (1 .. Len(s)) /\ \A i \in I : s[i].content.kind = "certificate"
  BY DEF certificatesAt
<1>2. certCandidates(s) = t
  BY CandidatesAreKept
<1>3. s \in Seq(T) /\ \A i \in DOMAIN s : s[i] \in T
  OBVIOUS
<1> HIDE DEF I
<1>4. /\ t \in Seq(T) /\ n \in Nat /\ Len(t) = n
      /\ DOMAIN t = 1 .. n
      /\ \A k \in 1 .. n : nth(I, k) \in I /\ t[k] = s[nth(I, k)]
  <2>1. partOf(T, s, I, t)
    BY <1>1, <1>3, KeepIs
  <2> QED
    BY <2>1 DEF partOf
<1>5. \A k \in 1 .. n : t[k] \in Entry(Certificate)
  <2> TAKE k \in 1 .. n
  <2>a. nth(I, k) \in DOMAIN s /\ nth(I, k) \in I /\ t[k] = s[nth(I, k)]
    BY <1>1, <1>4, LenProperties
  <2>1. t[k] \in Entry(C) /\ t[k].content.kind = "certificate"
    BY <1>1, <1>3, <2>a
  <2>2. t[k].content \in Content
    BY <2>1 DEF Entry
  <2>3. t[k].content \in Certificate
    BY <2>1, <2>2, Recognised
  <2> QED
    BY <2>1, <2>3 DEF Entry
<1> DEFINE U == Entry(Certificate)
<1> HIDE DEF t, n, T, U
<1>6. t \in [1 .. n -> U]
  <2>1. t \in [1 .. Len(t) -> T]
    BY <1>4, LenProperties
  <2> QED
    BY <1>4, <1>5, <2>1 DEF U
<1>7. t \in Seq(U)
  BY <1>4, <1>6, SeqDef
<1> QED
  BY <1>2, <1>7 DEF U

LEMMA RecomputedTypes ==
  ASSUME NEW E \in Seq(Entry(Certificate \cup Crl)), unique(E),
         NEW C \in Seq(Entry(Certificate)), unique(C),
         NEW K \in Seq([path : Files, key : Keys]), unique(K),
         DocumentTyped', cmsFiles' \in Seq(Entry(Message)),
         recomputeSigStatus(E, C, K)
  PROVE  IndexTypes' /\ ShownTypes'
<1> DEFINE S == Entry(Certificate \cup Crl)
           D == Entry(Certificate)
           F == [path : Files, key : Keys]
           o == own(path', roots')
<1>1. /\ signables' = without(E, path') \o o
      /\ caIndex' = without(C, path') \o certCandidates(o)
      /\ refreshOwnKeyFile(K)
      /\ sigStatus' = signatureStatus(disk', path', roots', signables', caIndex')
      /\ pathStatus' \in pathOutcomes(disk', path', roots', signables', trustedCerts', sigStatus')
  BY DEF recomputeSigStatus, Recompute
<1>2. path' \in Files \cup {NoFile} /\ roots' \in Content
  BY DEF DocumentTyped
<1>3. o \in Seq(S)
  <2>1. CASE path' # NoFile /\ parseSignable(roots')
    <3>1. [path |-> path', content |-> roots'] \in S
      BY <1>2, <2>1, Recognised DEF Entry
    <3> QED
      BY <2>1, <3>1 DEF own
  <2>2. CASE ~(path' # NoFile /\ parseSignable(roots'))
    BY <2>2 DEF own
  <2> QED
    BY <2>1, <2>2
<1>4. certCandidates(o) \in Seq(D)
  <2>1. Certificate \cup Crl \subseteq Content
    BY DEF Content
  <2> HIDE DEF o
  <2> QED
    BY <1>3, <2>1, CandidateTypes
<1>5. without(E, path') \in Seq(S) /\ without(C, path') \in Seq(D) /\ without(K, path') \in Seq(F)
  BY WithoutIs
<1> HIDE DEF S, D, F, o
<1>6. signables' \in Seq(S) /\ caIndex' \in Seq(D)
  BY <1>1, <1>3, <1>4, <1>5
<1>7. keyFiles' \in Seq(F)
  <2> DEFINE e == [path |-> path', key |-> roots'.key]
  <2>1. \/ keyFiles' = K
        \/ keyFiles' = without(K, path') \o <<>>
        \/ path' # NoFile /\ usableKey(roots') /\ keyFiles' = without(K, path') \o <<e>>
    BY <1>1 DEF refreshOwnKeyFile, fileOpen
  <2>2. path' # NoFile /\ usableKey(roots') => e \in F
    <3>1. usableKey(roots') => roots' \in PrivateKey
      BY <1>2, Recognised DEF usableKey
    <3> QED
      BY <1>2, <3>1 DEF PrivateKey, F
  <2>3. K \in Seq(F)
    BY DEF F
  <2> DEFINE W == without(K, path')
  <2>4. W \in Seq(F)
    BY <1>5
  <2> HIDE DEF e, W
  <2>5. W \o <<>> \in Seq(F) /\ (e \in F => W \o <<e>> \in Seq(F))
    BY <2>4
  <2> QED
    BY <2>1, <2>2, <2>3, <2>5 DEF W
<1>8. sigStatus' \in Verdicts
  BY <1>1, <1>6, StatusTypes DEF S, D
<1>9. pathStatus' \in PathVerdicts
  BY <1>1, PathTypes
<1> QED
  BY <1>6, <1>7, <1>8, <1>9 DEF IndexTypes, ShownTypes, S, D, F

(* The indexes of a scan.                                                  *)
LEMMA ScanTypes ==
  ASSUME NEW h \in [Files -> Content \cup {Absent}]
  PROVE  LET found == scan(h, signableFiles(h))
             keys == keyEntries(scan(h, usableKeyFiles(h)))
         IN  /\ found \in Seq(Entry(Certificate \cup Crl)) /\ unique(found)
             /\ certCandidates(found) \in Seq(Entry(Certificate)) /\ unique(certCandidates(found))
             /\ keys \in Seq([path : Files, key : Keys]) /\ unique(keys)
             /\ scan(h, messageFiles(h)) \in Seq(Entry(Message))
<1> DEFINE found == scan(h, signableFiles(h))
           used == scan(h, usableKeyFiles(h))
           F == [path : Files, key : Keys]
<1>1. /\ found \in Seq(Entry(Certificate \cup Crl)) /\ unique(found)
      /\ used \in Seq(Entry(PrivateKey)) /\ used \in Seq(Indexed) /\ unique(used)
      /\ scan(h, messageFiles(h)) \in Seq(Entry(Message))
  BY AllAreScanned, KindsAreScanned
<1> HIDE DEF found, used
<1>2. certCandidates(found) \in Seq(Entry(Certificate)) /\ unique(certCandidates(found))
  <2>1. Certificate \cup Crl \subseteq Content
    BY DEF Content
  <2> QED
    BY <1>1, <2>1, CandidateTypes, CandidatesAre
<1>3. unique(keyEntries(used))
  BY <1>1, KeyEntriesAre
<1>4. keyEntries(used) \in Seq(F)
  <2>1. Len(used) \in Nat /\ DOMAIN used = 1 .. Len(used)
    BY <1>1, LenProperties
  <2>2. \A i \in 1 .. Len(used) : [path |-> used[i].path, key |-> used[i].content.key] \in F
    <3> TAKE i \in 1 .. Len(used)
    <3>1. used[i] \in Entry(PrivateKey)
      BY <1>1, <2>1
    <3> QED
      BY <3>1 DEF Entry, PrivateKey
  <2> HIDE DEF F
  <2>3. keyEntries(used) \in [1 .. Len(used) -> F]
    BY <2>1, <2>2 DEF keyEntries
  <2> QED
    BY <2>1, <2>3, SeqDef
<1> QED
  BY <1>1, <1>2, <1>3, <1>4 DEF found, used

LEMMA RescannedTypes ==
  ASSUME NEW h \in [Files -> Content \cup {Absent}], DocumentTyped', rescan(h)
  PROVE  IndexTypes' /\ ShownTypes'
<1> DEFINE found == scan(h, signableFiles(h))
           keys == keyEntries(scan(h, usableKeyFiles(h)))
<1>1. /\ found \in Seq(Entry(Certificate \cup Crl)) /\ unique(found)
      /\ certCandidates(found) \in Seq(Entry(Certificate)) /\ unique(certCandidates(found))
      /\ keys \in Seq([path : Files, key : Keys]) /\ unique(keys)
      /\ scan(h, messageFiles(h)) \in Seq(Entry(Message))
  BY ScanTypes
<1>2. cmsFiles' = scan(h, messageFiles(h)) /\ recomputeSigStatus(found, certCandidates(found), keys)
  BY DEF rescan
<1> HIDE DEF found, keys
<1> QED
  BY <1>1, <1>2, RecomputedTypes

(* A step that takes its index from the state it finds.                    *)
LEMMA RecomputedStateTypes ==
  ASSUME IndexTypes, IndexInvariant, DocumentTyped', UNCHANGED cmsFiles,
         recomputeSigStatus(signables, caIndex, keyFiles)
  PROVE  IndexTypes' /\ ShownTypes'
<1>1. unique(signables) /\ unique(keyFiles) /\ unique(caIndex)
  BY CandidatesAre DEF IndexInvariant, IndexIsWhole, IndexesTyped, EachFileOnce, CandidatesAreIndexed
<1> QED
  BY <1>1, RecomputedTypes DEF IndexTypes

LEMMA QuietTypes ==
  ASSUME IndexTypes, ShownTypes, UNCHANGED <<index, cmsFiles, sigStatus>>,
         \/ UNCHANGED pathStatus
         \/ \E t : pathStatus' \in pathOutcomes(disk, path, roots, signables, t, sigStatus)
  PROVE  IndexTypes' /\ ShownTypes'
<1>1. pathStatus' \in PathVerdicts
  BY PathTypes DEF ShownTypes
<1> QED
  BY <1>1 DEF IndexTypes, ShownTypes, index

OtherTypes ==
  /\ listed \subseteq Files /\ pending \in BOOLEAN /\ dirty \in BOOLEAN
  /\ unlockedKeys \subseteq Files \X Keys
  /\ trustedCerts \subseteq Files
  /\ changes \in 0 .. MaxChanges

TInv == IndexInvariant /\ IndexTypes /\ ShownTypes /\ OtherTypes

LEMMA FirstTypes == ASSUME Init PROVE TInv
<1>1. /\ disk \in [Files -> Content \cup {Absent}]
      /\ signables = scan(disk, signableFiles(disk))
      /\ caIndex = certCandidates(signables)
      /\ keyFiles = keyEntries(scan(disk, usableKeyFiles(disk)))
      /\ cmsFiles = scan(disk, messageFiles(disk))
      /\ sigStatus = status("none", NoFile) /\ pathStatus = "none"
  BY FilesAssumption DEF Init
<1>2. IndexTypes
  BY <1>1, ScanTypes DEF IndexTypes
<1>3. ShownTypes
  BY <1>1 DEF ShownTypes, status, Verdicts, PathVerdicts
<1>a. listed = present(disk) /\ pending = FALSE /\ dirty = FALSE
      /\ unlockedKeys = {} /\ trustedCerts = {} /\ changes = 0
  BY DEF Init
<1>b. changes \in 0 .. MaxChanges
  BY <1>a, BoundAssumption
<1>4. OtherTypes
  BY <1>a, <1>b, Zenon DEF OtherTypes, present
<1> QED
  BY <1>2, <1>3, <1>4, FirstIndex DEF TInv

LEMMA TypesStay == ASSUME TInv, [Next]_vars PROVE TInv'
<1>a. IndexInvariant' /\ DocumentTyped /\ DocumentTyped'
  BY IndexStaysWhole DEF TInv, IndexInvariant
<1> DEFINE Goal == IndexTypes' /\ ShownTypes' /\ OtherTypes'
<1> SUFFICES Goal
  BY <1>a DEF TInv
<1> USE DEF TInv
<1>1. ASSUME NEW f \in Files, Select(f) PROVE Goal
  <2>1. UNCHANGED <<files, cmsFiles, unlockedKeys, trustedCerts>>
    BY <1>1 DEF Select
  <2>2. CASE previews(f)
    <3>1. recomputeSigStatus(signables, caIndex, keyFiles) /\ dirty' = FALSE
      BY <1>1, <2>2 DEF Select, openFile
    <3>2. OtherTypes'
      BY <2>1, <3>1 DEF OtherTypes, files
    <3> QED
      BY <1>a, <2>1, <3>1, <3>2, RecomputedStateTypes
  <2>3. CASE ~previews(f)
    <3>1. UNCHANGED <<document, index, sigStatus, pathStatus>>
      BY <1>1, <2>3 DEF Select
    <3>2. OtherTypes'
      BY <2>1, <3>1 DEF OtherTypes, files, document
    <3> QED
      BY <2>1, <3>1, <3>2, QuietTypes
  <2> QED
    BY <2>2, <2>3
<1>2. CASE Activate
  <2>1. /\ UNCHANGED <<files, cmsFiles, unlockedKeys, trustedCerts>> /\ dirty' = FALSE
        /\ recomputeSigStatus(signables, caIndex, keyFiles)
    BY <1>2 DEF Activate, openFile
  <2>2. OtherTypes'
    BY <2>1 DEF OtherTypes, files
  <2> QED
    BY <1>a, <2>1, <2>2, RecomputedStateTypes
<1>3. CASE ToggleTrust
  <2>1. /\ UNCHANGED <<files, cmsFiles, unlockedKeys>>
        /\ trustedCerts' = SymDiff(trustedCerts, {selected})
    BY <1>3 DEF ToggleTrust
  <2>2. selected \in Files
    <3>1. PICK e \in Range(signables) : e.path = selected
      BY <1>3 DEF ToggleTrust
    <3>2. e \in Entry(Certificate \cup Crl)
      BY <3>1 DEF IndexTypes, Range
    <3> QED
      BY <3>1, <3>2 DEF Entry
  <2>3. trustedCerts' \subseteq Files
    BY <2>1, <2>2 DEF OtherTypes, SymDiff
  <2>4. CASE previews(selected)
    <3>1. recomputeSigStatus(signables, caIndex, keyFiles) /\ dirty' = FALSE
      BY <1>3, <2>4 DEF ToggleTrust, openFile
    <3>2. OtherTypes'
      BY <2>1, <2>3, <3>1 DEF OtherTypes, files
    <3> QED
      BY <1>a, <2>1, <3>1, <3>2, RecomputedStateTypes
  <2>5. CASE ~previews(selected)
    <3>1. /\ UNCHANGED <<document, index, sigStatus>>
          /\ pathStatus' \in pathOutcomes(disk, path, roots, signables, trustedCerts', sigStatus)
      BY <1>3, <2>5 DEF ToggleTrust
    <3>2. OtherTypes'
      BY <2>1, <2>3, <3>1 DEF OtherTypes, files, document
    <3> QED
      BY <2>1, <3>1, <3>2, QuietTypes
  <2> QED
    BY <2>4, <2>5
<1>b. counted => changes' \in 0 .. MaxChanges
  BY BoundAssumption DEF counted, OtherTypes
<1>4. ASSUME NEW v \in Variants, Edit(v[2]) PROVE Goal
  <2>1. /\ UNCHANGED <<listed, pending, cmsFiles, unlockedKeys, trustedCerts>> /\ dirty' = TRUE
        /\ counted /\ recomputeSigStatus(signables, caIndex, keyFiles)
    BY <1>4 DEF Edit
  <2>2. OtherTypes'
    BY <1>b, <2>1 DEF OtherTypes
  <2> QED
    BY <1>a, <2>1, <2>2, RecomputedStateTypes
<1>5. CASE Save
  <2>1. /\ UNCHANGED <<listed, index, cmsFiles, unlockedKeys, trustedCerts, shown, changes>>
        /\ pending' = TRUE /\ dirty' = FALSE
    BY <1>5 DEF Save
  <2>2. OtherTypes'
    BY <2>1 DEF OtherTypes
  <2> QED
    BY <2>1, <2>2, QuietTypes DEF shown
<1>6. CASE Unlock
  <2>1. /\ UNCHANGED <<files, document, index, cmsFiles, trustedCerts, sigStatus, pathStatus>>
        /\ path # NoFile /\ roots.kind = "encrypted"
        /\ unlockedKeys' = {u \in unlockedKeys : u[1] # path} \cup {<<path, roots.key>>}
    BY <1>6 DEF Unlock, fileOpen
  <2>2. <<path, roots.key>> \in Files \X Keys
    <3>1. path \in Files /\ roots \in EncryptedKey
      BY <1>a, <2>1, Recognised DEF DocumentTyped
    <3> QED
      BY <3>1 DEF EncryptedKey
  <2>3. OtherTypes'
    BY <2>1, <2>2 DEF OtherTypes, files, document
  <2> QED
    BY <2>1, <2>3, QuietTypes
<1>7. CASE Refresh
  <2>1. /\ UNCHANGED <<disk, changes, document, unlockedKeys, trustedCerts>>
        /\ pending' = FALSE /\ listed' = present(disk) /\ rescan(disk)
    BY <1>7 DEF Refresh
  <2>2. OtherTypes'
    BY <2>1 DEF OtherTypes, document, present
  <2>3. disk \in [Files -> Content \cup {Absent}]
    BY <1>a DEF DocumentTyped
  <2> QED
    BY <1>a, <2>1, <2>2, <2>3, RescannedTypes
<1>8. ASSUME NEW f \in Files, CommitNewDer(f) PROVE Goal
  <2>1. /\ UNCHANGED <<changes, unlockedKeys, trustedCerts>>
        /\ pending' = FALSE /\ dirty' = FALSE /\ listed' = present(disk') /\ rescan(disk')
    BY <1>8 DEF CommitNewDer
  <2>2. OtherTypes'
    BY <2>1 DEF OtherTypes, present
  <2>3. disk' \in [Files -> Content \cup {Absent}]
    BY <1>a DEF DocumentTyped
  <2> QED
    BY <1>a, <2>1, <2>2, <2>3, RescannedTypes
<1>9. ASSUME NEW f \in Files, NEW v \in Variants, OtherProgram(f, v[2]) PROVE Goal
  <2>1. /\ UNCHANGED <<listed, document, index, cmsFiles, unlockedKeys, trustedCerts, shown>>
        /\ pending' = TRUE /\ counted
    BY <1>9 DEF OtherProgram
  <2>2. OtherTypes'
    BY <1>b, <2>1 DEF OtherTypes, document
  <2> QED
    BY <2>1, <2>2, QuietTypes DEF shown
<1>10. CASE UNCHANGED vars
  <2>1. /\ UNCHANGED <<listed, pending, changes, document, index, cmsFiles, unlockedKeys>>
        /\ UNCHANGED <<trustedCerts, shown>>
    BY <1>10 DEF vars
  <2>2. OtherTypes'
    BY <2>1 DEF OtherTypes, document
  <2> QED
    BY <2>1, <2>2, QuietTypes DEF shown
<1> HIDE DEF Goal
<1> QED
  BY <1>1, <1>2, <1>3, <1>4, <1>5, <1>6, <1>7, <1>8, <1>9, <1>10 DEF Next

(* Whatever the directory holds and is turned into: the index of signed    *)
(* objects holds certificates and CRLs, the candidate issuers only         *)
(* certificates, and a status that gives a verdict names a file.           *)
THEOREM TypeCorrect == Spec => []TypeOK
<1>1. TInv => TypeOK
  BY DEF TInv, TypeOK, IndexInvariant, DocumentTyped, IndexTypes, ShownTypes, OtherTypes,
         Verdicts, PathVerdicts
<1> QED
  BY <1>1, FirstTypes, TypesStay, PTL DEF Spec
=============================================================================
