----------------------------- MODULE OutlineProofs -----------------------------
(***************************************************************************)
(* What holds of the rows of the tree, of the keys that walk over them, of *)
(* the search and of what an edit shows, for any files, contents and       *)
(* edits.                                                                  *)
(*                                                                         *)
(* A forest is a function from paths, and collectForest walks over it.     *)
(* The first part shows what the walk yields: the nodes that are outlined, *)
(* in the order of their paths.  The second part shows that the document   *)
(* and all that is revealed of it stay forests, whatever is edited.  The   *)
(* third part follows the identities of the nodes through every edit: no   *)
(* two nodes are ever the same, and each node that a rebuild shows again   *)
(* is the one that was shown, so that it is found folded as it was.        *)
(***************************************************************************)
EXTENDS Outline, Integers, FiniteSetTheorems, WellFoundedInduction,
        SequenceTheorems, TLAPS

(* Every nonempty set of naturals has a least element.                     *)
LEMMA LeastNatural ==
  ASSUME NEW S \in SUBSET Nat, S # {}
  PROVE  \E m \in S : \A n \in S : m <= n
<1> DEFINE R == OpToRel(<, Nat)
<1>1. IsWellFoundedOn(R, Nat)
  BY NatLessThanWellFounded
<1>2. R = {ss \in Nat \X Nat : ss[1] < ss[2]}
  BY DEF OpToRel
<1> HIDE DEF R
<1>3. PICK m \in S : \A y \in S : ~(<<y, m>> \in R)
  BY <1>1, WFMin
<1>4. \A y \in S : ~(y < m)
  BY <1>2, <1>3
<1> QED
  BY <1>4

-----------------------------------------------------------------------------
(* Paths.                                                                  *)
Paths == Seq(Steps)

LEMMA PathIs ==
  ASSUME NEW p \in Paths
  PROVE  /\ Len(p) \in Nat /\ DOMAIN p = 1 .. Len(p)
         /\ p \in [1 .. Len(p) -> Steps]
         /\ \A i \in 1 .. Len(p) : p[i] \in Nat /\ p[i] > 0
         /\ p # <<>> <=> Len(p) > 0
<1>1. /\ Len(p) \in Nat /\ DOMAIN p = 1 .. Len(p)
      /\ p \in [1 .. Len(p) -> Steps]
  BY LenProperties DEF Paths
<1>2. p = <<>> <=> Len(p) = 0
  BY EmptySeq DEF Paths
<1> QED
  BY <1>1, <1>2 DEF Steps

LEMMA SamePath ==
  ASSUME NEW p \in Paths, NEW q \in Paths, Len(p) = Len(q), \A i \in 1 .. Len(p) : p[i] = q[i]
  PROVE  p = q
BY SeqEqual DEF Paths

LEMMA HeadIs ==
  ASSUME NEW p \in Paths, NEW n \in 0 .. Len(p)
  PROVE  /\ SubSeq(p, 1, n) \in Paths /\ Len(SubSeq(p, 1, n)) = n
         /\ \A i \in 1 .. n : SubSeq(p, 1, n)[i] = p[i]
<1>1. Len(p) \in Nat
  BY PathIs
<1>2. \A i \in 1 .. n : i \in 1 .. Len(p)
  BY <1>1
<1>3. \A i \in 1 .. n : p[i] \in Steps
  BY <1>2, PathIs
<1> QED
  BY <1>1, <1>3, SubSeqProperties DEF Paths

LEMMA PrefixIs ==
  ASSUME NEW p \in Paths, NEW q \in Paths
  PROVE  IsPrefix(p, q) <=> Len(p) <= Len(q) /\ \A i \in 1 .. Len(p) : p[i] = q[i]
<1>1. Len(p) \in Nat /\ Len(q) \in Nat
  BY PathIs
<1>2. CASE ~(Len(p) <= Len(q))
  BY <1>2 DEF IsPrefix
<1>3. CASE Len(p) <= Len(q)
  <2>1. Len(p) \in 0 .. Len(p) /\ Len(p) \in 0 .. Len(q)
    BY <1>1, <1>3
  <2>2. /\ SubSeq(p, 1, Len(p)) \in Paths /\ Len(SubSeq(p, 1, Len(p))) = Len(p)
        /\ \A i \in 1 .. Len(p) : SubSeq(p, 1, Len(p))[i] = p[i]
    BY <2>1, HeadIs
  <2>3. /\ SubSeq(q, 1, Len(p)) \in Paths /\ Len(SubSeq(q, 1, Len(p))) = Len(p)
        /\ \A i \in 1 .. Len(p) : SubSeq(q, 1, Len(p))[i] = q[i]
    BY <2>1, HeadIs
  <2>4. SubSeq(p, 1, Len(p)) = SubSeq(q, 1, Len(p)) <=> \A i \in 1 .. Len(p) : p[i] = q[i]
    BY <2>2, <2>3, SamePath
  <2> QED
    BY <1>3, <2>4 DEF IsPrefix
<1> QED
  BY <1>2, <1>3

LEMMA FrontIs ==
  ASSUME NEW p \in Paths, p # <<>>
  PROVE  /\ Front(p) \in Paths /\ Len(Front(p)) = Len(p) - 1
         /\ \A i \in 1 .. Len(p) - 1 : Front(p)[i] = p[i]
         /\ Last(p) = p[Len(p)] /\ Last(p) \in Steps
<1>1. Len(p) \in Nat /\ Len(p) > 0 /\ Len(p) - 1 \in 0 .. Len(p) /\ Len(p) \in 1 .. Len(p)
  BY PathIs
<1>2. p[Len(p)] \in Steps
  BY <1>1, PathIs
<1> QED
  BY <1>1, <1>2, HeadIs DEF Front, Last

LEMMA ChildIs ==
  ASSUME NEW p \in Paths, NEW i \in Steps
  PROVE  /\ Append(p, i) \in Paths /\ Len(Append(p, i)) = Len(p) + 1 /\ Append(p, i) # <<>>
         /\ \A j \in 1 .. Len(p) : Append(p, i)[j] = p[j]
         /\ Append(p, i)[Len(p) + 1] = i
         /\ Front(Append(p, i)) = p /\ Last(Append(p, i)) = i
<1> DEFINE q == Append(p, i)
<1>1. /\ q \in Paths /\ Len(q) = Len(p) + 1 /\ q[Len(p) + 1] = i
      /\ \A j \in 1 .. Len(p) : q[j] = p[j]
  BY AppendProperties DEF Paths
<1> HIDE DEF q
<1>2. Len(p) \in Nat
  BY PathIs
<1>3. q # <<>>
  BY <1>1, <1>2, PathIs
<1>a. Len(q) - 1 = Len(p)
  BY <1>1, <1>2
<1>4. /\ Front(q) \in Paths /\ Len(Front(q)) = Len(q) - 1
      /\ \A j \in 1 .. Len(q) - 1 : Front(q)[j] = q[j]
      /\ Last(q) = q[Len(q)]
  BY <1>1, <1>3, FrontIs
<1>5. Front(q) = p
  BY <1>a, <1>1, <1>4, SamePath
<1> QED
  BY <1>1, <1>3, <1>4, <1>5 DEF q

LEMMA FrontAndLast ==
  ASSUME NEW p \in Paths, p # <<>>
  PROVE  p = Append(Front(p), Last(p))
<1> DEFINE q == Append(Front(p), Last(p))
<1>1. /\ q \in Paths /\ Len(q) = Len(Front(p)) + 1
      /\ \A j \in 1 .. Len(Front(p)) : q[j] = Front(p)[j]
      /\ q[Len(Front(p)) + 1] = Last(p)
  BY FrontIs, ChildIs
<1> HIDE DEF q
<1>2. /\ Len(p) \in Nat /\ Len(Front(p)) = Len(p) - 1 /\ Last(p) = p[Len(p)]
      /\ \A i \in 1 .. Len(p) - 1 : Front(p)[i] = p[i]
  BY FrontIs, PathIs
<1>3. \A j \in 1 .. Len(p) : j \in 1 .. Len(p) - 1 \/ j = Len(p)
  BY <1>2
<1>4. \A j \in 1 .. Len(p) : q[j] = p[j]
  BY <1>1, <1>2, <1>3
<1>5. Len(q) = Len(p)
  BY <1>1, <1>2
<1> QED
  BY <1>1, <1>4, <1>5, SamePath DEF q

LEMMA PreviousIs ==
  ASSUME NEW p \in Paths, NEW i \in Steps
  PROVE  previous(Append(p, i + 1)) = Append(p, i)
<1> DEFINE q == Append(p, i + 1)
           r == Append(p, i)
           n == Len(p) + 1
<1>1. i + 1 \in Steps /\ i + 1 - 1 = i
  BY DEF Steps
<1>2. /\ q \in Paths /\ Len(q) = n /\ q[n] = i + 1 /\ \A j \in 1 .. Len(p) : q[j] = p[j]
  BY <1>1, ChildIs
<1>3. /\ r \in Paths /\ Len(r) = n /\ r[n] = i /\ \A j \in 1 .. Len(p) : r[j] = p[j]
  BY ChildIs
<1>4. Len(p) \in Nat /\ n \in 1 .. n /\ \A j \in 1 .. n : j \in 1 .. Len(p) \/ j = n
  BY PathIs
<1>5. q \in [1 .. n -> Steps] /\ r \in [1 .. n -> Steps]
  BY <1>2, <1>3, PathIs
<1> HIDE DEF q, r, n
<1>6. previous(q) = [q EXCEPT ![n] = q[n] - 1]
  BY <1>2, <1>4, <1>5 DEF previous
<1>7. ASSUME NEW j \in 1 .. n
      PROVE  [q EXCEPT ![n] = q[n] - 1][j] = r[j]
  <2>1. CASE j = n
    <3>1. [q EXCEPT ![n] = q[n] - 1][n] = q[n] - 1
      BY <1>4, <1>5
    <3>a. q[n] = i + 1
      BY <1>2
    <3>b. i \in Nat
      BY DEF Steps
    <3>2. q[n] - 1 = i
      BY <3>a, <3>b
    <3>3. r[n] = i
      BY <1>3
    <3> QED
      BY <2>1, <3>1, <3>2, <3>3
  <2>2. CASE j # n
    <3>1. j \in 1 .. Len(p)
      BY <1>4, <2>2
    <3>2. [q EXCEPT ![n] = q[n] - 1][j] = q[j]
      BY <1>5, <2>2
    <3> QED
      BY <1>2, <1>3, <3>1, <3>2
  <2> QED
    BY <2>1, <2>2
<1> QED
  BY <1>5, <1>6, <1>7 DEF q, r

-----------------------------------------------------------------------------
(* Places of the document, and their order.                                *)
Places == Seq(Nat)

LEMMA PathsArePlaces ==
  ASSUME NEW p \in Paths
  PROVE  p \in Places
<1>1. Steps \subseteq Nat
  BY DEF Steps
<1> QED
  BY <1>1, SeqMonotonic DEF Paths, Places

LEMMA PlaceIs ==
  ASSUME NEW p \in Places
  PROVE  /\ Len(p) \in Nat /\ DOMAIN p = 1 .. Len(p)
         /\ \A i \in 1 .. Len(p) : p[i] \in Nat
BY LenProperties, ElementOfSeq DEF Places

LEMMA PlacePrefixIs ==
  ASSUME NEW p \in Places, NEW q \in Places
  PROVE  IsPrefix(p, q) <=> Len(p) <= Len(q) /\ \A i \in 1 .. Len(p) : p[i] = q[i]
<1>1. /\ Len(p) \in Nat /\ Len(q) \in Nat
      /\ \A i \in 1 .. Len(p) : p[i] \in Nat
      /\ \A i \in 1 .. Len(q) : q[i] \in Nat
  BY PlaceIs
<1>2. CASE ~(Len(p) <= Len(q))
  BY <1>2 DEF IsPrefix
<1>3. CASE Len(p) <= Len(q)
  <2> DEFINE x == SubSeq(p, 1, Len(p))
             y == SubSeq(q, 1, Len(p))
  <2>1. \A i \in 1 .. Len(p) : i \in 1 .. Len(q) /\ 1 + i - 1 = i
    BY <1>1, <1>3
  <2>2. /\ x \in Places /\ Len(x) = IF 1 <= Len(p) THEN Len(p) - 1 + 1 ELSE 0
        /\ \A i \in 1 .. Len(p) - 1 + 1 : x[i] = p[1 + i - 1]
    BY <1>1, SubSeqProperties DEF Places
  <2>3. /\ y \in Places /\ Len(y) = IF 1 <= Len(p) THEN Len(p) - 1 + 1 ELSE 0
        /\ \A i \in 1 .. Len(p) - 1 + 1 : y[i] = q[1 + i - 1]
    BY <1>1, <2>1, SubSeqProperties DEF Places
  <2> HIDE DEF x, y
  <2>4. /\ Len(x) = Len(p) /\ Len(y) = Len(p) /\ Len(p) - 1 + 1 = Len(p)
    BY <1>1, <2>2, <2>3
  <2>5. \A i \in 1 .. Len(p) : x[i] = p[i] /\ y[i] = q[i]
    BY <2>1, <2>2, <2>3, <2>4
  <2>6. x = y <=> \A i \in 1 .. Len(p) : p[i] = q[i]
    <3>1. ASSUME \A i \in 1 .. Len(p) : p[i] = q[i]
          PROVE  x = y
      BY <2>2, <2>3, <2>4, <2>5, <3>1, SeqEqual DEF Places
    <3> QED
      BY <2>5, <3>1
  <2> QED
    BY <1>3, <2>6 DEF IsPrefix, x, y
<1> QED
  BY <1>2, <1>3

(* Where two places part.                                                  *)
parts(p, q, n) ==
  /\ n \in 1 .. Len(q) /\ n <= Len(p) + 1
  /\ \A m \in 1 .. n - 1 : p[m] = q[m]
  /\ n <= Len(p) => p[n] < q[n]

LEMMA BeforeIs ==
  ASSUME NEW p \in Places, NEW q \in Places
  PROVE  lexBefore(p, q) <=> \E n \in Nat : parts(p, q, n)
<1>1. /\ Len(p) \in Nat /\ DOMAIN p = 1 .. Len(p) /\ Len(q) \in Nat /\ DOMAIN q = 1 .. Len(q)
  BY PlaceIs
<1>2. ASSUME IsStrictPrefix(p, q)
      PROVE  \E n \in Nat : parts(p, q, n)
  <2>1. Len(p) <= Len(q) /\ \A i \in 1 .. Len(p) : p[i] = q[i]
    BY <1>2, PlacePrefixIs DEF IsStrictPrefix
  <2>2. p # q
    BY <1>2 DEF IsStrictPrefix
  <2>3. Len(p) # Len(q)
    BY <2>1, <2>2, SeqEqual DEF Places
  <2>a. Len(p) <= Len(q)
    BY <2>1
  <2>b. Len(p) \in Nat /\ Len(q) \in Nat
    BY <1>1
  <2>4. /\ Len(p) + 1 \in Nat /\ Len(p) + 1 \in 1 .. Len(q) /\ Len(p) + 1 - 1 = Len(p)
        /\ ~(Len(p) + 1 <= Len(p))
    BY <2>a, <2>b, <2>3
  <2>5. parts(p, q, Len(p) + 1)
    BY <1>1, <2>1, <2>4 DEF parts
  <2> QED
    BY <2>4, <2>5
<1>3. ASSUME NEW n \in DOMAIN p \cap DOMAIN q, p[n] < q[n] /\ \A m \in 1 .. n - 1 : p[m] = q[m]
      PROVE  \E k \in Nat : parts(p, q, k)
  <2>1. n \in Nat /\ n \in 1 .. Len(q) /\ n <= Len(p) + 1
    BY <1>1
  <2> QED
    BY <1>3, <2>1 DEF parts
<1>4. ASSUME NEW n \in Nat, parts(p, q, n)
      PROVE  lexBefore(p, q)
  <2>1. CASE n <= Len(p)
    <3>1. n \in DOMAIN p \cap DOMAIN q
      BY <1>1, <1>4, <2>1 DEF parts
    <3> QED
      BY <1>4, <2>1, <3>1 DEF parts, lexBefore
  <2>2. CASE ~(n <= Len(p))
    <3>a. n \in 1 .. Len(q) /\ n <= Len(p) + 1
      BY <1>4 DEF parts
    <3>b. Len(p) \in Nat /\ Len(q) \in Nat
      BY <1>1
    <3>1. n - 1 = Len(p) /\ Len(p) <= Len(q) /\ Len(p) # Len(q)
      BY <3>a, <3>b, <2>2
    <3>2. IsPrefix(p, q) /\ p # q
      BY <1>4, <3>1, PlacePrefixIs DEF parts
    <3> QED
      BY <3>2 DEF lexBefore, IsStrictPrefix
  <2> QED
    BY <2>1, <2>2
<1> QED
  BY <1>2, <1>3, <1>4 DEF lexBefore

LEMMA BeforeIsStrict ==
  ASSUME NEW p \in Places
  PROVE  ~lexBefore(p, p)
<1>1. Len(p) \in Nat /\ \A i \in 1 .. Len(p) : p[i] \in Nat
  BY PlaceIs
<1>2. \A n \in Nat : ~parts(p, p, n)
  BY <1>1 DEF parts
<1> QED
  BY <1>2, BeforeIs

LEMMA BeforeIsTransitive ==
  ASSUME NEW p \in Places, NEW q \in Places, NEW r \in Places,
         lexBefore(p, q), lexBefore(q, r)
  PROVE  lexBefore(p, r)
<1>1. /\ Len(p) \in Nat /\ Len(q) \in Nat /\ Len(r) \in Nat
      /\ \A i \in 1 .. Len(p) : p[i] \in Nat
      /\ \A i \in 1 .. Len(q) : q[i] \in Nat
      /\ \A i \in 1 .. Len(r) : r[i] \in Nat
  BY PlaceIs
<1>2. PICK n \in Nat : parts(p, q, n)
  BY BeforeIs
<1>3. PICK k \in Nat : parts(q, r, k)
  BY BeforeIs
<1>4. /\ n \in 1 .. Len(q) /\ n <= Len(p) + 1 /\ k \in 1 .. Len(r) /\ k <= Len(q) + 1
      /\ \A m \in 1 .. n - 1 : p[m] = q[m]
      /\ \A m \in 1 .. k - 1 : q[m] = r[m]
      /\ n <= Len(p) => p[n] < q[n]
      /\ k <= Len(q) => q[k] < r[k]
  BY <1>2, <1>3 DEF parts
<1>5. CASE n < k
  <2>1. n \in 1 .. k - 1 /\ n \in 1 .. Len(r) /\ \A m \in 1 .. n - 1 : m \in 1 .. k - 1
    BY <1>1, <1>4, <1>5
  <2>2. parts(p, r, n)
    BY <1>4, <2>1 DEF parts
  <2> QED
    BY <2>2, BeforeIs
<1>6. CASE n = k
  <2>1. n \in 1 .. Len(r) /\ n <= Len(q)
    BY <1>1, <1>4, <1>6
  <2>2. n <= Len(p) => p[n] < r[n]
    <3>1. SUFFICES ASSUME n <= Len(p) PROVE p[n] < r[n]
      OBVIOUS
    <3>2. p[n] \in Nat /\ q[n] \in Nat /\ r[n] \in Nat
      BY <1>1, <1>4, <2>1, <3>1
    <3> QED
      BY <1>4, <1>6, <2>1, <3>1, <3>2
  <2>3. parts(p, r, n)
    BY <1>4, <1>6, <2>1, <2>2 DEF parts
  <2> QED
    BY <2>3, BeforeIs
<1>7. CASE k < n
  <2>1. k \in 1 .. n - 1 /\ k <= Len(p) + 1 /\ k <= Len(q) /\ \A m \in 1 .. k - 1 : m \in 1 .. n - 1
    BY <1>1, <1>4, <1>7
  <2>2. parts(p, r, k)
    BY <1>4, <2>1 DEF parts
  <2> QED
    BY <2>2, BeforeIs
<1> QED
  BY <1>5, <1>6, <1>7

LEMMA BeforeIsTotal ==
  ASSUME NEW p \in Places, NEW q \in Places, p # q
  PROVE  lexBefore(p, q) \/ lexBefore(q, p)
<1> DEFINE Apart == {n \in Nat : n > 0 /\ ~(n <= Len(p) /\ n <= Len(q) /\ p[n] = q[n])}
<1>1. /\ Len(p) \in Nat /\ Len(q) \in Nat
      /\ \A i \in 1 .. Len(p) : p[i] \in Nat
      /\ \A i \in 1 .. Len(q) : q[i] \in Nat
  BY PlaceIs
<1>2. Len(p) + 1 \in Apart
  BY <1>1
<1>3. PICK n \in Apart : \A m \in Apart : n <= m
  <2> HIDE DEF Apart
  <2>1. Apart \in SUBSET Nat
    BY DEF Apart
  <2> QED
    BY <1>2, <2>1, LeastNatural
<1>4. /\ n \in Nat /\ n > 0 /\ ~(n <= Len(p) /\ n <= Len(q) /\ p[n] = q[n])
  BY <1>3
<1>5. \A m \in 1 .. n - 1 : m <= Len(p) /\ m <= Len(q) /\ p[m] = q[m]
  <2> SUFFICES ASSUME NEW m \in 1 .. n - 1
               PROVE  m \notin Apart
    BY <1>4
  <2>1. m \in Nat /\ ~(n <= m)
    BY <1>4
  <2> HIDE DEF Apart
  <2> QED
    BY <1>3, <2>1
<1> HIDE DEF Apart
<1>6. n <= Len(p) + 1 /\ n <= Len(q) + 1
  <2>1. CASE n = 1
    BY <1>1, <2>1
  <2>2. CASE n # 1
    <3>1. n - 1 \in 1 .. n - 1
      BY <1>4, <2>2
    <3>2. n - 1 <= Len(p) /\ n - 1 <= Len(q)
      BY <1>5, <3>1
    <3> QED
      BY <1>1, <1>4, <3>2
  <2> QED
    BY <2>1, <2>2
<1>7. CASE n <= Len(p) /\ n <= Len(q)
  <2>1. n \in 1 .. Len(p) /\ n \in 1 .. Len(q) /\ p[n] \in Nat /\ q[n] \in Nat /\ p[n] # q[n]
    BY <1>1, <1>4, <1>7
  <2>2. parts(p, q, n) \/ parts(q, p, n)
    BY <1>5, <1>6, <2>1 DEF parts
  <2> QED
    BY <1>4, <2>2, BeforeIs
<1>8. CASE n <= Len(p) /\ ~(n <= Len(q))
  <2>1. n \in 1 .. Len(p)
    BY <1>1, <1>4, <1>8
  <2>2. parts(q, p, n)
    BY <1>5, <1>6, <1>8, <2>1 DEF parts
  <2> QED
    BY <1>4, <2>2, BeforeIs
<1>9. CASE ~(n <= Len(p)) /\ n <= Len(q)
  <2>1. n \in 1 .. Len(q)
    BY <1>1, <1>4, <1>9
  <2>2. parts(p, q, n)
    BY <1>5, <1>6, <1>9, <2>1 DEF parts
  <2> QED
    BY <1>4, <2>2, BeforeIs
<1>10. CASE ~(n <= Len(p)) /\ ~(n <= Len(q))
  <2>1. Len(p) = n - 1 /\ Len(q) = n - 1
    BY <1>1, <1>4, <1>6, <1>10
  <2>2. p = q
    BY <1>5, <2>1, SeqEqual DEF Places
  <2> QED
    BY <2>2
<1> QED
  BY <1>7, <1>8, <1>9, <1>10

-----------------------------------------------------------------------------
(* Sequences of sequences.                                                 *)
Increasing(s, L) == \A i, j \in DOMAIN s : i < j => <<s[i], s[j]>> \in L

LEMMA ListIs ==
  ASSUME NEW X, NEW n \in Nat, NEW t \in [1 .. n -> X]
  PROVE  t \in Seq(X) /\ Len(t) = n /\ DOMAIN t = 1 .. n
<1>1. t \in Seq(X)
  OBVIOUS
<1>2. DOMAIN t = 1 .. n /\ DOMAIN t = 1 .. Len(t) /\ Len(t) \in Nat
  BY <1>1, LenProperties
<1> QED
  BY <1>1, <1>2

LEMMA EmptyList ==
  ASSUME NEW X, NEW s \in Seq(X)
  PROVE  /\ s = <<>> <=> Len(s) = 0
         /\ s = <<>> <=> Range(s) = {}
         /\ \A x \in Range(s) : \E i \in 1 .. Len(s) : x = s[i]
         /\ \A i \in 1 .. Len(s) : s[i] \in Range(s) /\ s[i] \in X
         /\ Range(s) \subseteq X
<1>1. Len(s) \in Nat /\ DOMAIN s = 1 .. Len(s)
  BY LenProperties
<1>2. s = <<>> <=> Len(s) = 0
  BY EmptySeq
<1>3. /\ \A x \in Range(s) : \E i \in 1 .. Len(s) : x = s[i]
      /\ \A i \in 1 .. Len(s) : s[i] \in Range(s)
  BY <1>1 DEF Range
<1>4. \A i \in 1 .. Len(s) : s[i] \in X
  BY ElementOfSeq
<1>5. s = <<>> <=> Range(s) = {}
  <2>1. ASSUME Len(s) = 0
        PROVE  Range(s) = {}
    BY <2>1, <1>3
  <2>2. ASSUME Len(s) # 0
        PROVE  Range(s) # {}
    <3>1. 1 \in 1 .. Len(s)
      BY <2>2, <1>1
    <3> QED
      BY <3>1, <1>3
  <2> QED
    BY <2>1, <2>2, <1>2
<1> QED
  BY <1>2, <1>3, <1>4, <1>5

LEMMA OneElement ==
  ASSUME NEW X, NEW x \in X, NEW L
  PROVE  <<x>> \in Seq(X) /\ Range(<<x>>) = {x} /\ Increasing(<<x>>, L) /\ <<x>> # <<>>
<1>1. <<x>> \in Seq(X) /\ Len(<<x>>) = 1 /\ <<x>>[1] = x /\ DOMAIN <<x>> = 1 .. 1
  OBVIOUS
<1>2. Range(<<x>>) = {x}
  BY <1>1 DEF Range
<1>3. Increasing(<<x>>, L)
  BY <1>1 DEF Increasing
<1> QED
  BY <1>1, <1>2, <1>3, EmptyList

LEMMA NoElement ==
  ASSUME NEW X, NEW L
  PROVE  <<>> \in Seq(X) /\ Range(<<>>) = {} /\ Increasing(<<>>, L)
<1>1. <<>> \in Seq(X) /\ Len(<<>>) = 0
  BY EmptySeq
<1>2. DOMAIN <<>> = {}
  BY <1>1, LenProperties
<1> QED
  BY <1>1, <1>2 DEF Range, Increasing

LEMMA JoinIncreases ==
  ASSUME NEW X, NEW s \in Seq(X), NEW t \in Seq(X), NEW L,
         Increasing(s, L), Increasing(t, L),
         \A x \in Range(s), y \in Range(t) : <<x, y>> \in L
  PROVE  s \o t \in Seq(X) /\ Increasing(s \o t, L) /\ Range(s \o t) = Range(s) \cup Range(t)
<1> DEFINE u == s \o t
<1>1. /\ u \in Seq(X) /\ Len(u) = Len(s) + Len(t)
      /\ \A i \in 1 .. Len(s) + Len(t) : u[i] = IF i <= Len(s) THEN s[i] ELSE t[i - Len(s)]
  BY ConcatProperties
<1>2. /\ Len(s) \in Nat /\ DOMAIN s = 1 .. Len(s) /\ Len(t) \in Nat /\ DOMAIN t = 1 .. Len(t)
      /\ DOMAIN u = 1 .. Len(s) + Len(t)
  BY <1>1, LenProperties
<1> HIDE DEF u
<1>3. ASSUME NEW i \in DOMAIN u, NEW j \in DOMAIN u, i < j
      PROVE  <<u[i], u[j]>> \in L
  <2>1. CASE j <= Len(s)
    <3>1. i \in DOMAIN s /\ j \in DOMAIN s /\ i <= Len(s)
      BY <1>2, <1>3, <2>1
    <3>2. u[i] = s[i] /\ u[j] = s[j]
      BY <1>1, <1>2, <2>1, <3>1
    <3> QED
      BY <1>3, <3>1, <3>2 DEF Increasing
  <2>2. CASE ~(j <= Len(s)) /\ i <= Len(s)
    <3>1. i \in DOMAIN s /\ j - Len(s) \in DOMAIN t
      BY <1>2, <1>3, <2>2
    <3>2. u[i] = s[i] /\ u[j] = t[j - Len(s)]
      BY <1>1, <1>2, <2>2
    <3>3. u[i] \in Range(s) /\ u[j] \in Range(t)
      BY <3>1, <3>2 DEF Range
    <3> QED
      BY <3>3
  <2>3. CASE ~(j <= Len(s)) /\ ~(i <= Len(s))
    <3>1. i - Len(s) \in DOMAIN t /\ j - Len(s) \in DOMAIN t /\ i - Len(s) < j - Len(s)
      BY <1>2, <1>3, <2>3
    <3>2. u[i] = t[i - Len(s)] /\ u[j] = t[j - Len(s)]
      BY <1>1, <1>2, <2>3
    <3> QED
      BY <3>1, <3>2 DEF Increasing
  <2> QED
    BY <2>1, <2>2, <2>3
<1>4. Range(u) = Range(s) \cup Range(t)
  BY RangeConcatenation DEF u
<1> QED
  BY <1>1, <1>3, <1>4 DEF Increasing, u

joins(f, t, n) == \A i \in 1 .. n : f[i] = IF i = 1 THEN t[i] ELSE f[i - 1] \o t[i]

LEMMA FlattenIs ==
  ASSUME NEW X, NEW n \in Nat, n > 0, NEW t \in [1 .. n -> Seq(X)]
  PROVE  \E f \in [1 .. n -> Seq(X)] : FlattenSeq(t) = f[n] /\ joins(f, t, n)
<1> DEFINE good(k, f) == \A i \in 1 .. k : f[i] = IF i = 1 THEN t[i] ELSE f[i - 1] \o t[i]
           Bad == {k \in Nat : k <= n /\ ~(\E f \in [1 .. k -> Seq(X)] : good(k, f))}
<1>1. Len(t) = n
  BY ListIs
<1>2. Bad = {}
  <2> SUFFICES ASSUME Bad # {}
               PROVE  FALSE
    OBVIOUS
  <2>1. PICK k \in Bad : \A m \in Bad : k <= m
    <3>1. Bad \in SUBSET Nat
      OBVIOUS
    <3> HIDE DEF Bad
    <3> QED
      BY <3>1, LeastNatural
  <2>2. k \in Nat /\ k <= n /\ ~(\E f \in [1 .. k -> Seq(X)] : good(k, f))
    BY <2>1
  <2>3. k > 0
    <3> SUFFICES ASSUME k = 0
                 PROVE  FALSE
      BY <2>2
    <3>1. [i \in 1 .. 0 |-> <<>>] \in [1 .. k -> Seq(X)] /\ good(k, [i \in 1 .. 0 |-> <<>>])
      OBVIOUS
    <3> QED
      BY <2>2, <3>1
  <2>4. k - 1 \in Nat /\ k - 1 <= n /\ ~(k <= k - 1)
    BY <2>2, <2>3
  <2>5. PICK f \in [1 .. k - 1 -> Seq(X)] : good(k - 1, f)
    <3>1. k - 1 \notin Bad
      <4> HIDE DEF Bad
      <4> QED
        BY <2>1, <2>4
    <3> QED
      BY <2>4, <3>1
  <2> DEFINE v == IF k = 1 THEN t[k] ELSE f[k - 1] \o t[k]
             g == [i \in 1 .. k |-> IF i = k THEN v ELSE f[i]]
  <2>6. v \in Seq(X)
    <3>1. k \in 1 .. n
      BY <2>2, <2>3
    <3>2. t[k] \in Seq(X)
      BY <3>1
    <3>3. k # 1 => f[k - 1] \in Seq(X)
      BY <2>4, <2>5
    <3> QED
      BY <3>2, <3>3, ConcatProperties
  <2>7. \A i \in 1 .. k : i = k \/ i \in 1 .. k - 1
    BY <2>2
  <2>8. g \in [1 .. k -> Seq(X)]
    BY <2>5, <2>6, <2>7
  <2>9. ASSUME NEW i \in 1 .. k
        PROVE  g[i] = IF i = 1 THEN t[i] ELSE g[i - 1] \o t[i]
    <3>1. i # 1 => i - 1 \in 1 .. k /\ i - 1 # k
      BY <2>2
    <3>2. i # 1 => g[i - 1] = f[i - 1]
      BY <3>1
    <3>3. CASE i = k
      BY <3>2, <3>3
    <3>4. CASE i # k
      <4>1. i \in 1 .. k - 1
        BY <2>7, <3>4
      <4>2. f[i] = IF i = 1 THEN t[i] ELSE f[i - 1] \o t[i]
        BY <2>5, <4>1
      <4>3. g[i] = f[i]
        BY <3>4
      <4> QED
        BY <3>2, <4>2, <4>3
    <3> QED
      BY <3>3, <3>4
  <2> HIDE DEF g
  <2> QED
    BY <2>2, <2>8, <2>9
<1>a. n \notin Bad /\ n <= n
  <2> HIDE DEF Bad
  <2> QED
    BY <1>2
<1>3. PICK g \in [1 .. n -> Seq(X)] : good(n, g)
  BY <1>a
<1> DEFINE body(f) == [i \in 1 .. Len(t) |-> IF i = 1 THEN t[i] ELSE f[i - 1] \o t[i]]
<1>4. g = body(g)
  BY <1>1, <1>3
<1> DEFINE f == CHOOSE f : f = body(f)
<1>5. f = body(f)
  <2> HIDE DEF body
  <2> QED
    BY <1>4
<1>6. FlattenSeq(t) = f[n]
  BY <1>1 DEF FlattenSeq
<1>7. DOMAIN f = 1 .. n /\ good(n, f)
  <2> HIDE DEF f
  <2> QED
    BY <1>1, <1>5
<1> HIDE DEF f
<1>8. f = g
  <2> SUFFICES ASSUME \E i \in 1 .. n : f[i] # g[i]
               PROVE  FALSE
    BY <1>5, <1>4, <1>7, <1>1
  <2> DEFINE Wrong == {i \in 1 .. n : f[i] # g[i]}
  <2>a. Wrong \in SUBSET Nat
    <3>1. Wrong \subseteq 1 .. n
      OBVIOUS
    <3>2. 1 .. n \subseteq Nat
      OBVIOUS
    <3> HIDE DEF Wrong
    <3> QED
      BY <3>1, <3>2
  <2>b. Wrong # {}
    OBVIOUS
  <2>1. PICK i \in Wrong : \A m \in Wrong : i <= m
    <3> HIDE DEF Wrong
    <3> QED
      BY <2>a, <2>b, LeastNatural
  <2>2. i \in 1 .. n /\ f[i] # g[i]
    BY <2>1
  <2>3. i # 1
    BY <1>3, <1>7, <2>2
  <2>4. i - 1 \in 1 .. n /\ ~(i <= i - 1)
    BY <2>2, <2>3
  <2>5. f[i - 1] = g[i - 1]
    <3>1. i - 1 \notin Wrong
      <4> HIDE DEF Wrong
      <4> QED
        BY <2>1, <2>4
    <3> QED
      BY <2>4, <3>1
  <2> QED
    BY <1>3, <1>7, <2>2, <2>3, <2>5
<1> QED
  BY <1>3, <1>6, <1>8 DEF joins

allOf(t, n) == UNION {Range(t[i]) : i \in 1 .. n}

(* Pieces whose elements are in order, one piece after the other.          *)
LEMMA FlattenIncreases ==
  ASSUME NEW X, NEW n \in Nat, NEW t \in [1 .. n -> Seq(X)], NEW L,
         \A i \in 1 .. n : Increasing(t[i], L),
         \A i, j \in 1 .. n : i < j => \A x \in Range(t[i]), y \in Range(t[j]) : <<x, y>> \in L
  PROVE  /\ FlattenSeq(t) \in Seq(X) /\ Increasing(FlattenSeq(t), L)
         /\ Range(FlattenSeq(t)) = allOf(t, n)
<1>1. CASE n = 0
  <2>1. Len(t) = 0 /\ t \in Seq(Seq(X))
    BY <1>1, ListIs
  <2>2. t = <<>>
    BY <2>1, EmptyList
  <2>3. FlattenSeq(t) = <<>>
    BY <2>1, <2>2 DEF FlattenSeq
  <2> QED
    BY <1>1, <2>3, NoElement DEF allOf
<1>2. CASE n # 0
  <2>c. n > 0
    BY <1>2
  <2>d. PICK f \in [1 .. n -> Seq(X)] : FlattenSeq(t) = f[n] /\ joins(f, t, n)
    BY <2>c, FlattenIs
  <2>1. /\ f \in [1 .. n -> Seq(X)] /\ FlattenSeq(t) = f[n]
        /\ \A i \in 1 .. n : f[i] = IF i = 1 THEN t[i] ELSE f[i - 1] \o t[i]
    BY <2>d DEF joins
  <2> DEFINE good(k) == Increasing(f[k], L) /\ Range(f[k]) = UNION {Range(t[i]) : i \in 1 .. k}
             Bad == {k \in 1 .. n : ~good(k)}
  <2>2. ASSUME Bad # {}
        PROVE  FALSE
    <3>1. PICK k \in Bad : \A m \in Bad : k <= m
      <4>1. Bad \in SUBSET Nat
        OBVIOUS
      <4> HIDE DEF Bad
      <4> QED
        BY <2>2, <4>1, LeastNatural
    <3>2. k \in 1 .. n /\ ~good(k)
      BY <3>1
    <3>3. k # 1
      <4>1. ASSUME k = 1
            PROVE  FALSE
        <5>1. f[k] = t[k]
          BY <2>1, <3>2, <4>1
        <5>2. UNION {Range(t[i]) : i \in 1 .. k} = Range(t[k])
          BY <4>1
        <5> QED
          BY <3>2, <5>1, <5>2
      <4> QED
        BY <4>1
    <3>4. k - 1 \in 1 .. n /\ ~(k <= k - 1) /\ \A i \in 1 .. k - 1 : i \in 1 .. n /\ i < k
      BY <3>2, <3>3
    <3>5. good(k - 1)
      <4>1. k - 1 \notin Bad
        <5> HIDE DEF Bad
        <5> QED
          BY <3>1, <3>4
      <4> QED
        BY <3>4, <4>1
    <3>6. f[k] = f[k - 1] \o t[k] /\ f[k - 1] \in Seq(X) /\ t[k] \in Seq(X)
      BY <2>1, <3>2, <3>3, <3>4
    <3>7. \A x \in Range(f[k - 1]), y \in Range(t[k]) : <<x, y>> \in L
      BY <3>2, <3>4, <3>5
    <3>b. Increasing(f[k - 1], L) /\ Increasing(t[k], L)
      BY <3>2, <3>5
    <3>8. Increasing(f[k], L) /\ Range(f[k]) = Range(f[k - 1]) \cup Range(t[k])
      <4> DEFINE u == f[k - 1]
                 w == t[k]
      <4>1. /\ u \in Seq(X) /\ w \in Seq(X) /\ Increasing(u, L) /\ Increasing(w, L)
            /\ \A x \in Range(u), y \in Range(w) : <<x, y>> \in L
        BY <3>6, <3>7, <3>b
      <4> HIDE DEF u, w
      <4>2. Increasing(u \o w, L) /\ Range(u \o w) = Range(u) \cup Range(w)
        BY <4>1, JoinIncreases
      <4> QED
        BY <4>2, <3>6 DEF u, w
    <3>9. UNION {Range(t[i]) : i \in 1 .. k} = (UNION {Range(t[i]) : i \in 1 .. k - 1}) \cup Range(t[k])
      <4>1. 1 .. k = (1 .. k - 1) \cup {k}
        BY <3>2
      <4> QED
        BY <4>1
    <3> QED
      BY <3>2, <3>5, <3>8, <3>9
  <2>3. n \in 1 .. n
    BY <1>2
  <2>4. good(n)
    BY <2>2, <2>3
  <2> QED
    BY <2>1, <2>3, <2>4 DEF allOf
<1> QED
  BY <1>1, <1>2

-----------------------------------------------------------------------------
(* Finite sets: of indexes, and of places in their order.                  *)
LEMMA DownwardClosed ==
  ASSUME NEW J \in SUBSET Steps, IsFiniteSet(J), \A j \in J : j > 1 => j - 1 \in J
  PROVE  Cardinality(J) \in Nat /\ J = 1 .. Cardinality(J)
<1> DEFINE c == Cardinality(J)
<1>1. c \in Nat
  BY FS_CardinalityType
<1>2. ASSUME NEW k \in J
      PROVE  1 .. k \subseteq J
  <2> DEFINE Bad == {d \in Nat : d < k /\ k - d \notin J}
  <2>0. k \in Nat /\ k > 0
    BY DEF Steps
  <2>1. Bad = {}
    <3> SUFFICES ASSUME Bad # {}
                 PROVE  FALSE
      OBVIOUS
    <3>1. PICK d \in Bad : \A e \in Bad : d <= e
      <4>1. Bad \in SUBSET Nat
        OBVIOUS
      <4> HIDE DEF Bad
      <4> QED
        BY <4>1, LeastNatural
    <3>2. d \in Nat /\ d < k /\ k - d \notin J
      BY <3>1
    <3>3. d # 0
      BY <2>0, <3>2
    <3>4. d - 1 \in Nat /\ d - 1 < k /\ ~(d <= d - 1) /\ k - (d - 1) > 1 /\ k - (d - 1) - 1 = k - d
      BY <2>0, <3>2, <3>3
    <3>5. k - (d - 1) \in J
      <4>1. d - 1 \notin Bad
        <5> HIDE DEF Bad
        <5> QED
          BY <3>1, <3>4
      <4> QED
        BY <3>4, <4>1
    <3> QED
      BY <3>2, <3>4, <3>5
  <2> SUFFICES ASSUME NEW i \in 1 .. k, i \notin J
               PROVE  FALSE
    OBVIOUS
  <2>2. k - i \in Nat /\ k - i < k /\ k - (k - i) = i
    BY <2>0
  <2> QED
    BY <2>1, <2>2
<1>3. J \subseteq 1 .. c
  <2> SUFFICES ASSUME NEW k \in J
               PROVE  k \in 1 .. c
    OBVIOUS
  <2>1. k \in Nat /\ k > 0 /\ k \in Int /\ 1 \in Int /\ ~(1 > k) /\ k - 1 + 1 = k
    BY DEF Steps
  <2>2. Cardinality(1 .. k) = k
    BY <2>1, FS_Interval
  <2>3. Cardinality(1 .. k) <= c
    BY <1>2, FS_Subset
  <2> QED
    BY <1>1, <2>1, <2>2, <2>3
<1>4. IsFiniteSet(1 .. c) /\ Cardinality(1 .. c) = c
  <2>1. c \in Int /\ 1 \in Int /\ (IF 1 > c THEN 0 ELSE c - 1 + 1) = c
    BY <1>1
  <2> HIDE DEF c
  <2> QED
    BY <2>1, FS_Interval
<1> HIDE DEF c
<1>5. Cardinality(J) = c
  BY DEF c
<1>6. J = 1 .. c
  BY <1>3, <1>4, <1>5, FS_Subset
<1> QED
  BY <1>1, <1>6 DEF c

LEMMA LastOfAll ==
  ASSUME NEW S \in SUBSET Places, IsFiniteSet(S), S # {}
  PROVE  \E m \in S : \A q \in S : q = m \/ lexBefore(q, m)
<1> DEFINE n == Cardinality(S)
<1>1. n \in Nat /\ ExistsBijection(1 .. n, S)
  BY FS_CardinalityType
<1>2. PICK f \in Bijection(1 .. n, S) : TRUE
  BY <1>1 DEF ExistsBijection
<1> HIDE DEF n
<1>3. f \in [1 .. n -> S] /\ \A q \in S : \E i \in 1 .. n : f[i] = q
  BY <1>2 DEF Bijection, Injection, Surjection
<1>4. \A i \in 1 .. n : f[i] \in Places
  BY <1>3
<1> DEFINE good(k) == \E i \in 1 .. k : \A j \in 1 .. k : f[j] = f[i] \/ lexBefore(f[j], f[i])
           Bad == {k \in 1 .. n : ~good(k)}
<1>5. ASSUME Bad # {}
      PROVE  FALSE
  <2>1. PICK k \in Bad : \A m \in Bad : k <= m
    <3>1. Bad \in SUBSET Nat
      BY <1>1
    <3> HIDE DEF Bad
    <3> QED
      BY <1>5, <3>1, LeastNatural
  <2>2. k \in 1 .. n /\ ~good(k)
    BY <2>1
  <2>3. k # 1
    BY <2>2
  <2>4. k - 1 \in 1 .. n /\ ~(k <= k - 1)
    BY <1>1, <2>2, <2>3
  <2>5. good(k - 1)
    <3>1. k - 1 \notin Bad
      <4> HIDE DEF Bad
      <4> QED
        BY <2>1, <2>4
    <3> QED
      BY <2>4, <3>1
  <2>6. PICK i \in 1 .. k - 1 : \A j \in 1 .. k - 1 : f[j] = f[i] \/ lexBefore(f[j], f[i])
    BY <2>5
  <2>7. i \in 1 .. k /\ k \in 1 .. k /\ i \in 1 .. n /\ \A j \in 1 .. k : (j \in 1 .. k - 1 \/ j = k) /\ j \in 1 .. n
    BY <1>1, <2>2, <2>4
  <2>8. CASE f[k] = f[i] \/ lexBefore(f[k], f[i])
    <3>1. \A j \in 1 .. k : f[j] = f[i] \/ lexBefore(f[j], f[i])
      BY <2>6, <2>7, <2>8
    <3> QED
      BY <2>2, <2>7, <3>1
  <2>9. CASE ~(f[k] = f[i] \/ lexBefore(f[k], f[i]))
    <3>1. lexBefore(f[i], f[k])
      BY <1>4, <2>2, <2>7, <2>9, BeforeIsTotal
    <3>2. \A j \in 1 .. k - 1 : lexBefore(f[j], f[k])
      <4> TAKE j \in 1 .. k - 1
      <4>1. j \in 1 .. n
        BY <1>1, <2>2
      <4>2. f[j] = f[i] \/ lexBefore(f[j], f[i])
        BY <2>6
      <4>3. f[j] \in Places /\ f[i] \in Places /\ f[k] \in Places
        BY <1>4, <2>2, <2>7, <4>1
      <4> QED
        BY <3>1, <4>2, <4>3, BeforeIsTransitive
    <3>3. \A j \in 1 .. k : f[j] = f[k] \/ lexBefore(f[j], f[k])
      BY <2>7, <3>2
    <3> QED
      BY <2>2, <2>7, <3>3
  <2> QED
    BY <2>8, <2>9
<1>6. n # 0
  BY <1>3
<1>7. n \in 1 .. n
  BY <1>1, <1>6
<1>8. PICK i \in 1 .. n : \A j \in 1 .. n : f[j] = f[i] \/ lexBefore(f[j], f[i])
  BY <1>5, <1>7
<1>9. f[i] \in S /\ \A q \in S : q = f[i] \/ lexBefore(q, f[i])
  BY <1>3, <1>8
<1> QED
  BY <1>9

enumerates(s, S) ==
  /\ s \in [1 .. Cardinality(S) -> S]
  /\ \A i, j \in DOMAIN s : i < j => lexBefore(s[i], s[j])

LEMMA PlacesHaveAnOrder ==
  ASSUME NEW S \in SUBSET Places, IsFiniteSet(S)
  PROVE  \E s : enumerates(s, S)
<1> DEFINE bad(n, T) == IsFiniteSet(T) /\ Cardinality(T) = n /\ ~(\E s : enumerates(s, T))
           Bad == {n \in Nat : \E T \in SUBSET Places : bad(n, T)}
<1>1. ASSUME Bad # {}
      PROVE  FALSE
  <2>1. PICK n \in Bad : \A m \in Bad : n <= m
    <3>1. Bad \in SUBSET Nat
      OBVIOUS
    <3> HIDE DEF Bad
    <3> QED
      BY <1>1, <3>1, LeastNatural
  <2>2. PICK T \in SUBSET Places : bad(n, T)
    BY <2>1
  <2>3. n \in Nat /\ IsFiniteSet(T) /\ Cardinality(T) = n /\ ~(\E s : enumerates(s, T))
    BY <2>1, <2>2
  <2>4. T # {}
    <3>1. ASSUME T = {}
          PROVE  FALSE
      <4>1. n = 0
        BY <2>3, <3>1, FS_EmptySet
      <4> DEFINE e == [i \in 1 .. 0 |-> 0]
      <4>2. e \in [1 .. n -> T] /\ DOMAIN e = {}
        BY <4>1
      <4> HIDE DEF e
      <4>3. enumerates(e, T)
        BY <2>3, <4>2 DEF enumerates
      <4> QED
        BY <2>3, <4>3
    <3> QED
      BY <3>1
  <2>5. PICK m \in T : \A q \in T : q = m \/ lexBefore(q, m)
    BY <2>3, <2>4, LastOfAll
  <2> DEFINE U == T \ {m}
  <2>6. IsFiniteSet(U) /\ Cardinality(U) = n - 1 /\ U \in SUBSET Places /\ n - 1 \in Nat /\ ~(n <= n - 1)
    <3>1. IsFiniteSet(U) /\ Cardinality(U) = n - 1
      BY <2>3, FS_RemoveElement
    <3>2. n - 1 \in Nat
      BY <3>1, FS_CardinalityType
    <3> QED
      BY <2>3, <3>1, <3>2
  <2>7. PICK s : enumerates(s, U)
    <3>1. n - 1 \notin Bad
      <4> HIDE DEF Bad
      <4> QED
        BY <2>1, <2>6
    <3> HIDE DEF U
    <3> QED
      BY <2>6, <3>1
  <2>8. s \in [1 .. n - 1 -> U] /\ \A i, j \in 1 .. n - 1 : i < j => lexBefore(s[i], s[j])
    BY <2>6, <2>7 DEF enumerates
  <2> DEFINE u == [i \in 1 .. n |-> IF i = n THEN m ELSE s[i]]
  <2>9. \A i \in 1 .. n : i = n \/ i \in 1 .. n - 1
    BY <2>3
  <2>10. u \in [1 .. n -> T] /\ \A i \in 1 .. n - 1 : s[i] \in T /\ s[i] # m
    BY <2>8, <2>9
  <2>11. ASSUME NEW i \in 1 .. n, NEW j \in 1 .. n, i < j
         PROVE  lexBefore(u[i], u[j])
    <3>1. i # n /\ i \in 1 .. n - 1
      BY <2>3, <2>11
    <3>2. u[i] = s[i]
      BY <3>1
    <3>3. CASE j = n
      <4>1. u[j] = m
        BY <3>3
      <4>2. s[i] \in T /\ s[i] # m
        BY <2>10, <3>1
      <4>3. lexBefore(s[i], m)
        BY <2>5, <4>2
      <4> QED
        BY <3>2, <4>1, <4>3
    <3>4. CASE j # n
      <4>1. u[j] = s[j] /\ j \in 1 .. n - 1
        BY <2>9, <3>4
      <4>2. lexBefore(s[i], s[j])
        BY <2>8, <2>11, <3>1, <4>1
      <4> QED
        BY <3>2, <4>1, <4>2
    <3> QED
      BY <3>3, <3>4
  <2> HIDE DEF u
  <2>12. enumerates(u, T)
    BY <2>3, <2>10, <2>11 DEF enumerates
  <2> QED
    BY <2>3, <2>12
<1> HIDE DEF Bad
<1>2. Cardinality(S) \in Nat
  BY FS_CardinalityType
<1>3. Cardinality(S) \notin Bad
  BY <1>1
<1> QED
  BY <1>2, <1>3 DEF Bad

LEMMA InOrderIs ==
  ASSUME NEW S \in SUBSET Places, IsFiniteSet(S)
  PROVE  /\ Cardinality(S) \in Nat
         /\ inOrder(S) \in [1 .. Cardinality(S) -> S]
         /\ \A i, j \in 1 .. Cardinality(S) : i < j => lexBefore(inOrder(S)[i], inOrder(S)[j])
         /\ \A i, j \in 1 .. Cardinality(S) : inOrder(S)[i] = inOrder(S)[j] => i = j
         /\ \A p \in S : \E i \in 1 .. Cardinality(S) : inOrder(S)[i] = p
<1> DEFINE n == Cardinality(S)
           s == inOrder(S)
<1>1. n \in Nat
  BY FS_CardinalityType
<1>2. \E z \in [1 .. n -> S] : \A i, j \in DOMAIN z : i < j => lexBefore(z[i], z[j])
  BY PlacesHaveAnOrder DEF enumerates
<1>3. s \in [1 .. n -> S] /\ \A i, j \in DOMAIN s : i < j => lexBefore(s[i], s[j])
  <2> HIDE DEF n
  <2>1. s = CHOOSE z \in [1 .. n -> S] : \A i, j \in DOMAIN z : i < j => lexBefore(z[i], z[j])
    BY DEF inOrder, n
  <2> HIDE DEF s
  <2> QED
    BY <1>2, <2>1
<1> HIDE DEF n, s
<1>4. \A i, j \in 1 .. n : i < j => lexBefore(s[i], s[j])
  BY <1>3
<1>5. ASSUME NEW i \in 1 .. n, NEW j \in 1 .. n, s[i] = s[j]
      PROVE  i = j
  <2>1. s[i] \in Places
    BY <1>3
  <2>2. ~(i < j) /\ ~(j < i)
    BY <1>4, <1>5, <2>1, BeforeIsStrict
  <2> QED
    BY <1>1, <2>2
<1>6. \A p \in S : \E i \in 1 .. n : s[i] = p
  <2>1. s \in Injection(1 .. n, S)
    BY <1>3, <1>5 DEF Injection, IsInjective
  <2>2. IsFiniteSet(1 .. n) /\ Cardinality(1 .. n) = n
    <3>1. n \in Int /\ 1 \in Int /\ (IF 1 > n THEN 0 ELSE n - 1 + 1) = n
      BY <1>1
    <3> QED
      BY <3>1, FS_Interval
  <2>3. s \in Surjection(1 .. n, S)
    BY <2>1, <2>2, FS_Injection DEF n
  <2> QED
    BY <2>3 DEF Surjection
<1> QED
  BY <1>1, <1>3, <1>4, <1>5, <1>6 DEF n, s

-----------------------------------------------------------------------------
(* Paths that start alike.                                                 *)
LEMMA PrefixIsTransitive ==
  ASSUME NEW p \in Paths, NEW q \in Paths, NEW r \in Paths, IsPrefix(p, q), IsPrefix(q, r)
  PROVE  IsPrefix(p, r)
<1>1. Len(p) \in Nat /\ Len(q) \in Nat /\ Len(r) \in Nat
  BY PathIs
<1>2. /\ Len(p) <= Len(q) /\ \A i \in 1 .. Len(p) : p[i] = q[i]
      /\ Len(q) <= Len(r) /\ \A i \in 1 .. Len(q) : q[i] = r[i]
  BY PrefixIs
<1>3. Len(p) <= Len(r) /\ \A i \in 1 .. Len(p) : i \in 1 .. Len(q)
  BY <1>1, <1>2
<1> QED
  BY <1>2, <1>3, PrefixIs

LEMMA PrefixIsReflexive ==
  ASSUME NEW p \in Paths
  PROVE  IsPrefix(p, p) /\ IsPrefix(<<>>, p)
<1>1. Len(p) \in Nat /\ Len(<<>>) = 0 /\ <<>> \in Paths
  BY PathIs DEF Paths
<1> QED
  BY <1>1, PrefixIs

LEMMA EmptyIsAPath == <<>> \in Paths /\ Len(<<>>) = 0
BY DEF Paths

LEMMA ShorterPrefix ==
  ASSUME NEW p \in Paths, NEW q \in Paths, IsPrefix(p, q)
  PROVE  /\ Len(p) <= Len(q)
         /\ Len(p) = Len(q) <=> p = q
         /\ p # q => Len(p) < Len(q)
<1>1. Len(p) \in Nat /\ Len(q) \in Nat
  BY PathIs
<1>2. Len(p) <= Len(q) /\ \A i \in 1 .. Len(p) : p[i] = q[i]
  BY PrefixIs
<1>3. Len(p) = Len(q) => p = q
  BY <1>2, SamePath
<1>4. Len(p) <= Len(q)
  BY <1>2
<1> QED
  BY <1>1, <1>3, <1>4

LEMMA ChildExtends ==
  ASSUME NEW p \in Paths, NEW i \in Steps, NEW q \in Paths
  PROVE  IsPrefix(Append(p, i), q) <=> IsPrefix(p, q) /\ Len(p) < Len(q) /\ q[Len(p) + 1] = i
<1> DEFINE c == Append(p, i)
<1>1. Len(p) \in Nat /\ Len(q) \in Nat
  BY PathIs
<1>2. /\ c \in Paths /\ Len(c) = Len(p) + 1
      /\ \A j \in 1 .. Len(p) : c[j] = p[j]
      /\ c[Len(p) + 1] = i
  BY ChildIs
<1> HIDE DEF c
<1>3. IsPrefix(c, q) <=> Len(c) <= Len(q) /\ \A j \in 1 .. Len(c) : c[j] = q[j]
  BY <1>2, PrefixIs
<1>4. IsPrefix(p, q) <=> Len(p) <= Len(q) /\ \A j \in 1 .. Len(p) : p[j] = q[j]
  BY PrefixIs
<1>5. Len(c) <= Len(q) <=> Len(p) <= Len(q) /\ Len(p) < Len(q)
  BY <1>1, <1>2
<1>6. \A j : j \in 1 .. Len(c) <=> j \in 1 .. Len(p) \/ j = Len(p) + 1
  BY <1>1, <1>2
<1>7. (\A j \in 1 .. Len(c) : c[j] = q[j]) <=> (\A j \in 1 .. Len(p) : p[j] = q[j]) /\ i = q[Len(p) + 1]
  BY <1>2, <1>6
<1> QED
  BY <1>3, <1>4, <1>5, <1>7 DEF c

LEMMA TowardsChild ==
  ASSUME NEW p \in Paths, NEW q \in Paths, IsPrefix(p, q), p # q
  PROVE  /\ q[Len(p) + 1] \in Steps /\ IsPrefix(Append(p, q[Len(p) + 1]), q)
         /\ IsPrefix(p, Front(q))
<1>1. Len(p) \in Nat /\ Len(q) \in Nat /\ Len(p) < Len(q) /\ q # <<>>
  BY PathIs, ShorterPrefix
<1>2. Len(p) + 1 \in 1 .. Len(q)
  BY <1>1
<1>3. q[Len(p) + 1] \in Steps
  BY <1>2, PathIs
<1>4. /\ Front(q) \in Paths /\ Len(Front(q)) = Len(q) - 1
      /\ \A i \in 1 .. Len(q) - 1 : Front(q)[i] = q[i]
  BY <1>1, FrontIs
<1>5. \A i \in 1 .. Len(p) : p[i] = q[i]
  BY PrefixIs
<1>6. Len(p) <= Len(q) - 1 /\ \A i \in 1 .. Len(p) : i \in 1 .. Len(q) - 1
  BY <1>1
<1>7. IsPrefix(p, Front(q))
  BY <1>4, <1>5, <1>6, PrefixIs
<1> QED
  BY <1>1, <1>3, <1>7, ChildExtends

LEMMA FrontIsPrefix ==
  ASSUME NEW p \in Paths, p # <<>>
  PROVE  IsPrefix(Front(p), p) /\ Front(p) # p
<1>1. /\ Front(p) \in Paths /\ Len(Front(p)) = Len(p) - 1
      /\ \A i \in 1 .. Len(p) - 1 : Front(p)[i] = p[i]
  BY FrontIs
<1>2. Len(p) \in Nat
  BY PathIs
<1>3. Len(p) - 1 <= Len(p) /\ Len(p) - 1 # Len(p)
  BY <1>2
<1> QED
  BY <1>1, <1>3, PrefixIs

LEMMA HeadIsPrefix ==
  ASSUME NEW p \in Paths, NEW n \in 0 .. Len(p)
  PROVE  IsPrefix(SubSeq(p, 1, n), p)
<1>1. Len(p) \in Nat /\ n \in Nat /\ n <= Len(p)
  BY PathIs
<1> QED
  BY <1>1, HeadIs, PrefixIs

LEMMA PrefixIsHead ==
  ASSUME NEW p \in Paths, NEW q \in Paths, IsPrefix(p, q)
  PROVE  p = SubSeq(q, 1, Len(p))
<1>1. Len(p) \in Nat /\ Len(q) \in Nat
  BY PathIs
<1>2. Len(p) <= Len(q) /\ \A i \in 1 .. Len(p) : p[i] = q[i]
  BY PrefixIs
<1>3. Len(p) \in 0 .. Len(q)
  BY <1>1, <1>2
<1>4. /\ SubSeq(q, 1, Len(p)) \in Paths /\ Len(SubSeq(q, 1, Len(p))) = Len(p)
      /\ \A i \in 1 .. Len(p) : SubSeq(q, 1, Len(p))[i] = q[i]
  BY <1>3, HeadIs
<1> QED
  BY <1>2, <1>4, SamePath

LEMMA HeadOfHead ==
  ASSUME NEW p \in Paths, NEW m \in Nat, NEW n \in 0 .. Len(p), m <= n
  PROVE  SubSeq(SubSeq(p, 1, n), 1, m) = SubSeq(p, 1, m)
<1>1. Len(p) \in Nat
  BY PathIs
<1>2. m \in 0 .. Len(p) /\ m \in 0 .. n /\ \A i \in 1 .. m : i \in 1 .. n
  BY <1>1
<1> DEFINE h == SubSeq(p, 1, n)
<1>3. h \in Paths /\ Len(h) = n /\ \A i \in 1 .. n : h[i] = p[i]
  BY HeadIs
<1> HIDE DEF h
<1>4. SubSeq(h, 1, m) \in Paths /\ Len(SubSeq(h, 1, m)) = m /\ \A i \in 1 .. m : SubSeq(h, 1, m)[i] = h[i]
  BY <1>2, <1>3, HeadIs
<1>5. SubSeq(p, 1, m) \in Paths /\ Len(SubSeq(p, 1, m)) = m /\ \A i \in 1 .. m : SubSeq(p, 1, m)[i] = p[i]
  BY <1>2, HeadIs
<1> QED
  BY <1>2, <1>3, <1>4, <1>5, SamePath DEF h

LEMMA StrictPrefixIsBefore ==
  ASSUME NEW p \in Paths, NEW q \in Paths, IsPrefix(p, q), p # q
  PROVE  lexBefore(p, q)
BY DEF lexBefore, IsStrictPrefix

LEMMA SiblingsApart ==
  ASSUME NEW p \in Paths, NEW i \in Steps, NEW j \in Steps, i < j,
         NEW x \in Paths, NEW y \in Paths, IsPrefix(Append(p, i), x), IsPrefix(Append(p, j), y)
  PROVE  lexBefore(x, y)
<1> DEFINE n == Len(p) + 1
<1>1. Len(p) \in Nat /\ Len(x) \in Nat /\ Len(y) \in Nat
  BY PathIs
<1>2. /\ IsPrefix(p, x) /\ Len(p) < Len(x) /\ x[n] = i
      /\ IsPrefix(p, y) /\ Len(p) < Len(y) /\ y[n] = j
  BY ChildExtends
<1>3. \A k \in 1 .. Len(p) : x[k] = y[k]
  BY <1>2, PrefixIs
<1>4. n \in 1 .. Len(x) /\ n \in 1 .. Len(y) /\ n - 1 = Len(p)
  BY <1>1, <1>2
<1>5. DOMAIN x = 1 .. Len(x) /\ DOMAIN y = 1 .. Len(y)
  BY PathIs
<1> QED
  BY <1>2, <1>3, <1>4, <1>5 DEF lexBefore

-----------------------------------------------------------------------------
(* Forests.                                                                *)
LEMMA ForestIs ==
  ASSUME NEW F, isForest(F)
  PROVE  /\ IsFiniteSet(DOMAIN F) /\ DOMAIN F \subseteq Paths /\ <<>> \notin DOMAIN F
         /\ F = [p \in DOMAIN F |-> F[p]]
         /\ \A p \in DOMAIN F :
              /\ p \in Paths /\ p # <<>> /\ isNode(F[p])
              /\ Len(p) > 1 => Front(p) \in DOMAIN F
              /\ Last(p) > 1 => previous(p) \in DOMAIN F
BY DEF isForest, Paths

LEMMA Enclosing ==
  ASSUME NEW F, isForest(F), NEW p \in DOMAIN F, NEW q \in Paths, q # <<>>, IsPrefix(q, p)
  PROVE  q \in DOMAIN F
<1> DEFINE Bad == {d \in Nat : d < Len(p) /\ SubSeq(p, 1, Len(p) - d) \notin DOMAIN F}
<1>1. p \in Paths /\ Len(p) \in Nat
  BY ForestIs, PathIs
<1>2. ASSUME Bad # {}
      PROVE  FALSE
  <2>1. PICK d \in Bad : \A e \in Bad : d <= e
    <3>1. Bad \in SUBSET Nat
      OBVIOUS
    <3> HIDE DEF Bad
    <3> QED
      BY <1>2, <3>1, LeastNatural
  <2>2. d \in Nat /\ d < Len(p) /\ SubSeq(p, 1, Len(p) - d) \notin DOMAIN F
    BY <2>1
  <2>3. d # 0
    <3>1. SubSeq(p, 1, Len(p)) = p
      BY <1>1, SubSeqFull DEF Paths
    <3>2. Len(p) - 0 = Len(p)
      BY <1>1
    <3> QED
      BY <2>2, <3>1, <3>2
  <2> DEFINE n == Len(p) - (d - 1)
             h == SubSeq(p, 1, n)
  <2>4. /\ d - 1 \in Nat /\ d - 1 < Len(p) /\ ~(d <= d - 1)
        /\ n \in 0 .. Len(p) /\ n > 1 /\ n - 1 = Len(p) - d /\ n - 1 \in Nat /\ n - 1 <= n
    BY <1>1, <2>2, <2>3
  <2>5. h \in DOMAIN F
    <3>1. d - 1 \notin Bad
      <4> HIDE DEF Bad
      <4> QED
        BY <2>1, <2>4
    <3> QED
      BY <2>4, <3>1
  <2> HIDE DEF n
  <2>6. h \in Paths /\ Len(h) = n
    BY <1>1, <2>4, HeadIs
  <2>7. Front(h) \in DOMAIN F
    BY <2>4, <2>5, <2>6, ForestIs
  <2>8. Front(h) = SubSeq(p, 1, n - 1)
    <3>1. Front(h) = SubSeq(h, 1, n - 1)
      BY <2>6 DEF Front
    <3> QED
      BY <1>1, <2>4, <3>1, HeadOfHead
  <2> QED
    BY <2>2, <2>4, <2>7, <2>8
<1> HIDE DEF Bad
<1>3. Len(q) \in Nat /\ Len(q) > 0 /\ Len(q) <= Len(p)
  BY <1>1, PathIs, ShorterPrefix
<1>4. Len(p) - Len(q) \in Nat /\ Len(p) - Len(q) < Len(p) /\ Len(p) - (Len(p) - Len(q)) = Len(q)
  BY <1>1, <1>3
<1>5. SubSeq(p, 1, Len(q)) \in DOMAIN F
  BY <1>2, <1>4 DEF Bad
<1> QED
  BY <1>1, <1>5, PrefixIsHead

LEMMA DepthIs ==
  ASSUME NEW F, isForest(F)
  PROVE  /\ Cardinality(DOMAIN F) \in Nat
         /\ \A p \in DOMAIN F : Len(p) \in Nat /\ Len(p) > 0 /\ Len(p) <= Cardinality(DOMAIN F)
<1>1. IsFiniteSet(DOMAIN F) /\ Cardinality(DOMAIN F) \in Nat
  BY ForestIs, FS_CardinalityType
<1>2. ASSUME NEW p \in DOMAIN F
      PROVE  Len(p) \in Nat /\ Len(p) > 0 /\ Len(p) <= Cardinality(DOMAIN F)
  <2>1. p \in Paths /\ Len(p) \in Nat /\ Len(p) > 0
    BY ForestIs, PathIs
  <2> DEFINE h == [i \in 1 .. Len(p) |-> SubSeq(p, 1, i)]
  <2>2. ASSUME NEW i \in 1 .. Len(p)
        PROVE  SubSeq(p, 1, i) \in DOMAIN F /\ Len(SubSeq(p, 1, i)) = i
    <3>1. i \in 0 .. Len(p) /\ i > 0
      BY <2>1
    <3>2. SubSeq(p, 1, i) \in Paths /\ Len(SubSeq(p, 1, i)) = i /\ IsPrefix(SubSeq(p, 1, i), p)
      BY <2>1, <3>1, HeadIs, HeadIsPrefix
    <3>3. SubSeq(p, 1, i) # <<>>
      BY <3>1, <3>2, PathIs
    <3> QED
      BY <3>2, <3>3, Enclosing
  <2>3. h \in [1 .. Len(p) -> DOMAIN F] /\ \A i, j \in 1 .. Len(p) : h[i] = h[j] => i = j
    BY <2>2
  <2> HIDE DEF h
  <2>4. h \in Injection(1 .. Len(p), DOMAIN F)
    BY <2>3 DEF Injection, IsInjective
  <2>5. Cardinality(1 .. Len(p)) <= Cardinality(DOMAIN F)
    BY <1>1, <2>4, FS_Injection
  <2>6. Cardinality(1 .. Len(p)) = Len(p)
    <3>1. Len(p) \in Int /\ 1 \in Int /\ (IF 1 > Len(p) THEN 0 ELSE Len(p) - 1 + 1) = Len(p)
      BY <2>1
    <3> QED
      BY <3>1, FS_Interval
  <2> QED
    BY <2>1, <2>5, <2>6
<1> QED
  BY <1>1, <1>2

LEMMA ChildrenAre ==
  ASSUME NEW F, isForest(F), NEW p \in Paths
  PROVE  /\ arity(F, p) \in Nat
         /\ \A i \in Steps : Append(p, i) \in DOMAIN F <=> i \in 1 .. arity(F, p)
<1> DEFINE C == {q \in DOMAIN F : Front(q) = p}
           J == {i \in Steps : Append(p, i) \in DOMAIN F}
           last == [q \in C |-> Last(q)]
<1>1. IsFiniteSet(C)
  BY ForestIs, FS_Subset
<1>2. ASSUME NEW q \in C
      PROVE  q \in Paths /\ Last(q) \in J /\ q = Append(p, Last(q))
  BY ForestIs, FrontIs, FrontAndLast
<1>3. ASSUME NEW i \in J
      PROVE  Append(p, i) \in C /\ Last(Append(p, i)) = i
  BY ChildIs
<1>4. last \in [C -> J] /\ (\A q, r \in C : last[q] = last[r] => q = r) /\ (\A i \in J : \E q \in C : last[q] = i)
  <2> HIDE DEF C, J
  <2> QED
    BY <1>2, <1>3
<1> HIDE DEF C, J, last
<1>5. last \in Bijection(C, J)
  BY <1>4 DEF Bijection, Injection, Surjection, IsInjective
<1>6. IsFiniteSet(J) /\ Cardinality(J) = Cardinality(C)
  BY <1>1, <1>5, FS_Bijection DEF ExistsBijection
<1>7. ASSUME NEW j \in J, j > 1
      PROVE  j - 1 \in J
  <2>1. j - 1 \in Steps /\ j - 1 + 1 = j /\ j \in Steps /\ Append(p, j) \in DOMAIN F
    BY <1>7 DEF J, Steps
  <2>2. previous(Append(p, j)) = Append(p, j - 1)
    BY <2>1, PreviousIs
  <2>3. Last(Append(p, j)) > 1
    BY <1>7, <2>1, ChildIs
  <2>a. \A q \in DOMAIN F : Last(q) > 1 => previous(q) \in DOMAIN F
    BY ForestIs
  <2>4. Append(p, j - 1) \in DOMAIN F
    BY <2>1, <2>2, <2>3, <2>a
  <2> QED
    BY <2>1, <2>4 DEF J
<1>8. J \in SUBSET Steps
  BY DEF J
<1>9. Cardinality(J) \in Nat /\ J = 1 .. Cardinality(J)
  BY <1>6, <1>7, <1>8, DownwardClosed
<1>10. arity(F, p) = Cardinality(J)
  BY <1>6 DEF arity, C
<1> QED
  BY <1>9, <1>10 DEF J

-----------------------------------------------------------------------------
(* Rows, and the walk that collects them.                                  *)
Kinds == {"Decrypted", "Pkcs12Revealed", "CmsRevealed"}
Sources == {Document, Placeholder} \cup {source(of, k) : of \in Kinds, k \in Nat}
Rows == [path : Paths, depth : Nat, source : Sources, elided : BOOLEAN]
isContext(c) == c.source \in Sources /\ c.depth \in Nat
byPath == {xy \in Rows \X Rows : lexBefore(xy[1].path, xy[2].path)}

LEMMA RowIs ==
  ASSUME NEW c, isContext(c), NEW q \in Paths, q # <<>>, NEW e \in BOOLEAN
  PROVE  /\ row(c, q, e) \in Rows /\ row(c, q, e).path = q /\ row(c, q, e).elided = e
         /\ row(c, q, e).source = c.source /\ row(c, q, e).depth = c.depth + Len(q) - 1
<1>1. Len(q) \in Nat /\ Len(q) > 0
  BY PathIs
<1>2. c.depth + Len(q) - 1 \in Nat
  BY <1>1 DEF isContext
<1> QED
  BY <1>2 DEF row, Rows, isContext

LEMMA ByPathIs ==
  ASSUME NEW x \in Rows, NEW y \in Rows
  PROVE  <<x, y>> \in byPath <=> lexBefore(x.path, y.path)
BY DEF byPath

subtreesOf(F, p, f) == [i \in 1 .. arity(F, p) |-> f[Append(p, i)]]

entry(F, c, p, f) ==
  IF c.filter = <<>> THEN collectRows(F[p], p, subtreesOf(F, p, f), c)
  ELSE collectRowsFiltered(F[p], p, subtreesOf(F, p, f), c)

collection(F, c) == CHOOSE f : f = [p \in DOMAIN F |-> entry(F, c, p, f)]

LEMMA SameSubtrees ==
  ASSUME NEW F, NEW c, NEW p, NEW f, NEW g, subtreesOf(F, p, f) = subtreesOf(F, p, g)
  PROVE  entry(F, c, p, f) = entry(F, c, p, g)
BY DEF entry

LEMMA CollectionExists ==
  ASSUME NEW F, isForest(F), NEW c
  PROVE  \E f : f = [p \in DOMAIN F |-> entry(F, c, p, f)]
<1> DEFINE D == DOMAIN F
           N == Cardinality(D)
           good(k, f) == /\ f = [p \in D |-> f[p]]
                         /\ \A p \in D : Len(p) > N - k => f[p] = entry(F, c, p, f)
           Bad == {k \in Nat : k <= N /\ ~(\E f : good(k, f))}
<1>1. N \in Nat /\ \A p \in D : p \in Paths /\ Len(p) \in Nat /\ Len(p) > 0 /\ Len(p) <= N
  BY DepthIs, ForestIs
<1> HIDE DEF N
<1>2. ASSUME Bad # {}
      PROVE  FALSE
  <2>1. PICK k \in Bad : \A m \in Bad : k <= m
    <3>1. Bad \in SUBSET Nat
      OBVIOUS
    <3> HIDE DEF Bad
    <3> QED
      BY <1>2, <3>1, LeastNatural
  <2>2. k \in Nat /\ k <= N /\ ~(\E f : good(k, f))
    BY <2>1
  <2>3. k # 0
    <3>1. ASSUME k = 0
          PROVE  FALSE
      <4> DEFINE e == [p \in D |-> 0]
      <4>1. e = [p \in D |-> e[p]]
        OBVIOUS
      <4>2. \A p \in D : ~(Len(p) > N - k)
        BY <1>1, <3>1
      <4> HIDE DEF e
      <4> QED
        BY <2>2, <4>1, <4>2
    <3> QED
      BY <3>1
  <2>4. k - 1 \in Nat /\ k - 1 <= N /\ ~(k <= k - 1)
    BY <1>1, <2>2, <2>3
  <2>5. PICK f : good(k - 1, f)
    <3>1. k - 1 \notin Bad
      <4> HIDE DEF Bad
      <4> QED
        BY <2>1, <2>4
    <3> HIDE DEF good
    <3> QED
      BY <2>4, <3>1
  <2> DEFINE g == [p \in D |-> IF Len(p) = N - k + 1 THEN entry(F, c, p, f) ELSE f[p]]
  <2>6. ASSUME NEW p \in D, Len(p) > N - k
        PROVE  entry(F, c, p, g) = entry(F, c, p, f)
    <3>1. ASSUME NEW i \in 1 .. arity(F, p)
          PROVE  g[Append(p, i)] = f[Append(p, i)]
      <4>1. p \in Paths /\ i \in Steps /\ arity(F, p) \in Nat
        BY <1>1, ChildrenAre DEF Steps
      <4>2. Append(p, i) \in D /\ Len(Append(p, i)) = Len(p) + 1
        BY <4>1, ChildrenAre, ChildIs
      <4>3. Len(Append(p, i)) # N - k + 1
        BY <1>1, <2>2, <2>6, <4>2
      <4> QED
        BY <4>2, <4>3
    <3> HIDE DEF g
    <3>2. subtreesOf(F, p, g) = subtreesOf(F, p, f)
      BY <3>1 DEF subtreesOf
    <3> QED
      BY <3>2, SameSubtrees
  <2>7. ASSUME NEW p \in D, Len(p) > N - k
        PROVE  g[p] = entry(F, c, p, g)
    <3>1. CASE Len(p) = N - k + 1
      BY <2>6, <2>7, <3>1
    <3>2. CASE Len(p) # N - k + 1
      <4>1. Len(p) > N - (k - 1)
        BY <1>1, <2>2, <2>7, <3>2
      <4>2. f[p] = entry(F, c, p, f)
        BY <2>5, <4>1
      <4>3. g[p] = f[p]
        BY <3>2
      <4> QED
        BY <2>6, <2>7, <4>2, <4>3
    <3> QED
      BY <3>1, <3>2
  <2>8. g = [p \in D |-> g[p]]
    OBVIOUS
  <2> HIDE DEF g
  <2> QED
    BY <2>2, <2>7, <2>8
<1>3. PICK f : good(N, f)
  <2>1. N \notin Bad /\ N \in Nat /\ N <= N
    <3> HIDE DEF Bad
    <3> QED
      BY <1>1, <1>2
  <2> HIDE DEF good
  <2> QED
    BY <2>1
<1>4. \A p \in D : Len(p) > N - N
  BY <1>1
<1>5. f = [p \in D |-> entry(F, c, p, f)]
  BY <1>3, <1>4
<1> QED
  BY <1>5

LEMMA CollectionIs ==
  ASSUME NEW F, isForest(F), NEW c
  PROVE  \A p \in DOMAIN F : collection(F, c)[p] = entry(F, c, p, collection(F, c))
<1> DEFINE f == collection(F, c)
<1>1. f = [p \in DOMAIN F |-> entry(F, c, p, f)]
  BY CollectionExists DEF collection
<1> HIDE DEF f
<1>2. \A p \in DOMAIN F : f[p] = entry(F, c, p, f)
  BY <1>1
<1> QED
  BY <1>2 DEF f

LEMMA CollectForestIs ==
  ASSUME NEW F, isForest(F), NEW c
  PROVE  collectForest(F, c) =
           IF c.filter = <<>> THEN FlattenSeq(subtreesOf(F, <<>>, collection(F, c)))
           ELSE withRuns(subtreesOf(F, <<>>, collection(F, c)), <<>>, c)
<1> DEFINE f == CHOOSE f : f = [p \in DOMAIN F |->
                 IF c.filter = <<>>
                 THEN collectRows(F[p], p, [i \in 1 .. arity(F, p) |-> f[Append(p, i)]], c)
                 ELSE collectRowsFiltered(F[p], p, [i \in 1 .. arity(F, p) |-> f[Append(p, i)]], c)]
           all == [i \in 1 .. arity(F, <<>>) |-> f[<<i>>]]
<1>1. f = collection(F, c)
  BY DEF collection, entry, subtreesOf
<1>2. collectForest(F, c) = IF c.filter = <<>> THEN FlattenSeq(all) ELSE withRuns(all, <<>>, c)
  BY DEF collectForest
<1> HIDE DEF f
<1>3. \A i : <<i>> = Append(<<>>, i)
  OBVIOUS
<1>4. all = subtreesOf(F, <<>>, f)
  BY <1>3 DEF subtreesOf
<1> HIDE DEF all
<1> QED
  BY <1>1, <1>2, <1>4

-----------------------------------------------------------------------------
(* What the walk collects.                                                 *)
extend(p, S) == \A x \in S : IsPrefix(p, x.path)

LEMMA SubtreesJoin ==
  ASSUME NEW F, isForest(F), NEW p \in Paths,
         NEW t \in [1 .. arity(F, p) -> Seq(Rows)],
         \A i \in 1 .. arity(F, p) :
           Increasing(t[i], byPath) /\ extend(Append(p, i), Range(t[i]))
  PROVE  /\ FlattenSeq(t) \in Seq(Rows) /\ Increasing(FlattenSeq(t), byPath)
         /\ Range(FlattenSeq(t)) = UNION {Range(t[i]) : i \in 1 .. arity(F, p)}
<1> DEFINE n == arity(F, p)
<1>1. n \in Nat
  BY ChildrenAre
<1>2. ASSUME NEW i \in 1 .. n, NEW j \in 1 .. n, i < j, NEW x \in Range(t[i]), NEW y \in Range(t[j])
      PROVE  <<x, y>> \in byPath
  <2>1. t[i] \in Seq(Rows) /\ t[j] \in Seq(Rows) /\ i \in Steps /\ j \in Steps
    BY <1>1 DEF Steps
  <2>2. x \in Rows /\ y \in Rows
    BY <2>1, EmptyList
  <2>3. x.path \in Paths /\ y.path \in Paths
    BY <2>2 DEF Rows
  <2>4. IsPrefix(Append(p, i), x.path) /\ IsPrefix(Append(p, j), y.path)
    BY DEF extend
  <2>5. lexBefore(x.path, y.path)
    BY <1>2, <2>1, <2>3, <2>4, SiblingsApart
  <2> QED
    BY <2>2, <2>5, ByPathIs
<1> HIDE DEF n
<1>3. /\ t \in [1 .. n -> Seq(Rows)] /\ \A i \in 1 .. n : Increasing(t[i], byPath)
  BY DEF n
<1>4. \A i, j \in 1 .. n : i < j => \A x \in Range(t[i]), y \in Range(t[j]) : <<x, y>> \in byPath
  BY <1>2
<1>5. /\ FlattenSeq(t) \in Seq(Rows) /\ Increasing(FlattenSeq(t), byPath)
      /\ Range(FlattenSeq(t)) = allOf(t, n)
  BY ONLY <1>1, <1>3, <1>4, FlattenIncreases
<1> QED
  BY <1>5 DEF n, allOf

LEMMA RootJoins ==
  ASSUME NEW c, isContext(c), NEW p \in Paths, p # <<>>,
         NEW s \in Seq(Rows), Increasing(s, byPath),
         \A x \in Range(s) : IsPrefix(p, x.path) /\ x.path # p
  PROVE  /\ <<row(c, p, FALSE)>> \o s \in Seq(Rows) /\ Increasing(<<row(c, p, FALSE)>> \o s, byPath)
         /\ Range(<<row(c, p, FALSE)>> \o s) = {row(c, p, FALSE)} \cup Range(s)
         /\ <<row(c, p, FALSE)>> \o s # <<>>
<1> DEFINE r == row(c, p, FALSE)
           one == <<r>>
<1>1. r \in Rows /\ r.path = p
  BY RowIs
<1> HIDE DEF r
<1>2. one \in Seq(Rows) /\ Range(one) = {r} /\ Increasing(one, byPath)
  BY <1>1, OneElement
<1>3. ASSUME NEW x \in Range(one), NEW y \in Range(s)
      PROVE  <<x, y>> \in byPath
  <2>1. x = r /\ y \in Rows
    BY <1>2, EmptyList
  <2>2. y.path \in Paths
    BY <2>1 DEF Rows
  <2>3. lexBefore(r.path, y.path)
    BY <1>1, <2>2, StrictPrefixIsBefore
  <2> QED
    BY <1>1, <2>1, <2>3, ByPathIs
<1> HIDE DEF one
<1>4. one \o s \in Seq(Rows) /\ Increasing(one \o s, byPath) /\ Range(one \o s) = Range(one) \cup Range(s)
  BY <1>2, <1>3, JoinIncreases
<1>5. one \o s # <<>>
  BY <1>2, <1>4, EmptyList
<1> QED
  BY <1>2, <1>4, <1>5 DEF one, r

-----------------------------------------------------------------------------
(* Without a filter: what no fold hides.                                   *)
openFrom(F, p, q) == \A n \in 1 .. Len(q) - 1 : n >= Len(p) => F[SubSeq(q, 1, n)].expanded
openBelow(F, p) == {q \in DOMAIN F : IsPrefix(p, q) /\ openFrom(F, p, q)}

LEMMA OpenBelowIs ==
  ASSUME NEW F, isForest(F), NEW p \in Paths, p = <<>> \/ p \in DOMAIN F,
         p # <<>> => F[p].expanded
  PROVE  {q \in openBelow(F, p) : q # p}
           = UNION {openBelow(F, Append(p, i)) : i \in 1 .. arity(F, p)}
<1> DEFINE n == arity(F, p)
           l == Len(p)
<1>0. n \in Nat /\ l \in Nat /\ \A i \in 1 .. n : i \in Steps /\ Append(p, i) \in DOMAIN F
  BY ChildrenAre, PathIs DEF Steps
<1>1. ASSUME NEW q \in openBelow(F, p), q # p
      PROVE  \E i \in 1 .. n : q \in openBelow(F, Append(p, i))
  <2>1. q \in DOMAIN F /\ q \in Paths /\ IsPrefix(p, q) /\ openFrom(F, p, q)
    BY ForestIs DEF openBelow
  <2> DEFINE i == q[Len(p) + 1]
             a == Append(p, i)
  <2>2. i \in Steps /\ IsPrefix(a, q)
    BY <1>1, <2>1, TowardsChild
  <2> HIDE DEF i
  <2>3. a \in Paths /\ a # <<>> /\ Len(a) = l + 1
    BY <2>2, ChildIs
  <2>4. a \in DOMAIN F
    BY <2>1, <2>2, <2>3, Enclosing
  <2>5. i \in 1 .. n
    BY <2>2, <2>4, ChildrenAre
  <2>6. openFrom(F, a, q)
    <3> SUFFICES ASSUME NEW m \in 1 .. Len(q) - 1, m >= Len(a)
                 PROVE  F[SubSeq(q, 1, m)].expanded
      BY DEF openFrom
    <3>0. Len(q) \in Nat
      BY <2>1, PathIs
    <3>1. m >= Len(p)
      BY <1>0, <2>3, <3>0
    <3> QED
      BY <2>1, <3>1 DEF openFrom
  <2> QED
    BY <2>1, <2>2, <2>5, <2>6 DEF openBelow
<1>2. ASSUME NEW i \in 1 .. n, NEW q \in openBelow(F, Append(p, i))
      PROVE  q \in openBelow(F, p) /\ q # p
  <2> DEFINE a == Append(p, i)
  <2>1. q \in DOMAIN F /\ q \in Paths /\ IsPrefix(a, q) /\ openFrom(F, a, q)
    BY ForestIs DEF openBelow
  <2>2. IsPrefix(p, q) /\ Len(p) < Len(q)
    BY <1>0, <2>1, ChildExtends
  <2>3. q # p
    BY <1>0, <2>2
  <2>4. Len(a) = l + 1
    BY <1>0, ChildIs
  <2> HIDE DEF a
  <2>5. openFrom(F, p, q)
    <3> SUFFICES ASSUME NEW m \in 1 .. Len(q) - 1, m >= Len(p)
                 PROVE  F[SubSeq(q, 1, m)].expanded
      BY DEF openFrom
    <3>0. Len(q) \in Nat
      BY <2>1, PathIs
    <3>1. CASE m = Len(p)
      <4>1. SubSeq(q, 1, m) = p
        BY <2>1, <2>2, <3>1, PrefixIsHead
      <4>2. p # <<>>
        BY <3>0, <3>1, EmptyIsAPath
      <4> QED
        BY <4>1, <4>2
    <3>2. CASE m # Len(p)
      <4>1. m >= Len(a)
        BY <1>0, <2>4, <3>0, <3>2
      <4> QED
        BY <2>1, <4>1 DEF openFrom
    <3> QED
      BY <3>1, <3>2
  <2> QED
    BY <2>1, <2>2, <2>3, <2>5 DEF openBelow
<1> QED
  BY <1>1, <1>2

LEMMA ClosedBelowIs ==
  ASSUME NEW F, isForest(F), NEW p \in DOMAIN F
  PROVE  /\ p \in openBelow(F, p)
         /\ ~F[p].expanded => openBelow(F, p) = {p}
<1>1. p \in Paths /\ Len(p) \in Nat /\ Len(p) > 0 /\ p # <<>>
  BY ForestIs, PathIs
<1>2. \A n \in 1 .. Len(p) - 1 : ~(n >= Len(p))
  BY <1>1
<1>3. p \in openBelow(F, p)
  BY <1>1, <1>2, PrefixIsReflexive DEF openBelow, openFrom
<1>4. ASSUME ~F[p].expanded, NEW q \in openBelow(F, p), q # p
      PROVE  FALSE
  <2>1. q \in DOMAIN F /\ q \in Paths /\ IsPrefix(p, q) /\ openFrom(F, p, q)
    BY ForestIs DEF openBelow
  <2>2. Len(q) \in Nat /\ Len(p) < Len(q)
    BY <1>1, <1>4, <2>1, ShorterPrefix, PathIs
  <2>3. Len(p) \in 1 .. Len(q) - 1 /\ Len(p) >= Len(p)
    BY <1>1, <2>2
  <2>4. F[SubSeq(q, 1, Len(p))].expanded
    BY <2>1, <2>3 DEF openFrom
  <2>5. SubSeq(q, 1, Len(p)) = p
    BY <1>1, <2>1, PrefixIsHead
  <2> QED
    BY <1>4, <2>4, <2>5
<1> QED
  BY <1>3, <1>4

shows(s, c, S, e) ==
  /\ s \in Seq(Rows) /\ Increasing(s, byPath)
  /\ Range(s) = {row(c, q, e[q]) : q \in S}

(* Which rows stand for a run of hidden siblings, without a filter.        *)
noRuns(F) == [q \in DOMAIN F |-> FALSE]

LEMMA RowsExtend ==
  ASSUME NEW c, isContext(c), NEW S \in SUBSET (Paths \ {<<>>}), NEW e, \A q \in S : e[q] \in BOOLEAN,
         NEW s, shows(s, c, S, e), NEW x \in Range(s)
  PROVE  x \in Rows /\ x.path \in S /\ x = row(c, x.path, e[x.path])
<1>1. PICK q \in S : x = row(c, q, e[q])
  BY DEF shows
<1>2. row(c, q, e[q]) \in Rows /\ row(c, q, e[q]).path = q
  BY RowIs
<1> QED
  BY <1>1, <1>2

LEMMA OpenSubtreesJoin ==
  ASSUME NEW F, isForest(F), NEW c, isContext(c), NEW p \in Paths, p = <<>> \/ p \in DOMAIN F,
         p # <<>> => F[p].expanded, NEW f,
         \A i \in 1 .. arity(F, p) :
           shows(f[Append(p, i)], c, openBelow(F, Append(p, i)), noRuns(F))
  PROVE  shows(FlattenSeq(subtreesOf(F, p, f)), c, {q \in openBelow(F, p) : q # p}, noRuns(F))
<1> DEFINE n == arity(F, p)
           t == subtreesOf(F, p, f)
           e == noRuns(F)
           S(i) == openBelow(F, Append(p, i))
<1>1. /\ n \in Nat /\ DOMAIN t = 1 .. n /\ t \in [1 .. n -> Seq(Rows)]
      /\ \A i \in 1 .. n : t[i] = f[Append(p, i)] /\ Increasing(t[i], byPath)
                           /\ Range(t[i]) = {row(c, q, e[q]) : q \in S(i)}
  BY ChildrenAre DEF subtreesOf, shows
<1>2. ASSUME NEW i \in 1 .. n
      PROVE  extend(Append(p, i), Range(t[i]))
  <2>1. \A q \in S(i) : q \in Paths /\ q # <<>> /\ IsPrefix(Append(p, i), q) /\ e[q] = FALSE
    BY ForestIs DEF openBelow, noRuns
  <2>2. \A x \in Range(t[i]) : \E q \in S(i) : x = row(c, q, FALSE) /\ x.path = q
    <3> HIDE DEF t, e
    <3> SUFFICES ASSUME NEW x \in Range(t[i])
                 PROVE  \E q \in S(i) : x = row(c, q, FALSE) /\ x.path = q
      OBVIOUS
    <3>1. PICK q \in S(i) : x = row(c, q, e[q])
      BY <1>1
    <3>2. q \in Paths /\ q # <<>> /\ e[q] = FALSE
      BY <2>1
    <3>3. row(c, q, FALSE).path = q
      BY <3>2, RowIs
    <3> QED
      BY <3>1, <3>2, <3>3
  <2> QED
    BY <2>1, <2>2 DEF extend
<1> HIDE DEF t, e
<1>3. /\ FlattenSeq(t) \in Seq(Rows) /\ Increasing(FlattenSeq(t), byPath)
      /\ Range(FlattenSeq(t)) = UNION {Range(t[i]) : i \in 1 .. n}
  BY <1>1, <1>2, SubtreesJoin
<1>4. {q \in openBelow(F, p) : q # p} = UNION {S(i) : i \in 1 .. n}
  BY OpenBelowIs
<1>5. UNION {Range(t[i]) : i \in 1 .. n} = {row(c, q, e[q]) : q \in {q \in openBelow(F, p) : q # p}}
  <2> HIDE DEF n
  <2>1. \A i \in 1 .. n : Range(t[i]) = {row(c, q, e[q]) : q \in S(i)}
    BY <1>1
  <2> HIDE DEF S
  <2>2. ASSUME NEW x, NEW i \in 1 .. n, x \in Range(t[i])
        PROVE  \E q \in {q \in openBelow(F, p) : q # p} : x = row(c, q, e[q])
    BY <1>4, <2>1, <2>2
  <2>3. ASSUME NEW q \in {q \in openBelow(F, p) : q # p}
        PROVE  \E i \in 1 .. n : row(c, q, e[q]) \in Range(t[i])
    <3>1. PICK i \in 1 .. n : q \in S(i)
      BY <1>4
    <3> QED
      BY <2>1, <3>1
  <2> QED
    BY <2>2, <2>3
<1> QED
  BY <1>3, <1>5 DEF shows, t, e

LEMMA PlainWalk ==
  ASSUME NEW F, isForest(F), NEW c, isContext(c), c.filter = <<>>
  PROVE  \A p \in DOMAIN F : shows(collection(F, c)[p], c, openBelow(F, p), noRuns(F))
<1> DEFINE f == collection(F, c)
           D == DOMAIN F
           N == Cardinality(D)
           good(p) == shows(f[p], c, openBelow(F, p), noRuns(F))
           Bad == {d \in Nat : \E p \in D : d = N - Len(p) /\ ~good(p)}
<1>1. N \in Nat /\ \A p \in D : p \in Paths /\ Len(p) \in Nat /\ Len(p) > 0 /\ Len(p) <= N
  BY DepthIs, ForestIs
<1>2. \A p \in D : f[p] = collectRows(F[p], p, subtreesOf(F, p, f), c)
  BY CollectionIs DEF entry
<1> HIDE DEF f, N
<1>3. ASSUME Bad # {}
      PROVE  FALSE
  <2>1. PICK d \in Bad : \A m \in Bad : d <= m
    <3>1. Bad \in SUBSET Nat
      OBVIOUS
    <3> HIDE DEF Bad
    <3> QED
      BY <1>3, <3>1, LeastNatural
  <2>2. PICK p \in D : d = N - Len(p) /\ ~good(p)
    BY <2>1
  <2>3. p \in Paths /\ p # <<>> /\ p \in DOMAIN F
    BY ForestIs
  <2>4. ASSUME NEW i \in 1 .. arity(F, p)
        PROVE  good(Append(p, i))
    <3>1. i \in Steps /\ Append(p, i) \in D /\ Len(Append(p, i)) = Len(p) + 1
      <4>1. arity(F, p) \in Nat /\ (i \in Steps => Append(p, i) \in DOMAIN F)
        BY <2>3, ChildrenAre
      <4>2. i \in Steps
        BY <4>1 DEF Steps
      <4> QED
        BY <2>3, <4>1, <4>2, ChildIs
    <3>a. Len(Append(p, i)) <= N /\ Len(p) \in Nat /\ N \in Nat /\ d = N - Len(p)
      BY <1>1, <2>2, <3>1
    <3>2. N - Len(Append(p, i)) \in Nat /\ ~(d <= N - Len(Append(p, i)))
      <4> DEFINE l == Len(Append(p, i))
      <4>1. l = Len(p) + 1 /\ l <= N
        BY <3>1, <3>a
      <4> HIDE DEF l
      <4>2. N - l \in Nat /\ ~(d <= N - l)
        BY <4>1, <3>a
      <4> QED
        BY <4>2 DEF l
    <3>3. N - Len(Append(p, i)) \notin Bad
      <4> HIDE DEF Bad
      <4> QED
        BY <2>1, <3>2
    <3> HIDE DEF good
    <3> QED
      BY <3>1, <3>2, <3>3
  <2> DEFINE e == noRuns(F)
             u == IF F[p].expanded THEN FlattenSeq(subtreesOf(F, p, f)) ELSE <<>>
  <2>5. shows(u, c, {q \in openBelow(F, p) : q # p}, e)
    <3>1. CASE F[p].expanded
      BY <2>3, <2>4, <3>1, OpenSubtreesJoin
    <3>2. CASE ~F[p].expanded
      <4>1. {q \in openBelow(F, p) : q # p} = {}
        BY <2>3, <3>2, ClosedBelowIs
      <4>2. u = <<>>
        BY <3>2
      <4> QED
        BY <4>1, <4>2, NoElement DEF shows
    <3> QED
      BY <3>1, <3>2
  <2> HIDE DEF u
  <2>6. f[p] = <<row(c, p, FALSE)>> \o u
    BY <1>2 DEF collectRows, u
  <2>7. \A x \in Range(u) : IsPrefix(p, x.path) /\ x.path # p
    <3> SUFFICES ASSUME NEW x \in Range(u)
                 PROVE  IsPrefix(p, x.path) /\ x.path # p
      OBVIOUS
    <3> DEFINE S == {q \in openBelow(F, p) : q # p}
    <3>1. \A q \in S : q \in Paths /\ q # <<>> /\ IsPrefix(p, q) /\ q # p /\ e[q] = FALSE
      BY ForestIs DEF openBelow, noRuns
    <3>2. S \in SUBSET (Paths \ {<<>>}) /\ \A q \in S : e[q] \in BOOLEAN
      BY <3>1
    <3> HIDE DEF S, e
    <3>3. x.path \in S
      BY <2>5, <3>2, RowsExtend DEF S
    <3> QED
      BY <3>1, <3>3
  <2>8. u \in Seq(Rows) /\ Increasing(u, byPath) /\ Range(u) = {row(c, q, e[q]) : q \in {q \in openBelow(F, p) : q # p}}
    BY <2>5 DEF shows
  <2>9. /\ f[p] \in Seq(Rows) /\ Increasing(f[p], byPath)
        /\ Range(f[p]) = {row(c, p, FALSE)} \cup Range(u)
    <3>1. u \in Seq(Rows) /\ Increasing(u, byPath) /\ FALSE \in BOOLEAN
      BY <2>8
    <3>2. /\ <<row(c, p, FALSE)>> \o u \in Seq(Rows) /\ Increasing(<<row(c, p, FALSE)>> \o u, byPath)
          /\ Range(<<row(c, p, FALSE)>> \o u) = {row(c, p, FALSE)} \cup Range(u)
      BY <2>3, <2>7, <3>1, RootJoins
    <3> QED
      BY <2>6, <3>2
  <2>10. Range(f[p]) = {row(c, q, e[q]) : q \in openBelow(F, p)}
    <3>1. p \in openBelow(F, p) /\ e[p] = FALSE
      BY <2>3, ClosedBelowIs DEF noRuns
    <3> HIDE DEF e
    <3> QED
      BY <2>8, <2>9, <3>1
  <2> QED
    BY <2>2, <2>9, <2>10 DEF shows
<1> SUFFICES ASSUME NEW p \in D
             PROVE  good(p)
  BY DEF f
<1>4. N - Len(p) \in Nat
  BY <1>1
<1> HIDE DEF good
<1> QED
  BY <1>3, <1>4

-----------------------------------------------------------------------------
(* With a filter: what has a match in it, and runs of what has none.       *)
has(F, c, p) == \E q \in DOMAIN F : IsPrefix(p, q) /\ matches(F[q], q, c.labels, c.filter)
starts(F, c, q) ==
  /\ ~has(F, c, q)
  /\ Len(q) = 1 \/ has(F, c, Front(q))
  /\ Last(q) = 1 \/ has(F, c, previous(q))
hides(F, c) == [q \in DOMAIN F |-> ~has(F, c, q)]
foundBelow(F, c, p) ==
  {q \in DOMAIN F : IsPrefix(p, q) /\ (has(F, c, q) \/ (q # p /\ starts(F, c, q)))}
piece(F, c, p) ==
  IF has(F, c, p) THEN foundBelow(F, c, p) ELSE IF starts(F, c, p) THEN {p} ELSE {}

LEMMA HasIsInherited ==
  ASSUME NEW F, isForest(F), NEW c, NEW p \in Paths, NEW q \in Paths, IsPrefix(p, q), has(F, c, q)
  PROVE  has(F, c, p)
<1>1. PICK r \in DOMAIN F : IsPrefix(q, r) /\ matches(F[r], r, c.labels, c.filter)
  BY DEF has
<1>2. r \in Paths
  BY ForestIs
<1>3. IsPrefix(p, r)
  BY <1>1, <1>2, PrefixIsTransitive
<1> QED
  BY <1>1, <1>3 DEF has

LEMMA HasIs ==
  ASSUME NEW F, isForest(F), NEW c, NEW p \in DOMAIN F
  PROVE  has(F, c, p) <=> \/ matches(F[p], p, c.labels, c.filter)
                          \/ \E i \in 1 .. arity(F, p) : has(F, c, Append(p, i))
<1>0. p \in Paths /\ p # <<>>
  BY ForestIs
<1>1. ASSUME matches(F[p], p, c.labels, c.filter)
      PROVE  has(F, c, p)
  BY <1>0, <1>1, PrefixIsReflexive DEF has
<1>2. ASSUME NEW i \in 1 .. arity(F, p), has(F, c, Append(p, i))
      PROVE  has(F, c, p)
  <2>1. i \in Steps
    BY <1>0, ChildrenAre DEF Steps
  <2>2. Append(p, i) \in Paths /\ Front(Append(p, i)) = p /\ Append(p, i) # <<>>
    BY <1>0, <2>1, ChildIs
  <2>3. IsPrefix(p, Append(p, i))
    BY <2>2, FrontIsPrefix
  <2> QED
    BY <1>0, <1>2, <2>2, <2>3, HasIsInherited
<1>3. ASSUME has(F, c, p), ~matches(F[p], p, c.labels, c.filter)
      PROVE  \E i \in 1 .. arity(F, p) : has(F, c, Append(p, i))
  <2>1. PICK r \in DOMAIN F : IsPrefix(p, r) /\ matches(F[r], r, c.labels, c.filter)
    BY <1>3 DEF has
  <2>2. r \in Paths /\ r # p
    BY <1>3, <2>1, ForestIs
  <2> DEFINE i == r[Len(p) + 1]
  <2>3. i \in Steps /\ IsPrefix(Append(p, i), r)
    BY <1>0, <2>1, <2>2, TowardsChild
  <2> HIDE DEF i
  <2>4. Append(p, i) \in Paths /\ Append(p, i) # <<>>
    BY <1>0, <2>3, ChildIs
  <2>5. Append(p, i) \in DOMAIN F
    BY <2>3, <2>4, Enclosing
  <2>6. i \in 1 .. arity(F, p)
    BY <1>0, <2>3, <2>5, ChildrenAre
  <2>7. has(F, c, Append(p, i))
    BY <2>1, <2>3 DEF has
  <2> QED
    BY <2>6, <2>7
<1> QED
  BY <1>1, <1>2, <1>3

LEMMA PiecesAre ==
  ASSUME NEW F, isForest(F), NEW c, NEW p \in Paths,
         p = <<>> \/ (p \in DOMAIN F /\ has(F, c, p))
  PROVE  {q \in DOMAIN F : IsPrefix(p, q) /\ q # p /\ (has(F, c, q) \/ starts(F, c, q))}
           = UNION {piece(F, c, Append(p, i)) : i \in 1 .. arity(F, p)}
<1> DEFINE n == arity(F, p)
           l == Len(p)
           All == {q \in DOMAIN F : IsPrefix(p, q) /\ q # p /\ (has(F, c, q) \/ starts(F, c, q))}
<1>0. n \in Nat /\ l \in Nat /\ \A i \in 1 .. n : i \in Steps /\ Append(p, i) \in DOMAIN F
  BY ChildrenAre, PathIs DEF Steps
<1>1. ASSUME NEW q \in All
      PROVE  \E i \in 1 .. n : q \in piece(F, c, Append(p, i))
  <2>1. q \in DOMAIN F /\ q \in Paths /\ IsPrefix(p, q) /\ q # p /\ (has(F, c, q) \/ starts(F, c, q))
    BY ForestIs
  <2> DEFINE i == q[Len(p) + 1]
             a == Append(p, i)
  <2>2. i \in Steps /\ IsPrefix(a, q) /\ q # <<>>
    BY <2>1, TowardsChild, ForestIs
  <2> HIDE DEF i
  <2>3. a \in Paths /\ a # <<>> /\ Len(a) = l + 1 /\ Front(a) = p
    BY <2>2, ChildIs
  <2>4. a \in DOMAIN F
    BY <2>1, <2>2, <2>3, Enclosing
  <2>5. i \in 1 .. n
    BY <2>2, <2>4, ChildrenAre
  <2> HIDE DEF a
  <2>6. CASE has(F, c, a)
    <3>1. q = a => has(F, c, q)
      BY <2>6
    <3> QED
      BY <2>1, <2>2, <2>5, <2>6, <3>1 DEF piece, foundBelow, a
  <2>7. CASE ~has(F, c, a)
    <3>1. ~has(F, c, q)
      BY <2>1, <2>2, <2>3, <2>7, HasIsInherited
    <3>2. starts(F, c, q)
      BY <2>1, <3>1
    <3>3. q = a
      <4>1. ASSUME q # a
            PROVE  FALSE
        <5>1. IsPrefix(a, Front(q)) /\ Front(q) \in Paths
          BY <2>1, <2>2, <2>3, <4>1, TowardsChild, FrontIs
        <5>2. ~has(F, c, Front(q))
          BY <2>3, <2>7, <5>1, HasIsInherited
        <5>3. Len(q) # 1
          <6>1. Len(a) < Len(q) /\ Len(q) \in Nat
            BY <2>1, <2>2, <2>3, <4>1, ShorterPrefix, PathIs
          <6>2. Len(a) = l + 1 /\ l \in Nat
            BY <1>0, <2>3
          <6>3. \A x, y, z \in Nat : x < y /\ x = z + 1 => y # 1
            OBVIOUS
          <6>4. Len(a) \in Nat
            BY <6>2
          <6> QED
            BY ONLY <6>1, <6>2, <6>3, <6>4
        <5> QED
          BY <3>2, <5>2, <5>3 DEF starts
      <4> QED
        BY <4>1
    <3> QED
      BY <2>5, <2>7, <3>2, <3>3 DEF piece, a
  <2> QED
    BY <2>6, <2>7
<1>2. ASSUME NEW i \in 1 .. n, NEW q \in piece(F, c, Append(p, i))
      PROVE  q \in All
  <2> DEFINE a == Append(p, i)
  <2>1. a \in DOMAIN F /\ a \in Paths /\ Front(a) = p /\ a # <<>>
    BY <1>0, ChildIs
  <2>2. IsPrefix(p, a) /\ p # a
    BY <2>1, FrontIsPrefix
  <2> HIDE DEF a
  <2>3. CASE has(F, c, a)
    <3>1. q \in DOMAIN F /\ IsPrefix(a, q) /\ (has(F, c, q) \/ starts(F, c, q))
      BY <2>3 DEF piece, foundBelow, a
    <3>2. q \in Paths
      BY <3>1, ForestIs
    <3>3. IsPrefix(p, q)
      BY <2>1, <2>2, <3>1, <3>2, PrefixIsTransitive
    <3>4. q # p
      <4>1. Len(p) < Len(a) /\ Len(a) <= Len(q) /\ Len(a) \in Nat /\ Len(q) \in Nat
        BY <2>1, <2>2, <3>1, <3>2, ShorterPrefix, PathIs
      <4> QED
        BY <1>0, <4>1
    <3> QED
      BY <3>1, <3>3, <3>4
  <2>4. CASE ~has(F, c, a)
    <3>1. q = a /\ starts(F, c, q)
      BY <2>4 DEF piece, a
    <3> QED
      BY <2>1, <2>2, <3>1
  <2> QED
    BY <2>3, <2>4
<1> HIDE DEF All
<1>3. All = UNION {piece(F, c, Append(p, i)) : i \in 1 .. n}
  BY <1>1, <1>2
<1> QED
  BY <1>3 DEF All

(* What a subtree collected.                                               *)
finds(s, F, c, p) ==
  /\ has(F, c, p) => shows(s, c, foundBelow(F, c, p), hides(F, c)) /\ s # <<>>
  /\ ~has(F, c, p) => s = <<>>

LEMMA StartsIs ==
  ASSUME NEW F, isForest(F), NEW c, NEW p \in Paths, p = <<>> \/ has(F, c, p),
         NEW i \in 1 .. arity(F, p)
  PROVE  starts(F, c, Append(p, i))
           <=> ~has(F, c, Append(p, i)) /\ (i = 1 \/ has(F, c, Append(p, i - 1)))
<1>1. arity(F, p) \in Nat /\ i \in Steps /\ i \in Nat
  BY ChildrenAre DEF Steps
<1>2. Len(Append(p, i)) = Len(p) + 1 /\ Front(Append(p, i)) = p /\ Last(Append(p, i)) = i
  BY <1>1, ChildIs
<1>3. Len(Append(p, i)) = 1 <=> p = <<>>
  <2>1. Len(p) \in Nat /\ (p = <<>> <=> Len(p) = 0)
    BY PathIs
  <2> QED
    BY <1>2, <2>1
<1>4. i # 1 => previous(Append(p, i)) = Append(p, i - 1)
  <2> SUFFICES ASSUME i # 1
               PROVE  previous(Append(p, i)) = Append(p, i - 1)
    OBVIOUS
  <2>1. i - 1 \in Steps /\ i - 1 + 1 = i
    BY <1>1 DEF Steps
  <2> QED
    BY <2>1, PreviousIs
<1> QED
  BY <1>2, <1>3, <1>4 DEF starts

LEMMA PieceIs ==
  ASSUME NEW F, isForest(F), NEW c, isContext(c), NEW p \in Paths, NEW t,
         p = <<>> \/ (p \in DOMAIN F /\ has(F, c, p)),
         \A i \in 1 .. arity(F, p) : finds(t[i], F, c, Append(p, i)),
         NEW i \in 1 .. arity(F, p), NEW w,
         w = IF t[i] # <<>> THEN t[i]
             ELSE IF i = 1 \/ t[i - 1] # <<>> THEN <<row(c, Append(p, i), TRUE)>> ELSE <<>>
  PROVE  shows(w, c, piece(F, c, Append(p, i)), hides(F, c)) /\ extend(Append(p, i), Range(w))
<1> DEFINE a == Append(p, i)
           e == hides(F, c)
<1>0. arity(F, p) \in Nat /\ i \in Steps /\ i \in Nat
  BY ChildrenAre DEF Steps
<1>1. a \in DOMAIN F /\ a \in Paths /\ a # <<>>
  BY <1>0, ChildrenAre, ForestIs
<1>2. t[i] # <<>> <=> has(F, c, a)
  BY DEF finds
<1>3. i # 1 => (t[i - 1] # <<>> <=> has(F, c, Append(p, i - 1)))
  <2> SUFFICES ASSUME i # 1
               PROVE  t[i - 1] # <<>> <=> has(F, c, Append(p, i - 1))
    OBVIOUS
  <2>1. i - 1 \in 1 .. arity(F, p)
    BY <1>0
  <2> QED
    BY <2>1 DEF finds
<1>4. starts(F, c, a) <=> ~has(F, c, a) /\ (i = 1 \/ has(F, c, Append(p, i - 1)))
  BY StartsIs
<1> HIDE DEF a
<1>5. e[a] = ~has(F, c, a)
  BY <1>1 DEF hides
<1>6. CASE has(F, c, a)
  <2>1. w = t[i] /\ piece(F, c, a) = foundBelow(F, c, a)
    BY <1>2, <1>6 DEF piece
  <2>2. shows(w, c, foundBelow(F, c, a), e)
    BY <1>6, <2>1 DEF finds, a
  <2> DEFINE S == foundBelow(F, c, a)
  <2>3. \A q \in S : q \in Paths /\ q # <<>> /\ IsPrefix(a, q) /\ e[q] \in BOOLEAN
    BY ForestIs DEF foundBelow, hides
  <2>4. S \in SUBSET (Paths \ {<<>>}) /\ \A q \in S : e[q] \in BOOLEAN
    BY <2>3
  <2> HIDE DEF S, e
  <2>5. \A x \in Range(w) : x.path \in S
    BY <2>2, <2>4, RowsExtend DEF S
  <2> QED
    BY <2>1, <2>2, <2>3, <2>5 DEF extend, e, a, S
<1>7. CASE ~has(F, c, a) /\ starts(F, c, a)
  <2>1. w = <<row(c, a, TRUE)>> /\ piece(F, c, a) = {a}
    BY <1>2, <1>3, <1>4, <1>7 DEF piece, a
  <2>2. row(c, a, TRUE) \in Rows /\ row(c, a, TRUE).path = a
    BY <1>1, RowIs
  <2>3. w \in Seq(Rows) /\ Range(w) = {row(c, a, TRUE)} /\ Increasing(w, byPath)
    <3> DEFINE r == row(c, a, TRUE)
    <3>1. r \in Rows /\ w = <<r>>
      BY <2>1, <2>2
    <3> HIDE DEF r
    <3>2. <<r>> \in Seq(Rows) /\ Range(<<r>>) = {r} /\ Increasing(<<r>>, byPath)
      BY <3>1, OneElement
    <3> QED
      BY <3>1, <3>2 DEF r
  <2>4. e[a] = TRUE
    BY <1>5, <1>7
  <2> HIDE DEF e
  <2>5. {row(c, q, e[q]) : q \in {a}} = {row(c, a, TRUE)}
    BY <2>4
  <2>6. shows(w, c, {a}, e)
    BY <2>3, <2>5 DEF shows
  <2>7. extend(a, Range(w))
    BY <1>1, <2>2, <2>3, PrefixIsReflexive DEF extend
  <2> QED
    BY <2>1, <2>6, <2>7 DEF a, e
<1>8. CASE ~has(F, c, a) /\ ~starts(F, c, a)
  <2>1. w = <<>> /\ piece(F, c, a) = {}
    BY <1>2, <1>3, <1>4, <1>8 DEF piece, a
  <2>2. w \in Seq(Rows) /\ Range(w) = {} /\ Increasing(w, byPath)
    BY <2>1, NoElement
  <2> QED
    BY <2>1, <2>2 DEF shows, extend, a
<1> QED
  BY <1>6, <1>7, <1>8

LEMMA RunsJoin ==
  ASSUME NEW F, isForest(F), NEW c, isContext(c), NEW p \in Paths, NEW t,
         p = <<>> \/ (p \in DOMAIN F /\ has(F, c, p)),
         DOMAIN t = 1 .. arity(F, p),
         \A i \in 1 .. arity(F, p) : finds(t[i], F, c, Append(p, i))
  PROVE  shows(withRuns(t, p, c), c,
               {q \in DOMAIN F : IsPrefix(p, q) /\ q # p /\ (has(F, c, q) \/ starts(F, c, q))},
               hides(F, c))
<1> DEFINE n == arity(F, p)
           e == hides(F, c)
           S(i) == piece(F, c, Append(p, i))
           w == [i \in 1 .. n |->
                   IF t[i] # <<>> THEN t[i]
                   ELSE IF i = 1 \/ t[i - 1] # <<>> THEN <<row(c, Append(p, i), TRUE)>> ELSE <<>>]
           All == {q \in DOMAIN F : IsPrefix(p, q) /\ q # p /\ (has(F, c, q) \/ starts(F, c, q))}
<1>1. withRuns(t, p, c) = FlattenSeq(w)
  BY DEF withRuns
<1>2. DOMAIN w = 1 .. n
  OBVIOUS
<1>3. \A i \in 1 .. n : shows(w[i], c, S(i), e) /\ extend(Append(p, i), Range(w[i]))
  <2> TAKE i \in 1 .. n
  <2>1. w[i] = IF t[i] # <<>> THEN t[i]
               ELSE IF i = 1 \/ t[i - 1] # <<>> THEN <<row(c, Append(p, i), TRUE)>> ELSE <<>>
    OBVIOUS
  <2> HIDE DEF w
  <2> QED
    BY <2>1, PieceIs
<1>4. w = [i \in 1 .. n |-> w[i]]
  OBVIOUS
<1> HIDE DEF w, e
<1>5. \A i \in 1 .. n : /\ w[i] \in Seq(Rows) /\ Increasing(w[i], byPath)
                        /\ Range(w[i]) = {row(c, q, e[q]) : q \in S(i)}
  BY <1>3 DEF shows
<1>6. w \in [1 .. n -> Seq(Rows)]
  BY <1>4, <1>5
<1>7. /\ FlattenSeq(w) \in Seq(Rows) /\ Increasing(FlattenSeq(w), byPath)
      /\ Range(FlattenSeq(w)) = UNION {Range(w[i]) : i \in 1 .. n}
  BY <1>3, <1>5, <1>6, SubtreesJoin
<1>8. All = UNION {S(i) : i \in 1 .. n}
  BY PiecesAre
<1> HIDE DEF All, S
<1>9. UNION {Range(w[i]) : i \in 1 .. n} = {row(c, q, e[q]) : q \in All}
  <2> HIDE DEF n
  <2>2. ASSUME NEW x, NEW i \in 1 .. n, x \in Range(w[i])
        PROVE  \E q \in All : x = row(c, q, e[q])
    BY <1>5, <1>8, <2>2
  <2>3. ASSUME NEW q \in All
        PROVE  \E i \in 1 .. n : row(c, q, e[q]) \in Range(w[i])
    <3>1. PICK i \in 1 .. n : q \in S(i)
      BY <1>8
    <3> QED
      BY <1>5, <3>1
  <2> QED
    BY <2>2, <2>3
<1> QED
  BY <1>1, <1>7, <1>9 DEF shows, e, All

LEMMA FilteredWalk ==
  ASSUME NEW F, isForest(F), NEW c, isContext(c), c.filter # <<>>
  PROVE  \A p \in DOMAIN F : finds(collection(F, c)[p], F, c, p)
<1> DEFINE f == collection(F, c)
           D == DOMAIN F
           N == Cardinality(D)
           good(p) == finds(f[p], F, c, p)
           Bad == {d \in Nat : \E p \in D : d = N - Len(p) /\ ~good(p)}
<1>1. N \in Nat /\ \A p \in D : p \in Paths /\ Len(p) \in Nat /\ Len(p) > 0 /\ Len(p) <= N
  BY DepthIs, ForestIs
<1>2. \A p \in D : f[p] = collectRowsFiltered(F[p], p, subtreesOf(F, p, f), c)
  BY CollectionIs DEF entry
<1> HIDE DEF f, N
<1>3. ASSUME Bad # {}
      PROVE  FALSE
  <2>1. PICK d \in Bad : \A m \in Bad : d <= m
    <3>1. Bad \in SUBSET Nat
      OBVIOUS
    <3> HIDE DEF Bad
    <3> QED
      BY <1>3, <3>1, LeastNatural
  <2>2. PICK p \in D : d = N - Len(p) /\ ~good(p)
    BY <2>1
  <2>3. p \in Paths /\ p # <<>> /\ p \in DOMAIN F
    BY ForestIs
  <2>4. ASSUME NEW i \in 1 .. arity(F, p)
        PROVE  good(Append(p, i))
    <3>b. i \in Steps
      BY <2>3, ChildrenAre DEF Steps
    <3>1. i \in Steps /\ Append(p, i) \in D /\ Len(Append(p, i)) = Len(p) + 1
      BY <2>3, <3>b, ChildrenAre, ChildIs
    <3>a. Len(Append(p, i)) <= N /\ Len(p) \in Nat /\ N \in Nat /\ d = N - Len(p)
      BY <1>1, <2>2, <3>1
    <3>2. N - Len(Append(p, i)) \in Nat /\ ~(d <= N - Len(Append(p, i)))
      <4> DEFINE l == Len(Append(p, i))
      <4>1. l = Len(p) + 1 /\ l <= N
        BY <3>1, <3>a
      <4> HIDE DEF l
      <4>2. N - l \in Nat /\ ~(d <= N - l)
        BY <4>1, <3>a
      <4> QED
        BY <4>2 DEF l
    <3>3. N - Len(Append(p, i)) \notin Bad
      <4> HIDE DEF Bad
      <4> QED
        BY <2>1, <3>2
    <3> HIDE DEF good
    <3> QED
      BY <3>1, <3>2, <3>3
  <2> DEFINE n == arity(F, p)
             t == subtreesOf(F, p, f)
             e == hides(F, c)
  <2>5. DOMAIN t = 1 .. n /\ \A i \in 1 .. n : t[i] = f[Append(p, i)]
    BY DEF subtreesOf
  <2> HIDE DEF t
  <2>6. \A i \in 1 .. n : finds(t[i], F, c, Append(p, i))
    BY <2>4, <2>5
  <2>7. has(F, c, p) <=> \/ matches(F[p], p, c.labels, c.filter)
                         \/ \E i \in DOMAIN t : t[i] # <<>>
    <3>1. \A i \in 1 .. n : t[i] # <<>> <=> has(F, c, Append(p, i))
      BY <2>6 DEF finds
    <3> QED
      BY <2>3, <2>5, <3>1, HasIs
  <2>8. f[p] = IF has(F, c, p) THEN <<row(c, p, FALSE)>> \o withRuns(t, p, c) ELSE <<>>
    BY <1>2, <2>7 DEF collectRowsFiltered, t
  <2>9. has(F, c, p)
    BY <2>2, <2>8 DEF finds
  <2> DEFINE u == withRuns(t, p, c)
             S == {q \in DOMAIN F : IsPrefix(p, q) /\ q # p /\ (has(F, c, q) \/ starts(F, c, q))}
  <2>10. shows(u, c, S, e)
    BY <2>3, <2>5, <2>6, <2>9, RunsJoin
  <2>11. \A q \in S : q \in Paths /\ q # <<>> /\ IsPrefix(p, q) /\ q # p /\ e[q] \in BOOLEAN
    BY ForestIs DEF hides
  <2>12. S \in SUBSET (Paths \ {<<>>}) /\ \A q \in S : e[q] \in BOOLEAN
    BY <2>11
  <2>13. e[p] = FALSE
    BY <2>9 DEF hides
  <2>14. foundBelow(F, c, p) = {p} \cup S
    BY <2>3, <2>9, PrefixIsReflexive DEF foundBelow
  <2> HIDE DEF S, u, e
  <2>15. \A x \in Range(u) : IsPrefix(p, x.path) /\ x.path # p
    <3> SUFFICES ASSUME NEW x \in Range(u)
                 PROVE  IsPrefix(p, x.path) /\ x.path # p
      OBVIOUS
    <3>1. x.path \in S
      BY <2>10, <2>12, RowsExtend
    <3> QED
      BY <2>11, <3>1
  <2>16. u \in Seq(Rows) /\ Increasing(u, byPath) /\ Range(u) = {row(c, q, e[q]) : q \in S}
    BY <2>10 DEF shows
  <2>17. /\ <<row(c, p, FALSE)>> \o u \in Seq(Rows) /\ Increasing(<<row(c, p, FALSE)>> \o u, byPath)
         /\ Range(<<row(c, p, FALSE)>> \o u) = {row(c, p, FALSE)} \cup Range(u)
         /\ <<row(c, p, FALSE)>> \o u # <<>>
    BY <2>3, <2>15, <2>16, RootJoins
  <2>18. f[p] = <<row(c, p, FALSE)>> \o u
    BY <2>8, <2>9 DEF u
  <2>19. {row(c, p, FALSE)} \cup Range(u) = {row(c, q, e[q]) : q \in {p} \cup S}
    BY <2>13, <2>16
  <2>20. shows(f[p], c, foundBelow(F, c, p), e) /\ f[p] # <<>>
    BY <2>14, <2>17, <2>18, <2>19 DEF shows
  <2> QED
    BY <2>2, <2>9, <2>20 DEF finds, e
<1> SUFFICES ASSUME NEW p \in D
             PROVE  good(p)
  BY DEF f
<1>4. N - Len(p) \in Nat
  BY <1>1
<1> HIDE DEF good
<1> QED
  BY <1>3, <1>4

(* All that is collected of a forest.                                      *)
seen(F, c, p) ==
  IF c.filter = <<>> THEN \A n \in 1 .. Len(p) - 1 : F[SubSeq(p, 1, n)].expanded ELSE has(F, c, p)
rowed(F, c) == {q \in DOMAIN F : seen(F, c, q) \/ (c.filter # <<>> /\ starts(F, c, q))}
unseen(F, c) == [q \in DOMAIN F |-> ~seen(F, c, q)]

LEMMA ForestIsCollected ==
  ASSUME NEW F, isForest(F), NEW c, isContext(c)
  PROVE  shows(collectForest(F, c), c, rowed(F, c), unseen(F, c))
<1> DEFINE f == collection(F, c)
           t == subtreesOf(F, <<>>, f)
           n == arity(F, <<>>)
<1>0. <<>> \in Paths /\ Len(<<>>) = 0 /\ <<>> \notin DOMAIN F
  BY EmptyIsAPath, ForestIs
<1>1. n \in Nat /\ \A i \in 1 .. n : Append(<<>>, i) \in DOMAIN F
  <2>1. n \in Nat
    BY <1>0, ChildrenAre
  <2>2. \A i \in 1 .. n : i \in Steps
    BY <2>1 DEF Steps
  <2> QED
    BY <1>0, <2>1, <2>2, ChildrenAre
<1>2. CASE c.filter = <<>>
  <2>1. \A i \in 1 .. n : shows(f[Append(<<>>, i)], c, openBelow(F, Append(<<>>, i)), noRuns(F))
    BY <1>1, <1>2, PlainWalk
  <2>2. shows(FlattenSeq(t), c, {q \in openBelow(F, <<>>) : q # <<>>}, noRuns(F))
    <3> HIDE DEF f
    <3> QED
      BY <1>0, <2>1, OpenSubtreesJoin
  <2>3. {q \in openBelow(F, <<>>) : q # <<>>} = rowed(F, c)
    <3>1. \A q \in DOMAIN F : q \in Paths /\ q # <<>> /\ IsPrefix(<<>>, q)
      BY ForestIs, PrefixIsReflexive
    <3>2. \A q \in DOMAIN F : openFrom(F, <<>>, q) <=> seen(F, c, q)
      <4> TAKE q \in DOMAIN F
      <4>1. Len(q) \in Nat
        BY <3>1, PathIs
      <4>2. \A m \in 1 .. Len(q) - 1 : m >= Len(<<>>)
        BY <1>0, <4>1
      <4> QED
        BY <1>2, <4>2 DEF openFrom, seen
    <3> QED
      BY <1>2, <3>1, <3>2 DEF openBelow, rowed
  <2>4. \A q \in rowed(F, c) : noRuns(F)[q] = unseen(F, c)[q]
    BY <1>2 DEF rowed, noRuns, unseen
  <2>5. collectForest(F, c) = FlattenSeq(t)
    BY <1>2, CollectForestIs
  <2> QED
    BY <2>2, <2>3, <2>4, <2>5 DEF shows
<1>3. CASE c.filter # <<>>
  <2>1. \A i \in 1 .. n : t[i] = f[Append(<<>>, i)] /\ finds(f[Append(<<>>, i)], F, c, Append(<<>>, i))
    BY <1>1, <1>3, FilteredWalk DEF subtreesOf
  <2>2. DOMAIN t = 1 .. n
    BY DEF subtreesOf
  <2> HIDE DEF t
  <2> DEFINE S == {q \in DOMAIN F : IsPrefix(<<>>, q) /\ q # <<>> /\ (has(F, c, q) \/ starts(F, c, q))}
  <2>3. shows(withRuns(t, <<>>, c), c, S, hides(F, c))
    BY <1>0, <2>1, <2>2, RunsJoin
  <2>4. S = rowed(F, c)
    <3>1. \A q \in DOMAIN F : q \in Paths /\ q # <<>> /\ IsPrefix(<<>>, q)
      BY ForestIs, PrefixIsReflexive
    <3> QED
      BY <1>3, <3>1 DEF rowed, seen
  <2>5. hides(F, c) = unseen(F, c)
    BY <1>3 DEF hides, unseen, seen
  <2>6. collectForest(F, c) = withRuns(t, <<>>, c)
    BY <1>3, CollectForestIs DEF t
  <2> QED
    BY <2>3, <2>4, <2>5, <2>6
<1> QED
  BY <1>2, <1>3

-----------------------------------------------------------------------------
(* Where a plaintext is: right after the path of its ciphertext.           *)
inside(p, x) ==
  /\ x \in Places /\ Len(x) > Len(p) /\ x[Len(p) + 1] = 0
  /\ \A i \in 1 .. Len(p) : x[i] = p[i]

LEMMA InsideIsAfter ==
  ASSUME NEW p \in Paths, NEW x, inside(p, x)
  PROVE  lexBefore(p, x)
<1>1. p \in Places /\ x \in Places /\ Len(p) \in Nat /\ Len(x) \in Nat
  BY PathsArePlaces, PlaceIs DEF inside
<1>2. Len(p) < Len(x) /\ \A i \in 1 .. Len(p) : p[i] = x[i]
  BY <1>1 DEF inside
<1>3. IsPrefix(p, x)
  BY <1>1, <1>2, PlacePrefixIs
<1>4. p # x
  BY <1>1, <1>2
<1> QED
  BY <1>3, <1>4 DEF lexBefore, IsStrictPrefix

LEMMA InsideKeepsOrder ==
  ASSUME NEW p \in Paths, NEW q \in Paths, lexBefore(p, q), NEW x, NEW y,
         x = p \/ inside(p, x), y = q \/ inside(q, y)
  PROVE  lexBefore(x, y)
<1>1. /\ p \in Places /\ q \in Places /\ x \in Places /\ y \in Places
      /\ Len(p) \in Nat /\ Len(q) \in Nat /\ Len(x) \in Nat /\ Len(y) \in Nat
  BY PathsArePlaces, PlaceIs DEF inside
<1>2. PICK n \in Nat : parts(p, q, n)
  BY <1>1, BeforeIs
<1>3. /\ n \in 1 .. Len(q) /\ n <= Len(p) + 1
      /\ \A m \in 1 .. n - 1 : p[m] = q[m]
      /\ n <= Len(p) => p[n] < q[n]
  BY <1>2 DEF parts
<1>4. /\ Len(p) <= Len(x) /\ \A i \in 1 .. Len(p) : x[i] = p[i]
      /\ Len(q) <= Len(y) /\ \A i \in 1 .. Len(q) : y[i] = q[i]
      /\ Len(p) < Len(x) => x[Len(p) + 1] = 0
  BY <1>1 DEF inside
<1>a. Len(p) <= Len(x) /\ Len(q) <= Len(y)
  BY <1>4
<1>5. /\ n \in 1 .. Len(y) /\ n <= Len(x) + 1
      /\ \A m \in 1 .. n - 1 : m \in 1 .. Len(p) /\ m \in 1 .. Len(q)
  BY <1>1, <1>3, <1>a
<1>6. \A m \in 1 .. n - 1 : x[m] = y[m]
  BY <1>3, <1>4, <1>5
<1>7. n <= Len(x) => x[n] < y[n]
  <2> SUFFICES ASSUME n <= Len(x)
               PROVE  x[n] < y[n]
    OBVIOUS
  <2>1. y[n] = q[n]
    BY <1>3, <1>4
  <2>2. CASE n <= Len(p)
    <3>1. n \in 1 .. Len(p)
      BY <1>1, <1>3, <2>2
    <3> QED
      BY <1>3, <1>4, <2>1, <2>2, <3>1
  <2>3. CASE ~(n <= Len(p))
    <3>1. n = Len(p) + 1 /\ Len(p) < Len(x)
      BY <1>1, <1>3, <2>3
    <3>2. x[n] = 0
      BY <1>4, <3>1
    <3>3. q[n] \in Nat /\ q[n] > 0
      BY <1>3, PathIs
    <3> QED
      BY <2>1, <3>2, <3>3
  <2> QED
    BY <2>2, <2>3
<1>8. parts(x, y, n)
  BY <1>5, <1>6, <1>7 DEF parts
<1> QED
  BY <1>1, <1>8, BeforeIs

within(p, q) == p \o <<0>> \o q

LEMMA JoinedPlaces ==
  ASSUME NEW p \in Places, NEW q \in Places
  PROVE  /\ p \o q \in Places /\ Len(p \o q) = Len(p) + Len(q)
         /\ \A i \in 1 .. Len(p) + Len(q) : (p \o q)[i] = IF i <= Len(p) THEN p[i] ELSE q[i - Len(p)]
BY ConcatProperties DEF Places

LEMMA WithinIs ==
  ASSUME NEW p \in Paths, NEW q \in Paths
  PROVE  /\ within(p, q) \in Places /\ Len(within(p, q)) = Len(p) + 1 + Len(q)
         /\ \A i \in 1 .. Len(p) : within(p, q)[i] = p[i]
         /\ within(p, q)[Len(p) + 1] = 0
         /\ \A i \in 1 .. Len(q) : within(p, q)[Len(p) + 1 + i] = q[i]
         /\ inside(p, within(p, q))
<1> DEFINE z == <<0>>
           u == p \o z
           w == u \o q
<1>1. p \in Places /\ q \in Places /\ z \in Places /\ Len(z) = 1 /\ z[1] = 0 /\ Len(p) \in Nat /\ Len(q) \in Nat
  BY PathsArePlaces, PlaceIs DEF Places
<1> HIDE DEF z
<1>a. /\ u \in Places /\ Len(u) = Len(p) + Len(z)
      /\ \A i \in 1 .. Len(p) + Len(z) : u[i] = IF i <= Len(p) THEN p[i] ELSE z[i - Len(p)]
  BY <1>1, JoinedPlaces
<1> HIDE DEF u
<1>2. /\ u \in Places /\ Len(u) = Len(p) + 1
      /\ \A i \in 1 .. Len(p) + 1 : u[i] = IF i <= Len(p) THEN p[i] ELSE z[i - Len(p)]
  BY <1>1, <1>a
<1> HIDE DEF u
<1>3. /\ w \in Places /\ Len(w) = Len(u) + Len(q)
      /\ \A i \in 1 .. Len(u) + Len(q) : w[i] = IF i <= Len(u) THEN u[i] ELSE q[i - Len(u)]
  BY <1>1, <1>2, JoinedPlaces
<1> HIDE DEF w
<1>4. Len(w) = Len(p) + 1 + Len(q)
  BY <1>2, <1>3
<1>5. ASSUME NEW i \in 1 .. Len(p)
      PROVE  w[i] = p[i]
  <2>1. i \in 1 .. Len(p) + 1 /\ i <= Len(p) /\ i \in 1 .. Len(u) + Len(q) /\ i <= Len(u)
    BY <1>1, <1>2
  <2> QED
    BY <1>2, <1>3, <2>1
<1>6. w[Len(p) + 1] = 0
  <2> DEFINE i == Len(p) + 1
  <2>1. i \in 1 .. Len(p) + 1 /\ ~(i <= Len(p)) /\ i \in 1 .. Len(u) + Len(q) /\ i <= Len(u) /\ i - Len(p) = 1
    BY <1>1, <1>2
  <2> HIDE DEF i
  <2>2. w[i] = 0
    BY <1>1, <1>2, <1>3, <2>1
  <2> QED
    BY <2>2 DEF i
<1>7. ASSUME NEW j \in 1 .. Len(q)
      PROVE  w[Len(p) + 1 + j] = q[j]
  <2> DEFINE i == Len(p) + 1 + j
  <2>1. i \in 1 .. Len(u) + Len(q) /\ ~(i <= Len(u)) /\ i - Len(u) = j
    BY <1>1, <1>2
  <2> HIDE DEF i
  <2>2. w[i] = q[j]
    BY <1>3, <2>1
  <2> QED
    BY <2>2 DEF i
<1>8. Len(w) > Len(p)
  BY <1>1, <1>4
<1>9. w = within(p, q)
  BY DEF w, u, z, within
<1> QED
  BY <1>3, <1>4, <1>5, <1>6, <1>7, <1>8, <1>9 DEF inside

LEMMA WithinKeepsOrder ==
  ASSUME NEW p \in Paths, NEW q \in Paths, NEW r \in Paths, lexBefore(q, r)
  PROVE  lexBefore(within(p, q), within(p, r))
<1> DEFINE x == within(p, q)
           y == within(p, r)
           l == Len(p) + 1
<1>1. /\ q \in Places /\ r \in Places /\ Len(p) \in Nat /\ Len(q) \in Nat /\ Len(r) \in Nat
  BY PathsArePlaces, PlaceIs
<1>2. /\ x \in Places /\ Len(x) = l + Len(q) /\ x[l] = 0
      /\ \A i \in 1 .. Len(p) : x[i] = p[i]
      /\ \A i \in 1 .. Len(q) : x[l + i] = q[i]
  BY WithinIs
<1>3. /\ y \in Places /\ Len(y) = l + Len(r) /\ y[l] = 0
      /\ \A i \in 1 .. Len(p) : y[i] = p[i]
      /\ \A i \in 1 .. Len(r) : y[l + i] = r[i]
  BY WithinIs
<1>4. l \in Nat /\ l > 0 /\ l - 1 = Len(p)
  BY <1>1
<1> HIDE DEF x, y, l
<1>5. PICK n \in Nat : parts(q, r, n)
  BY <1>1, BeforeIs
<1>6. /\ n \in 1 .. Len(r) /\ n <= Len(q) + 1
      /\ \A m \in 1 .. n - 1 : q[m] = r[m]
      /\ n <= Len(q) => q[n] < r[n]
  BY <1>5 DEF parts
<1>7. l + n \in Nat /\ l + n \in 1 .. Len(y) /\ l + n <= Len(x) + 1
  <2>1. Len(x) = l + Len(q) /\ Len(y) = l + Len(r) /\ n \in 1 .. Len(r) /\ n <= Len(q) + 1
    BY <1>2, <1>3, <1>6
  <2> QED
    BY <1>1, <1>4, <2>1
<1>8. ASSUME NEW m \in 1 .. l + n - 1
      PROVE  x[m] = y[m]
  <2>1. CASE m < l
    <3>1. m \in 1 .. Len(p)
      BY <1>1, <1>4, <2>1
    <3> QED
      BY <1>2, <1>3, <3>1
  <2>2. CASE m = l
    BY <1>2, <1>3, <2>2
  <2>3. CASE m > l
    <3> DEFINE k == m - l
    <3>1. k \in 1 .. n - 1 /\ m = l + k /\ k \in 1 .. Len(q) /\ k \in 1 .. Len(r)
      <4>1. n \in 1 .. Len(r) /\ n <= Len(q) + 1 /\ Len(q) \in Nat /\ Len(r) \in Nat
        BY <1>1, <1>6
      <4> QED
        BY <1>4, <2>3, <4>1
    <3> HIDE DEF k
    <3>2. x[l + k] = q[k] /\ y[l + k] = r[k] /\ q[k] = r[k]
      BY <1>2, <1>3, <1>6, <3>1
    <3> QED
      BY <3>1, <3>2
  <2> QED
    BY <1>4, <2>1, <2>2, <2>3
<1>9. l + n <= Len(x) => x[l + n] < y[l + n]
  <2> SUFFICES ASSUME l + n <= Len(x)
               PROVE  x[l + n] < y[l + n]
    OBVIOUS
  <2>0. Len(x) = l + Len(q)
    BY <1>2
  <2>1. n <= Len(q)
    BY <1>1, <1>4, <2>0
  <2>2. n \in 1 .. Len(q) /\ n \in 1 .. Len(r)
    BY <1>1, <1>6, <2>1
  <2> QED
    BY <1>2, <1>3, <1>6, <2>1, <2>2
<1>10. parts(x, y, l + n)
  <2> DEFINE k == l + n
  <2>1. k \in 1 .. Len(y) /\ k <= Len(x) + 1
    BY <1>7
  <2>a. \A m \in 1 .. k - 1 : x[m] = y[m]
    <3> SUFFICES ASSUME NEW m \in 1 .. k - 1
                 PROVE  x[m] = y[m]
      OBVIOUS
    <3>1. m \in 1 .. l + n - 1
      BY <1>4
    <3> QED
      BY <1>8, <3>1
  <2>b. k <= Len(x) => x[k] < y[k]
    BY <1>9
  <2> HIDE DEF k
  <2>2. parts(x, y, k)
    BY <2>1, <2>a, <2>b DEF parts
  <2> QED
    BY <2>2 DEF k
<1>11. lexBefore(x, y)
  BY <1>2, <1>3, <1>7, <1>10, BeforeIs
<1> QED
  BY <1>11 DEF x, y

LEMMA LockIsInside ==
  ASSUME NEW p \in Paths
  PROVE  inside(p, Append(p, 0))
<1>1. p \in Places
  BY PathsArePlaces
<1>2. 0 \in Nat
  OBVIOUS
<1>3. /\ Append(p, 0) \in Places /\ Len(Append(p, 0)) = Len(p) + 1
      /\ \A i \in 1 .. Len(p) : Append(p, 0)[i] = p[i]
      /\ Append(p, 0)[Len(p) + 1] = 0
  BY <1>1, <1>2, AppendProperties DEF Places
<1>4. Len(p) \in Nat
  BY PathIs
<1> QED
  BY <1>3, <1>4 DEF inside

-----------------------------------------------------------------------------
(* Regions, and the rows of the document with what is spliced in.          *)
isRegion(F, g) ==
  /\ g = [of |-> g.of, at |-> g.at, roots |-> g.roots, ident |-> g.ident]
  /\ g.of \in Kinds /\ g.at \in DOMAIN F /\ isForest(g.roots)

areRegions(F, regions) ==
  /\ \E n \in Nat : DOMAIN regions = 1 .. n
  /\ regions = [k \in DOMAIN regions |-> regions[k]]
  /\ \A k \in DOMAIN regions : isRegion(F, regions[k])
  /\ \A k, j \in DOMAIN regions : regions[k].at = regions[j].at => k = j

positionIn(regions, r) ==
  IF r.source = Document THEN r.path
  ELSE IF r.source = Placeholder THEN Append(r.path, 0)
  ELSE within(regions[r.source.region].at, r.path)

byPosition(regions) ==
  {xy \in Rows \X Rows : lexBefore(positionIn(regions, xy[1]), positionIn(regions, xy[2]))}

lock(r) == [path |-> r.path, depth |-> r.depth + 1, source |-> Placeholder, elided |-> FALSE]
contextOf(regions, k, r, sought) ==
  context(source(regions[k].of, k), r.depth + 1, regions[k].ident, sought)
outlined(F, c) == {row(c, q, unseen(F, c)[q]) : q \in rowed(F, c)}

belowIn(F, regions, sought, r) ==
  IF regions = <<>> THEN {lock(r) : p \in ciphertexts(F) \cap {r.path}}
  ELSE UNION {outlined(regions[k].roots, contextOf(regions, k, r, sought)) :
                k \in {k \in DOMAIN regions : regions[k].at = r.path}}

LEMMA SourcesDiffer ==
  ASSUME NEW of \in Kinds, NEW k
  PROVE  source(of, k) # Document /\ source(of, k) # Placeholder /\ Document # Placeholder
         /\ source(of, k).of = of /\ source(of, k).region = k
<1>1. of # "Document" /\ of # "DecryptedPlaceholder"
  BY DEF Kinds
<1>2. source(of, k).of = of /\ source(of, k).region = k
  BY DEF source
<1>3. Document.of = "Document" /\ Placeholder.of = "DecryptedPlaceholder"
  BY DEF Document, Placeholder, source
<1>4. "Document" # "DecryptedPlaceholder"
  OBVIOUS
<1>5. source(of, k) # Document
  BY <1>1, <1>2, <1>3
<1>6. source(of, k) # Placeholder
  BY <1>1, <1>2, <1>3
<1>7. Document # Placeholder
  BY <1>3, <1>4
<1> QED
  BY <1>2, <1>5, <1>6, <1>7

LEMMA RegionListIs ==
  ASSUME NEW F, NEW regions, areRegions(F, regions)
  PROVE  \E n \in Nat : /\ DOMAIN regions = 1 .. n
                        /\ regions = <<>> <=> n = 0
<1>1. PICK n \in Nat : DOMAIN regions = 1 .. n
  BY DEF areRegions
<1>2. regions \in [1 .. n -> {regions[k] : k \in 1 .. n}]
  BY <1>1 DEF areRegions
<1>3. regions \in Seq({regions[k] : k \in 1 .. n}) /\ Len(regions) = n
  <2> DEFINE X == {regions[k] : k \in 1 .. n}
  <2> HIDE DEF X
  <2>1. regions \in [1 .. n -> X]
    BY <1>2 DEF X
  <2>2. regions \in Seq(X) /\ Len(regions) = n
    BY <2>1, ListIs
  <2> QED
    BY <2>2 DEF X
<1>4. regions = <<>> <=> n = 0
  BY <1>3, EmptyList
<1> QED
  BY <1>1, <1>4

LEMMA RegionIsOutlined ==
  ASSUME NEW F, isForest(F), NEW regions, areRegions(F, regions), NEW sought,
         NEW r \in Rows, NEW k \in DOMAIN regions, regions[k].at = r.path
  PROVE  LET c == contextOf(regions, k, r, sought)
             s == collectForest(regions[k].roots, c)
         IN /\ s \in Seq(Rows) /\ Increasing(s, byPosition(regions))
            /\ Range(s) = outlined(regions[k].roots, c)
            /\ \A x \in Range(s) : /\ x \in Rows /\ x.source = source(regions[k].of, k)
                                   /\ positionIn(regions, x) = within(r.path, x.path)
                                   /\ x.path \in DOMAIN regions[k].roots
                                   /\ x.depth = r.depth + Len(x.path)
<1> DEFINE c == contextOf(regions, k, r, sought)
           G == regions[k].roots
           s == collectForest(G, c)
           e == unseen(G, c)
<1>1. /\ isForest(G) /\ regions[k].of \in Kinds /\ k \in Nat
      /\ r.depth \in Nat /\ r.path \in Paths
  BY DEF areRegions, isRegion, Rows
<1>2. /\ c.source = source(regions[k].of, k) /\ c.depth = r.depth + 1 /\ c.filter = sought
  BY DEF contextOf, context
<1>3. isContext(c)
  BY <1>1, <1>2 DEF isContext, Sources
<1> HIDE DEF c, G
<1>4. s \in Seq(Rows) /\ Increasing(s, byPath) /\ Range(s) = outlined(G, c)
  BY <1>1, <1>3, ForestIsCollected DEF shows, outlined
<1>5. ASSUME NEW x \in Range(s)
      PROVE  /\ x \in Rows /\ x.source = c.source /\ x.path \in DOMAIN G
             /\ x.depth = c.depth + Len(x.path) - 1
  <2>1. PICK q \in rowed(G, c) : x = row(c, q, e[q])
    BY <1>4 DEF outlined
  <2>2. q \in DOMAIN G /\ q \in Paths /\ q # <<>> /\ e[q] \in BOOLEAN
    BY <1>1, <2>1, ForestIs DEF rowed, unseen
  <2>3. x \in Rows /\ x.source = c.source /\ x.path = q /\ x.depth = c.depth + Len(q) - 1
    BY <1>3, <2>1, <2>2, RowIs
  <2> QED
    BY <2>2, <2>3
<1> HIDE DEF s, e
<1>6. ASSUME NEW x \in Range(s)
      PROVE  positionIn(regions, x) = within(r.path, x.path)
  <2>1. x.source = source(regions[k].of, k)
    BY <1>2, <1>5
  <2>2. x.source # Document /\ x.source # Placeholder /\ x.source.region = k
    BY <1>1, <2>1, SourcesDiffer
  <2> QED
    BY <2>2 DEF positionIn
<1>7. Increasing(s, byPosition(regions))
  <2>1. /\ DOMAIN s = 1 .. Len(s) /\ \A i \in DOMAIN s : s[i] \in Range(s)
    BY <1>4, EmptyList, LenProperties
  <2> SUFFICES ASSUME NEW i \in DOMAIN s, NEW j \in DOMAIN s, i < j
               PROVE  <<s[i], s[j]>> \in byPosition(regions)
    BY DEF Increasing
  <2>2. <<s[i], s[j]>> \in byPath /\ s[i] \in Rows /\ s[j] \in Rows
    BY <1>4, <1>5, <2>1 DEF Increasing
  <2>3. lexBefore(s[i].path, s[j].path) /\ s[i].path \in Paths /\ s[j].path \in Paths
    BY <2>2, ByPathIs DEF Rows
  <2>4. lexBefore(positionIn(regions, s[i]), positionIn(regions, s[j]))
    BY <1>1, <1>6, <2>1, <2>3, WithinKeepsOrder
  <2> QED
    BY <2>2, <2>4 DEF byPosition
<1>8. \A x \in Range(s) : x.depth = r.depth + Len(x.path)
  <2> TAKE x \in Range(s)
  <2>1. Len(x.path) \in Nat
    <3>1. x.path \in Paths
      BY <1>5 DEF Rows
    <3> QED
      BY <3>1, PathIs
  <2> QED
    BY <1>1, <1>2, <1>5, <2>1
<1> QED
  BY <1>2, <1>4, <1>5, <1>6, <1>7, <1>8 DEF s, G, c

LEMMA SplicedIs ==
  ASSUME NEW F, isForest(F), NEW regions, areRegions(F, regions), NEW sought, NEW r \in Rows
  PROVE  LET s == spliced(r, F, regions, sought)
         IN /\ s \in Seq(Rows) /\ Increasing(s, byPosition(regions))
            /\ Range(s) = belowIn(F, regions, sought, r)
            /\ \A x \in Range(s) : inside(r.path, positionIn(regions, x))
<1> DEFINE s == spliced(r, F, regions, sought)
           L == byPosition(regions)
<1>0. r.path \in Paths /\ r.depth \in Nat
  BY DEF Rows
<1>1. PICK n \in Nat : DOMAIN regions = 1 .. n /\ (regions = <<>> <=> n = 0)
  BY RegionListIs
<1>2. CASE regions = <<>>
  <2>1. lock(r) \in Rows /\ lock(r).source = Placeholder /\ lock(r).path = r.path
    BY <1>0 DEF lock, Rows, Sources
  <2>2. positionIn(regions, lock(r)) = Append(r.path, 0)
    <3>1. Document # Placeholder
      BY SourcesDiffer DEF Kinds
    <3> QED
      BY <2>1, <3>1 DEF positionIn
  <2>3. inside(r.path, positionIn(regions, lock(r)))
    BY <1>0, <2>2, LockIsInside
  <2>4. CASE r.path \in ciphertexts(F)
    <3>1. s = <<lock(r)>>
      BY <1>2, <2>4 DEF spliced, lock
    <3>2. belowIn(F, regions, sought, r) = {lock(r)}
      BY <1>2, <2>4 DEF belowIn
    <3> DEFINE x == lock(r)
    <3>3. x \in Rows /\ inside(r.path, positionIn(regions, x))
      BY <2>1, <2>3
    <3> HIDE DEF x, L, s
    <3>4. <<x>> \in Seq(Rows) /\ Range(<<x>>) = {x} /\ Increasing(<<x>>, L)
      BY <3>3, OneElement
    <3>5. s = <<x>> /\ belowIn(F, regions, sought, r) = {x}
      BY <3>1, <3>2 DEF x
    <3> QED
      BY <3>3, <3>4, <3>5 DEF s, L
  <2>5. CASE r.path \notin ciphertexts(F)
    <3>1. s = <<>>
      BY <1>2, <2>5 DEF spliced
    <3>2. belowIn(F, regions, sought, r) = {}
      BY <1>2, <2>5 DEF belowIn
    <3> HIDE DEF L, s
    <3>3. s \in Seq(Rows) /\ Range(s) = {} /\ Increasing(s, L)
      BY <3>1, NoElement
    <3> QED
      BY <3>2, <3>3 DEF s, L
  <2> QED
    BY <2>4, <2>5
<1>3. CASE regions # <<>>
  <2> DEFINE c(k) == contextOf(regions, k, r, sought)
             O(k) == outlined(regions[k].roots, c(k))
             t == [k \in 1 .. n |-> IF regions[k].at = r.path
                                    THEN collectForest(regions[k].roots, c(k)) ELSE <<>>]
  <2>1. s = FlattenSeq(t)
    BY <1>1, <1>3 DEF spliced, contextOf
  <2>2. ASSUME NEW k \in 1 .. n
        PROVE  /\ t[k] \in Seq(Rows) /\ Increasing(t[k], L)
               /\ Range(t[k]) = IF regions[k].at = r.path THEN O(k) ELSE {}
               /\ \A x \in Range(t[k]) : inside(r.path, positionIn(regions, x))
    <3>1. CASE regions[k].at = r.path
      <4> DEFINE u == collectForest(regions[k].roots, c(k))
      <4>1. /\ u \in Seq(Rows) /\ Increasing(u, L) /\ Range(u) = O(k)
            /\ \A x \in Range(u) : x \in Rows /\ positionIn(regions, x) = within(r.path, x.path)
        BY <1>1, <3>1, RegionIsOutlined
      <4>2. t[k] = u
        BY <3>1
      <4> HIDE DEF u, t, O
      <4>3. \A x \in Range(u) : inside(r.path, positionIn(regions, x))
        <5> TAKE x \in Range(u)
        <5>1. x.path \in Paths /\ positionIn(regions, x) = within(r.path, x.path)
          BY <4>1 DEF Rows
        <5> QED
          BY <1>0, <5>1, WithinIs
      <4> QED
        BY <3>1, <4>1, <4>2, <4>3
    <3>2. CASE regions[k].at # r.path
      <4>1. t[k] = <<>>
        BY <3>2
      <4> HIDE DEF t, L, O
      <4> QED
        BY <3>2, <4>1, NoElement
    <3> QED
      BY <3>1, <3>2
  <2>3. t = [k \in 1 .. n |-> t[k]]
    OBVIOUS
  <2>4. \A k, j \in 1 .. n : k < j => ~(regions[k].at = r.path /\ regions[j].at = r.path)
    BY <1>1 DEF areRegions
  <2> HIDE DEF t, L, O
  <2>5. t \in [1 .. n -> Seq(Rows)] /\ \A k \in 1 .. n : Increasing(t[k], L)
    BY <2>2, <2>3
  <2>6. \A k, j \in 1 .. n : k < j => \A x \in Range(t[k]), y \in Range(t[j]) : <<x, y>> \in L
    BY <2>2, <2>4
  <2>7. /\ FlattenSeq(t) \in Seq(Rows) /\ Increasing(FlattenSeq(t), L)
        /\ Range(FlattenSeq(t)) = allOf(t, n)
    BY ONLY n \in Nat, <2>5, <2>6, FlattenIncreases
  <2>8. allOf(t, n) = UNION {O(k) : k \in {k \in 1 .. n : regions[k].at = r.path}}
    BY <2>2 DEF allOf
  <2>9. belowIn(F, regions, sought, r) = UNION {O(k) : k \in {k \in 1 .. n : regions[k].at = r.path}}
    BY <1>1, <1>3 DEF belowIn, O
  <2>10. \A x \in allOf(t, n) : inside(r.path, positionIn(regions, x))
    BY <2>2 DEF allOf
  <2> HIDE DEF s
  <2>11. /\ s \in Seq(Rows) /\ Increasing(s, L) /\ Range(s) = belowIn(F, regions, sought, r)
         /\ \A x \in Range(s) : inside(r.path, positionIn(regions, x))
    BY <2>1, <2>7, <2>8, <2>9, <2>10
  <2> QED
    BY <2>11 DEF s, L
<1> QED
  BY <1>2, <1>3

ownContext(labels, sought) == context(Document, 0, labels, sought)

outlineIn(F, labels, regions, sought) ==
  LET own == outlined(F, ownContext(labels, sought))
  IN own \cup UNION {belowIn(F, regions, sought, r) : r \in own}

LEMMA OwnRowsAre ==
  ASSUME NEW F, isForest(F), NEW labels, NEW sought
  PROVE  LET own == collectForest(F, ownContext(labels, sought))
         IN /\ own \in Seq(Rows) /\ Increasing(own, byPath)
            /\ Range(own) = outlined(F, ownContext(labels, sought))
            /\ \A x \in Range(own) : /\ x \in Rows /\ x.source = Document /\ x.path \in DOMAIN F
                                     /\ x.depth = Len(x.path) - 1
<1> DEFINE c == ownContext(labels, sought)
           own == collectForest(F, c)
           e == unseen(F, c)
<1>1. isContext(c) /\ c.source = Document /\ c.depth = 0
  BY DEF ownContext, context, isContext, Sources
<1> HIDE DEF c
<1>2. own \in Seq(Rows) /\ Increasing(own, byPath) /\ Range(own) = outlined(F, c)
  BY <1>1, ForestIsCollected DEF shows, outlined
<1>3. ASSUME NEW x \in Range(own)
      PROVE  x \in Rows /\ x.source = Document /\ x.path \in DOMAIN F /\ x.depth = Len(x.path) - 1
  <2>1. PICK q \in rowed(F, c) : x = row(c, q, e[q])
    BY <1>2 DEF outlined
  <2>2. q \in DOMAIN F /\ q \in Paths /\ q # <<>> /\ e[q] \in BOOLEAN
    BY <2>1, ForestIs DEF rowed, unseen
  <2> HIDE DEF e
  <2>3. x \in Rows /\ x.source = c.source /\ x.path = q /\ x.depth = c.depth + Len(q) - 1
    BY <1>1, <2>1, <2>2, RowIs
  <2>4. Len(q) \in Nat
    BY <2>2, PathIs
  <2> QED
    BY <1>1, <2>2, <2>3, <2>4
<1> QED
  BY <1>2, <1>3 DEF c

LEMMA RowsOfAre ==
  ASSUME NEW F, isForest(F), NEW labels, NEW regions, areRegions(F, regions), NEW sought
  PROVE  LET s == rowsOf(F, labels, regions, sought)
         IN /\ s \in Seq(Rows) /\ Increasing(s, byPosition(regions))
            /\ Range(s) = outlineIn(F, labels, regions, sought)
<1> DEFINE c == ownContext(labels, sought)
           own == collectForest(F, c)
           n == Len(own)
           L == byPosition(regions)
           sub(i) == spliced(own[i], F, regions, sought)
           w == [i \in 1 .. n |-> <<own[i]>> \o sub(i)]
<1>1. /\ own \in Seq(Rows) /\ Increasing(own, byPath) /\ Range(own) = outlined(F, c)
      /\ \A x \in Range(own) : /\ x \in Rows /\ x.source = Document /\ x.path \in DOMAIN F
                               /\ x.depth = Len(x.path) - 1
  BY OwnRowsAre
<1>2. n \in Nat /\ DOMAIN own = 1 .. n /\ \A i \in 1 .. n : own[i] \in Range(own)
  BY <1>1, LenProperties, EmptyList
<1>3. rowsOf(F, labels, regions, sought) = FlattenSeq(w)
  BY <1>2 DEF rowsOf, ownContext
<1> HIDE DEF c, own, n, L
<1>4. ASSUME NEW i \in 1 .. n
      PROVE  /\ w[i] \in Seq(Rows) /\ Increasing(w[i], L)
             /\ Range(w[i]) = {own[i]} \cup belowIn(F, regions, sought, own[i])
             /\ \A x \in Range(w[i]) : \/ positionIn(regions, x) = own[i].path
                                       \/ inside(own[i].path, positionIn(regions, x))
  <2> DEFINE r == own[i]
             s == sub(i)
  <2>1. r \in Rows /\ r.source = Document /\ r.path \in Paths
    BY <1>1, <1>2 DEF Rows
  <2>2. /\ s \in Seq(Rows) /\ Increasing(s, L)
        /\ Range(s) = belowIn(F, regions, sought, r)
        /\ \A x \in Range(s) : inside(r.path, positionIn(regions, x))
    BY <2>1, SplicedIs DEF L
  <2>3. positionIn(regions, r) = r.path
    BY <2>1 DEF positionIn
  <2>4. w[i] = <<r>> \o s
    OBVIOUS
  <2> HIDE DEF r, s, w
  <2>5. <<r>> \in Seq(Rows) /\ Range(<<r>>) = {r} /\ Increasing(<<r>>, L)
    BY <2>1, OneElement
  <2>6. \A x \in Range(<<r>>), y \in Range(s) : <<x, y>> \in L
    <3> SUFFICES ASSUME NEW y \in Range(s)
                 PROVE  <<r, y>> \in L
      BY <2>5
    <3>1. y \in Rows /\ inside(r.path, positionIn(regions, y))
      BY <2>2, EmptyList
    <3>2. lexBefore(positionIn(regions, r), positionIn(regions, y))
      BY <2>1, <2>3, <3>1, InsideIsAfter
    <3> QED
      BY <2>1, <3>1, <3>2 DEF L, byPosition
  <2> DEFINE one == <<r>>
  <2> HIDE DEF one
  <2>a. one \in Seq(Rows) /\ Range(one) = {r} /\ Increasing(one, L)
        /\ \A x \in Range(one), y \in Range(s) : <<x, y>> \in L
    BY <2>5, <2>6 DEF one
  <2>7. one \o s \in Seq(Rows) /\ Increasing(one \o s, L) /\ Range(one \o s) = Range(one) \cup Range(s)
    BY <2>2, <2>a, JoinIncreases
  <2>8. w[i] \in Seq(Rows) /\ Increasing(w[i], L) /\ Range(w[i]) = {r} \cup Range(s)
    BY <2>4, <2>7, <2>a DEF one
  <2> QED
    BY <2>2, <2>3, <2>8 DEF r
<1>5. w = [i \in 1 .. n |-> w[i]]
  OBVIOUS
<1> HIDE DEF w
<1>6. w \in [1 .. n -> Seq(Rows)] /\ \A i \in 1 .. n : Increasing(w[i], L)
  BY <1>4, <1>5
<1>7. ASSUME NEW i \in 1 .. n, NEW j \in 1 .. n, i < j, NEW x \in Range(w[i]), NEW y \in Range(w[j])
      PROVE  <<x, y>> \in L
  <2>1. <<own[i], own[j]>> \in byPath
    BY <1>1, <1>2, <1>7 DEF Increasing
  <2>2. own[i] \in Rows /\ own[j] \in Rows /\ own[i].path \in Paths /\ own[j].path \in Paths
    BY <1>1, <1>2 DEF Rows
  <2>3. lexBefore(own[i].path, own[j].path)
    BY <2>1, <2>2, ByPathIs
  <2>4. x \in Rows /\ y \in Rows
    BY <1>4, EmptyList
  <2>5. /\ positionIn(regions, x) = own[i].path \/ inside(own[i].path, positionIn(regions, x))
        /\ positionIn(regions, y) = own[j].path \/ inside(own[j].path, positionIn(regions, y))
    BY <1>4
  <2>6. lexBefore(positionIn(regions, x), positionIn(regions, y))
    BY <2>2, <2>3, <2>5, InsideKeepsOrder
  <2> QED
    BY <2>4, <2>6 DEF L, byPosition
<1>8. \A i, j \in 1 .. n : i < j => \A x \in Range(w[i]), y \in Range(w[j]) : <<x, y>> \in L
  BY <1>7
<1>9. /\ FlattenSeq(w) \in Seq(Rows) /\ Increasing(FlattenSeq(w), L)
      /\ Range(FlattenSeq(w)) = allOf(w, n)
  BY ONLY <1>2, <1>6, <1>8, FlattenIncreases
<1>10. allOf(w, n) = outlineIn(F, labels, regions, sought)
  <2>1. \A x : x \in allOf(w, n) <=> \E i \in 1 .. n : x = own[i] \/ x \in belowIn(F, regions, sought, own[i])
    BY <1>4 DEF allOf
  <2>2. \A r : r \in outlined(F, c) <=> \E i \in 1 .. n : r = own[i]
    BY <1>1, <1>2, EmptyList DEF n
  <2>3. \A x : x \in outlineIn(F, labels, regions, sought)
                 <=> x \in outlined(F, c) \/ \E r \in outlined(F, c) : x \in belowIn(F, regions, sought, r)
    BY DEF outlineIn, c
  <2> QED
    BY <2>1, <2>2, <2>3
<1> QED
  BY <1>3, <1>9, <1>10 DEF L

-----------------------------------------------------------------------------
(* The same, in the terms of the model.                                    *)
LEMMA SeenIsShown ==
  ASSUME NEW F, NEW c, c.filter = filter, NEW q
  PROVE  /\ seen(F, c, q) <=> isShown(F, c.labels, q)
         /\ filter # <<>> => (starts(F, c, q) <=> startsHiddenRun(F, c.labels, q))
<1>1. \A p : filter # <<>> => (has(F, c, p) <=> isShown(F, c.labels, p))
  BY DEF has, isShown
<1>2. CASE filter = <<>>
  BY <1>2 DEF seen, isShown
<1>3. CASE filter # <<>>
  BY <1>1, <1>3 DEF seen, starts, startsHiddenRun
<1> QED
  BY <1>2, <1>3

LEMMA OutlinedIs ==
  ASSUME NEW F, NEW labels, NEW whose, NEW depth
  PROVE  outlined(F, context(whose, depth, labels, filter)) = outlineOf(F, labels, whose, depth)
<1> DEFINE c == context(whose, depth, labels, filter)
<1>1. c.filter = filter /\ c.labels = labels /\ c.source = whose /\ c.depth = depth
  BY DEF context
<1> HIDE DEF c
<1>2. \A q : seen(F, c, q) <=> isShown(F, labels, q)
  BY <1>1, SeenIsShown
<1>3. \A q : filter # <<>> => (starts(F, c, q) <=> startsHiddenRun(F, labels, q))
  BY <1>1, SeenIsShown
<1>4. \A q : startsHiddenRun(F, labels, q) => filter # <<>>
  BY DEF startsHiddenRun
<1>5. rowed(F, c) = {q \in DOMAIN F : isShown(F, labels, q) \/ startsHiddenRun(F, labels, q)}
  BY <1>1, <1>2, <1>3, <1>4 DEF rowed
<1>6. \A q \in DOMAIN F : unseen(F, c)[q] = ~isShown(F, labels, q)
  BY <1>2 DEF unseen
<1>7. \A q \in rowed(F, c) :
        row(c, q, unseen(F, c)[q]) = [path |-> q, depth |-> depth + Len(q) - 1, source |-> whose,
                                      elided |-> ~isShown(F, labels, q)]
  BY <1>1, <1>6 DEF row, rowed
<1>8. outlined(F, c) = outlineOf(F, labels, whose, depth)
  BY <1>5, <1>7 DEF outlined, outlineOf
<1> QED
  BY <1>8 DEF c

LEMMA BelowIs ==
  ASSUME NEW r
  PROVE  belowIn(roots, rowsRevealed, filter, r) = below(r)
<1>1. CASE rowsRevealed = <<>>
  BY <1>1 DEF belowIn, below, lock
<1>2. CASE rowsRevealed # <<>>
  <2>1. \A k : outlined(rowsRevealed[k].roots, contextOf(rowsRevealed, k, r, filter))
                 = outlineOf(rowsRevealed[k].roots, rowsRevealed[k].ident, source(rowsRevealed[k].of, k), r.depth + 1)
    BY OutlinedIs DEF contextOf
  <2> QED
    BY <1>2, <2>1 DEF belowIn, below
<1> QED
  BY <1>1, <1>2

Shown ==
  /\ isForest(roots) /\ areRegions(roots, rowsRevealed)
  /\ rows = rowsOf(roots, rowsIdent, rowsRevealed, filter)

LEMMA ShownRows ==
  ASSUME Shown
  PROVE  /\ rows \in Seq(Rows) /\ Range(rows) = outline
         /\ \A i, j \in DOMAIN rows : i < j => lexBefore(position(rows[i]), position(rows[j]))
         /\ outline = outlineIn(roots, rowsIdent, rowsRevealed, filter)
<1>1. /\ rows \in Seq(Rows) /\ Increasing(rows, byPosition(rowsRevealed))
      /\ Range(rows) = outlineIn(roots, rowsIdent, rowsRevealed, filter)
  BY RowsOfAre DEF Shown
<1>2. outlined(roots, ownContext(rowsIdent, filter)) = outlineOf(roots, rowsIdent, Document, 0)
  BY OutlinedIs DEF ownContext
<1>3. outlineIn(roots, rowsIdent, rowsRevealed, filter) = outline
  BY <1>2, BelowIs DEF outlineIn, outline
<1>4. \A r : positionIn(rowsRevealed, r) = position(r)
  BY DEF positionIn, position, within
<1>5. \A i, j \in DOMAIN rows : i < j => lexBefore(position(rows[i]), position(rows[j]))
  <2> TAKE i, j \in DOMAIN rows
  <2> HAVE i < j
  <2>1. <<rows[i], rows[j]>> \in byPosition(rowsRevealed)
    BY <1>1 DEF Increasing
  <2>2. lexBefore(positionIn(rowsRevealed, rows[i]), positionIn(rowsRevealed, rows[j]))
    BY <2>1 DEF byPosition
  <2> QED
    BY <1>4, <2>2
<1> QED
  BY <1>1, <1>3, <1>5

LEMMA OutlineIsShown ==
  ASSUME Shown
  PROVE  /\ Range(rows) = outline
         /\ \A i \in 1 .. Len(rows) - 1 : lexBefore(position(rows[i]), position(rows[i + 1]))
<1>1. /\ rows \in Seq(Rows) /\ Range(rows) = outline
      /\ \A i, j \in DOMAIN rows : i < j => lexBefore(position(rows[i]), position(rows[j]))
  BY ShownRows
<1>2. DOMAIN rows = 1 .. Len(rows) /\ Len(rows) \in Nat
  BY <1>1, LenProperties
<1>3. \A i \in 1 .. Len(rows) - 1 : i \in DOMAIN rows /\ i + 1 \in DOMAIN rows /\ i < i + 1
  BY <1>2
<1> QED
  BY <1>1, <1>3

-----------------------------------------------------------------------------
(* Paths below a path.                                                     *)
rest(p, x) == SubSeq(x, Len(p) + 1, Len(x))

LEMMA JoinedIs ==
  ASSUME NEW p \in Paths, NEW q \in Paths
  PROVE  /\ p \o q \in Paths /\ Len(p \o q) = Len(p) + Len(q)
         /\ \A i \in 1 .. Len(p) : (p \o q)[i] = p[i]
         /\ \A i \in 1 .. Len(q) : (p \o q)[Len(p) + i] = q[i]
         /\ IsPrefix(p, p \o q)
<1> DEFINE w == p \o q
<1>1. Len(p) \in Nat /\ Len(q) \in Nat
  BY PathIs
<1>2. /\ w \in Paths /\ Len(w) = Len(p) + Len(q)
      /\ \A i \in 1 .. Len(p) + Len(q) : w[i] = IF i <= Len(p) THEN p[i] ELSE q[i - Len(p)]
  BY ConcatProperties DEF Paths
<1> HIDE DEF w
<1>3. \A i \in 1 .. Len(p) : w[i] = p[i]
  <2> TAKE i \in 1 .. Len(p)
  <2>1. i \in 1 .. Len(p) + Len(q) /\ i <= Len(p)
    BY <1>1
  <2> QED
    BY <1>2, <2>1
<1>4. \A i \in 1 .. Len(q) : w[Len(p) + i] = q[i]
  <2> TAKE i \in 1 .. Len(q)
  <2> DEFINE j == Len(p) + i
  <2>1. j \in 1 .. Len(p) + Len(q) /\ ~(j <= Len(p)) /\ j - Len(p) = i
    BY <1>1
  <2> HIDE DEF j
  <2>2. w[j] = q[i]
    BY <1>2, <2>1
  <2> QED
    BY <2>2 DEF j
<1>5. Len(p) <= Len(w)
  BY <1>1, <1>2
<1>6. IsPrefix(p, w)
  BY <1>2, <1>3, <1>5, PrefixIs
<1> QED
  BY <1>2, <1>3, <1>4, <1>6 DEF w

LEMMA RestIs ==
  ASSUME NEW p \in Paths, NEW x \in Paths, IsPrefix(p, x)
  PROVE  /\ rest(p, x) \in Paths /\ Len(rest(p, x)) = Len(x) - Len(p)
         /\ p \o rest(p, x) = x
<1> DEFINE z == rest(p, x)
           w == p \o z
<1>1. /\ Len(p) \in Nat /\ Len(x) \in Nat /\ Len(p) <= Len(x)
      /\ \A i \in 1 .. Len(p) : p[i] = x[i]
  BY PathIs, PrefixIs
<1>2. \A i \in Len(p) + 1 .. Len(x) : x[i] \in Steps
  <2> TAKE i \in Len(p) + 1 .. Len(x)
  <2>1. i \in 1 .. Len(x)
    BY <1>1
  <2> QED
    BY <2>1, PathIs DEF Steps
<1>3. /\ z \in Paths
      /\ Len(z) = IF Len(p) + 1 <= Len(x) THEN Len(x) - (Len(p) + 1) + 1 ELSE 0
      /\ \A i \in 1 .. Len(x) - (Len(p) + 1) + 1 : z[i] = x[Len(p) + 1 + i - 1]
  BY <1>1, <1>2, SubSeqProperties DEF Paths, rest
<1> HIDE DEF z
<1>4. Len(z) = Len(x) - Len(p)
  BY <1>1, <1>3
<1>5. \A i \in 1 .. Len(z) : z[i] = x[Len(p) + i]
  <2> TAKE i \in 1 .. Len(z)
  <2>1. i \in 1 .. Len(x) - (Len(p) + 1) + 1 /\ Len(p) + 1 + i - 1 = Len(p) + i
    BY <1>1, <1>4
  <2> QED
    BY <1>3, <2>1
<1>6. /\ w \in Paths /\ Len(w) = Len(p) + Len(z)
      /\ \A i \in 1 .. Len(p) : w[i] = p[i]
      /\ \A i \in 1 .. Len(z) : w[Len(p) + i] = z[i]
  BY <1>3, JoinedIs
<1> HIDE DEF w
<1>7. \A i \in 1 .. Len(x) : w[i] = x[i]
  <2> TAKE i \in 1 .. Len(x)
  <2>1. CASE i <= Len(p)
    <3>1. i \in 1 .. Len(p)
      BY <1>1, <2>1
    <3> QED
      BY <1>1, <1>6, <3>1
  <2>2. CASE ~(i <= Len(p))
    <3> DEFINE j == i - Len(p)
    <3>1. j \in 1 .. Len(z) /\ Len(p) + j = i
      BY <1>1, <1>4, <2>2
    <3> HIDE DEF j
    <3>2. w[Len(p) + j] = z[j] /\ z[j] = x[Len(p) + j]
      BY <1>5, <1>6, <3>1
    <3> QED
      BY <3>1, <3>2
  <2> QED
    BY <2>1, <2>2
<1>8. Len(w) = Len(x)
  BY <1>1, <1>4, <1>6
<1>9. w = x
  BY <1>6, <1>7, <1>8, SamePath
<1> QED
  BY <1>3, <1>4, <1>9 DEF w, z

LEMMA RestOfJoined ==
  ASSUME NEW p \in Paths, NEW q \in Paths
  PROVE  rest(p, p \o q) = q
<1> DEFINE w == p \o q
           z == rest(p, w)
<1>1. /\ w \in Paths /\ Len(w) = Len(p) + Len(q) /\ IsPrefix(p, w)
      /\ \A i \in 1 .. Len(q) : w[Len(p) + i] = q[i]
  BY JoinedIs
<1> HIDE DEF w
<1>2. z \in Paths /\ Len(z) = Len(w) - Len(p) /\ p \o z = w
  BY <1>1, RestIs
<1> HIDE DEF z
<1>3. \A i \in 1 .. Len(z) : w[Len(p) + i] = z[i]
  BY <1>2, JoinedIs
<1>4. Len(z) = Len(q)
  <2>1. Len(p) \in Nat /\ Len(q) \in Nat
    BY PathIs
  <2> QED
    BY <1>1, <1>2, <2>1
<1>5. z = q
  BY <1>1, <1>2, <1>3, <1>4, SamePath
<1> QED
  BY <1>5 DEF z, w

LEMMA JoinsApart ==
  ASSUME NEW p \in Paths, NEW q \in Paths, NEW r \in Paths, p \o q = p \o r
  PROVE  q = r
BY RestOfJoined

LEMMA JoinedNothing ==
  ASSUME NEW p \in Paths
  PROVE  p \o <<>> = p /\ <<>> \o p = p
BY ConcatEmptySeq DEF Paths

LEMMA JoinedFront ==
  ASSUME NEW p \in Paths, NEW q \in Paths, q # <<>>
  PROVE  /\ p \o q # <<>> /\ p \o q # p
         /\ Front(p \o q) = p \o Front(q) /\ Last(p \o q) = Last(q)
<1> DEFINE w == p \o q
           f == Front(q)
           u == p \o f
           v == Front(w)
<1>0. Len(p) \in Nat /\ Len(q) \in Nat /\ Len(q) > 0
  BY PathIs
<1>1. /\ w \in Paths /\ Len(w) = Len(p) + Len(q)
      /\ \A i \in 1 .. Len(p) : w[i] = p[i]
      /\ \A i \in 1 .. Len(q) : w[Len(p) + i] = q[i]
  BY JoinedIs
<1>2. /\ f \in Paths /\ Len(f) = Len(q) - 1
      /\ \A i \in 1 .. Len(q) - 1 : f[i] = q[i]
      /\ Last(q) = q[Len(q)]
  BY FrontIs
<1> HIDE DEF w, f
<1>3. /\ u \in Paths /\ Len(u) = Len(p) + Len(f)
      /\ \A i \in 1 .. Len(p) : u[i] = p[i]
      /\ \A i \in 1 .. Len(f) : u[Len(p) + i] = f[i]
  BY <1>2, JoinedIs
<1>4. Len(w) > 0 /\ w # p
  BY <1>0, <1>1
<1>5. w # <<>>
  BY <1>1, <1>4, PathIs
<1>6. /\ v \in Paths /\ Len(v) = Len(w) - 1
      /\ \A i \in 1 .. Len(w) - 1 : v[i] = w[i]
      /\ Last(w) = w[Len(w)]
  BY <1>1, <1>5, FrontIs
<1> HIDE DEF u, v
<1>7. Len(v) = Len(u)
  BY <1>0, <1>1, <1>2, <1>3, <1>6
<1>8. \A i \in 1 .. Len(v) : v[i] = u[i]
  <2> TAKE i \in 1 .. Len(v)
  <2>1. v[i] = w[i]
    BY <1>6
  <2>2. CASE i <= Len(p)
    <3>1. i \in 1 .. Len(p)
      BY <1>0, <2>2
    <3> QED
      BY <1>1, <1>3, <2>1, <3>1
  <2>3. CASE ~(i <= Len(p))
    <3> DEFINE j == i - Len(p)
    <3>1. j \in 1 .. Len(f) /\ Len(p) + j = i /\ j \in 1 .. Len(q) - 1 /\ j \in 1 .. Len(q)
      BY <1>0, <1>1, <1>2, <1>6, <2>3
    <3> HIDE DEF j
    <3>2. w[Len(p) + j] = q[j] /\ u[Len(p) + j] = f[j] /\ f[j] = q[j]
      BY <1>1, <1>2, <1>3, <3>1
    <3> QED
      BY <2>1, <3>1, <3>2
  <2> QED
    BY <2>2, <2>3
<1>9. v = u
  BY <1>3, <1>6, <1>7, <1>8, SamePath
<1>10. Last(w) = Last(q)
  <2>1. Len(q) \in 1 .. Len(q)
    BY <1>0
  <2> QED
    BY <1>1, <1>2, <1>6, <2>1
<1> QED
  BY <1>4, <1>5, <1>9, <1>10 DEF w, v, u, f

LEMMA PreviousOf ==
  ASSUME NEW q \in Paths, q # <<>>, Last(q) > 1
  PROVE  /\ Last(q) - 1 \in Steps /\ previous(q) = Append(Front(q), Last(q) - 1)
         /\ previous(q) \in Paths /\ previous(q) # <<>>
         /\ Front(previous(q)) = Front(q) /\ Last(previous(q)) = Last(q) - 1
<1> DEFINE i == Last(q) - 1
           f == Front(q)
<1>1. f \in Paths /\ i \in Steps /\ i + 1 = Last(q)
  <2>1. f \in Paths /\ Last(q) \in Steps
    BY FrontIs
  <2> QED
    BY <2>1 DEF Steps
<1>2. q = Append(f, Last(q))
  BY FrontAndLast
<1> HIDE DEF f, i
<1>3. q = Append(f, i + 1)
  BY <1>1, <1>2
<1>4. previous(q) = Append(f, i)
  BY <1>1, <1>3, PreviousIs
<1>5. /\ Append(f, i) \in Paths /\ Append(f, i) # <<>>
      /\ Front(Append(f, i)) = f /\ Last(Append(f, i)) = i
  BY <1>1, ChildIs
<1>6. i \in Steps /\ previous(q) = Append(f, i) /\ previous(q) \in Paths /\ previous(q) # <<>>
      /\ Front(previous(q)) = f /\ Last(previous(q)) = i
  BY <1>1, <1>4, <1>5
<1> QED
  BY <1>6 DEF f, i

LEMMA JoinedChild ==
  ASSUME NEW p \in Paths, NEW q \in Paths, NEW i \in Steps
  PROVE  p \o Append(q, i) = Append(p \o q, i)
<1> DEFINE c == Append(q, i)
           w == p \o c
<1>1. c \in Paths /\ c # <<>> /\ Front(c) = q /\ Last(c) = i
  BY ChildIs
<1> HIDE DEF c
<1>2. w \in Paths /\ w # <<>> /\ Front(w) = p \o q /\ Last(w) = i
  BY <1>1, JoinedIs, JoinedFront
<1> HIDE DEF w
<1>3. w = Append(p \o q, i)
  BY <1>2, FrontAndLast
<1> QED
  BY <1>3 DEF w, c

LEMMA JoinedPrevious ==
  ASSUME NEW p \in Paths, NEW q \in Paths, q # <<>>, Last(q) > 1
  PROVE  p \o previous(q) = previous(p \o q)
<1> DEFINE w == p \o q
           i == Last(q) - 1
           f == Front(q)
<1>1. w \in Paths /\ w # <<>> /\ Front(w) = p \o f /\ Last(w) = Last(q)
  BY JoinedIs, JoinedFront
<1>2. i \in Steps /\ previous(q) = Append(f, i) /\ f \in Paths
  BY PreviousOf, FrontIs
<1> HIDE DEF w
<1>3. previous(w) = Append(Front(w), Last(w) - 1)
  BY <1>1, PreviousOf
<1>4. previous(w) = Append(p \o f, i)
  BY <1>1, <1>3
<1> HIDE DEF i, f
<1>5. p \o Append(f, i) = Append(p \o f, i)
  BY <1>2, JoinedChild
<1>6. p \o previous(q) = previous(w)
  BY <1>2, <1>4, <1>5
<1> QED
  BY <1>6 DEF w

LEMMA ChildJoins ==
  ASSUME NEW p \in Paths, NEW i \in Steps
  PROVE  p \o <<i>> = Append(p, i)
BY AppendIsConcat DEF Paths

-----------------------------------------------------------------------------
(* Forests stay forests: what an operation makes of them is closed under   *)
(* enclosing and preceding nodes, and its nodes hold secrets of "secrets". *)
isGrove(D) ==
  /\ IsFiniteSet(D) /\ D \subseteq Paths /\ <<>> \notin D
  /\ \A p \in D : /\ Len(p) > 1 => Front(p) \in D
                  /\ Last(p) > 1 => previous(p) \in D

holding(F, secrets) == \A p \in DOMAIN F : isNode(F[p]) /\ F[p].secret \in secrets
isForestOf(F, secrets) == isForest(F) /\ holding(F, secrets)

LEMMA ForestFromGrove ==
  ASSUME NEW F, NEW D, isGrove(D), F = [p \in D |-> F[p]], NEW secrets, holding(F, secrets)
  PROVE  isForestOf(F, secrets)
<1>1. DOMAIN F = D
  OBVIOUS
<1>2. \A p \in D : p \in Paths \ {<<>>}
  BY DEF isGrove
<1> QED
  BY <1>1, <1>2 DEF isGrove, holding, isForest, isForestOf, Paths

LEMMA GroveOfForest ==
  ASSUME NEW F, isForest(F)
  PROVE  isGrove(DOMAIN F)
BY ForestIs DEF isGrove

LEMMA DocumentIs ==
  ASSUME NEW F
  PROVE  isDocument(F) <=> \E S : isForestOf(F, S) /\ \A s \in S : isForest(s)
<1>1. ASSUME isDocument(F)
      PROVE  \E S : isForestOf(F, S) /\ \A s \in S : isForest(s)
  <2> DEFINE S == {F[p].secret : p \in DOMAIN F}
  <2>1. isForest(F) /\ \A s \in S : isForest(s)
    BY <1>1 DEF isDocument
  <2>2. holding(F, S)
    BY <2>1, ForestIs DEF holding
  <2> QED
    BY <2>1, <2>2 DEF isForestOf
<1>2. ASSUME NEW S, isForestOf(F, S), \A s \in S : isForest(s)
      PROVE  isDocument(F)
  BY <1>2 DEF isDocument, isForestOf, holding
<1> QED
  BY <1>1, <1>2

LEMMA NodeIs ==
  ASSUME NEW n, isNode(n)
  PROVE  /\ n = [id |-> n.id, says |-> n.says, constructed |-> n.constructed,
                 encapsulates |-> n.encapsulates, expanded |-> n.expanded, cipher |-> n.cipher,
                 secret |-> n.secret]
         /\ n.id \in Nat /\ n.says \in Seq(Letters) /\ n.constructed \in BOOLEAN
         /\ n.encapsulates \in BOOLEAN /\ n.expanded \in BOOLEAN
         /\ n.cipher \in {"none", "pkcs8", "pkcs12", "cms"}
BY DEF isNode

LEMMA FoldedNode ==
  ASSUME NEW n, isNode(n), NEW b \in BOOLEAN
  PROVE  /\ isNode([n EXCEPT !.expanded = b])
         /\ [n EXCEPT !.expanded = b].secret = n.secret
         /\ [n EXCEPT !.expanded = b].cipher = n.cipher
         /\ [n EXCEPT !.expanded = b].expanded = b
BY DEF isNode

LEMMA PutIs ==
  ASSUME NEW S, NEW F, isForestOf(F, S), NEW path \in DOMAIN F, NEW n, isNode(n), n.secret \in S
  PROVE  /\ isForestOf(put(F, path, n), S) /\ DOMAIN put(F, path, n) = DOMAIN F
         /\ put(F, path, n) = [p \in DOMAIN F |-> IF p = path THEN n ELSE F[p]]
<1> DEFINE G == put(F, path, n)
<1>1. F = [p \in DOMAIN F |-> F[p]]
  BY ForestIs DEF isForestOf
<1>2. G = [p \in DOMAIN F |-> IF p = path THEN n ELSE F[p]]
  BY <1>1 DEF put
<1>3. G = [p \in DOMAIN F |-> G[p]] /\ \A p \in DOMAIN F : G[p] = IF p = path THEN n ELSE F[p]
  BY <1>2
<1>4. isGrove(DOMAIN F) /\ DOMAIN G = DOMAIN F
  BY <1>2, GroveOfForest DEF isForestOf
<1> HIDE DEF G
<1>5. holding(G, S)
  BY <1>3, <1>4 DEF holding, isForestOf
<1>6. isForestOf(G, S)
  BY <1>3, <1>4, <1>5, ForestFromGrove
<1> QED
  BY <1>2, <1>4, <1>6 DEF G

LEMMA ParsedIs ==
  ASSUME NEW S, NEW F, isForestOf(F, S)
  PROVE  /\ isForestOf(parsed(F), S) /\ DOMAIN parsed(F) \subseteq DOMAIN F
<1> DEFINE G == parsed(F)
           D == {p \in DOMAIN F : \A n \in 1 .. Len(p) - 1 : stillWhole(F, SubSeq(p, 1, n))}
<1>1. /\ IsFiniteSet(DOMAIN F) /\ DOMAIN F \subseteq Paths /\ <<>> \notin DOMAIN F
      /\ \A p \in DOMAIN F :
           /\ p \in Paths /\ p # <<>> /\ isNode(F[p]) /\ F[p].secret \in S
           /\ Len(p) > 1 => Front(p) \in DOMAIN F
           /\ Last(p) > 1 => previous(p) \in DOMAIN F
  BY ForestIs DEF isForestOf, holding
<1>2. ASSUME NEW p \in D, Len(p) > 1
      PROVE  Front(p) \in D
  <2>1. Front(p) \in DOMAIN F /\ p \in Paths /\ p # <<>>
    BY <1>1, <1>2
  <2>2. Len(p) \in Nat /\ Len(Front(p)) = Len(p) - 1
    BY <2>1, PathIs, FrontIs
  <2>3. ASSUME NEW n \in 1 .. Len(Front(p)) - 1
        PROVE  stillWhole(F, SubSeq(Front(p), 1, n))
    <3>1. n \in Nat /\ Len(p) - 1 \in 0 .. Len(p) /\ n <= Len(p) - 1 /\ n \in 1 .. Len(p) - 1
      BY <1>2, <2>2
    <3>2. SubSeq(SubSeq(p, 1, Len(p) - 1), 1, n) = SubSeq(p, 1, n)
      BY <2>1, <3>1, HeadOfHead
    <3>3. stillWhole(F, SubSeq(p, 1, n))
      BY <3>1
    <3> QED
      BY <3>2, <3>3 DEF Front
  <2> QED
    BY <2>1, <2>3
<1>3. ASSUME NEW p \in D, Last(p) > 1
      PROVE  previous(p) \in D
  <2> DEFINE q == previous(p)
  <2>1. q \in DOMAIN F /\ p \in Paths /\ p # <<>> /\ q \in Paths
    BY <1>1, <1>3
  <2>2. Front(q) = Front(p) /\ q # <<>>
    BY <1>3, <2>1, PreviousOf
  <2>a. Len(p) \in Nat /\ Len(p) > 0 /\ Len(q) \in Nat
    BY <2>1, PathIs
  <2> HIDE DEF q
  <2>3. Len(q) = Len(p)
    <3>1. Len(Front(p)) = Len(p) - 1 /\ Len(Front(q)) = Len(q) - 1
      BY <2>1, <2>2, FrontIs
    <3> QED
      BY <2>2, <2>a, <3>1
  <2>4. ASSUME NEW n \in 1 .. Len(q) - 1
        PROVE  stillWhole(F, SubSeq(q, 1, n))
    <3>1. n \in Nat /\ Len(p) - 1 \in 0 .. Len(p) /\ n <= Len(p) - 1 /\ n \in 1 .. Len(p) - 1
      BY <2>3, <2>a
    <3>2. SubSeq(SubSeq(p, 1, Len(p) - 1), 1, n) = SubSeq(p, 1, n)
      BY <2>1, <3>1, HeadOfHead
    <3>3. SubSeq(SubSeq(q, 1, Len(q) - 1), 1, n) = SubSeq(q, 1, n)
      BY <2>1, <2>3, <3>1, HeadOfHead
    <3>4. SubSeq(q, 1, n) = SubSeq(p, 1, n)
      BY <2>2, <3>2, <3>3 DEF Front
    <3> QED
      BY <3>1, <3>4
  <2> QED
    BY <2>1, <2>4 DEF q
<1>4. isGrove(D)
  <2>1. IsFiniteSet(D)
    BY <1>1, FS_Subset
  <2> QED
    BY <1>1, <1>2, <1>3, <2>1 DEF isGrove
<1>5. G = [p \in D |-> [F[p] EXCEPT !.encapsulates = F[p].encapsulates /\ stillWhole(F, p),
                                    !.expanded = TRUE]]
  <2>1. \A p \in D : [F[p] EXCEPT !.encapsulates = @ /\ stillWhole(F, p), !.expanded = TRUE]
                      = [F[p] EXCEPT !.encapsulates = F[p].encapsulates /\ stillWhole(F, p), !.expanded = TRUE]
    OBVIOUS
  <2> QED
    BY <2>1 DEF parsed
<1>6. \A p \in D : isNode(G[p]) /\ G[p].secret \in S
  <2> TAKE p \in D
  <2>1. isNode(F[p]) /\ F[p].secret \in S
    BY <1>1
  <2>2. (F[p].encapsulates /\ stillWhole(F, p)) \in BOOLEAN
    OBVIOUS
  <2> DEFINE e == F[p].encapsulates /\ stillWhole(F, p)
             n == F[p]
  <2>3. G[p] = [n EXCEPT !.encapsulates = e, !.expanded = TRUE]
    BY <1>5
  <2> HIDE DEF e, n, G
  <2>4. e \in BOOLEAN /\ isNode(n) /\ n.secret \in S
    BY <2>1, <2>2 DEF e, n
  <2>5. isNode([n EXCEPT !.encapsulates = e, !.expanded = TRUE])
        /\ [n EXCEPT !.encapsulates = e, !.expanded = TRUE].secret = n.secret
    BY <2>4 DEF isNode
  <2> QED
    BY <2>3, <2>4, <2>5
<1>7. G = [p \in D |-> G[p]] /\ DOMAIN G = D
  BY <1>5
<1>9. D \subseteq DOMAIN F
  OBVIOUS
<1> HIDE DEF G, D
<1>10. holding(G, S)
  BY <1>6, <1>7 DEF holding
<1>11. isForestOf(G, S)
  BY <1>4, <1>7, <1>10, ForestFromGrove
<1>12. DOMAIN G \subseteq DOMAIN F
  BY <1>7, <1>9
<1> QED
  BY <1>11, <1>12 DEF G

LEMMA CopyExpandedIs ==
  ASSUME NEW S, NEW F, isForestOf(F, S), NEW old, isForest(old)
  PROVE  /\ isForestOf(copyExpanded(old, F), S) /\ DOMAIN copyExpanded(old, F) = DOMAIN F
         /\ \A p \in DOMAIN F :
              copyExpanded(old, F)[p]
                = IF p \in DOMAIN old THEN [F[p] EXCEPT !.expanded = old[p].expanded] ELSE F[p]
<1> DEFINE G == copyExpanded(old, F)
<1>1. /\ G = [p \in DOMAIN F |-> G[p]] /\ DOMAIN G = DOMAIN F
      /\ \A p \in DOMAIN F : G[p] = IF p \in DOMAIN old
                                    THEN [F[p] EXCEPT !.expanded = old[p].expanded] ELSE F[p]
  BY DEF copyExpanded
<1>2. isGrove(DOMAIN F)
  BY GroveOfForest DEF isForestOf
<1> HIDE DEF G
<1>3. holding(G, S)
  <2> SUFFICES ASSUME NEW p \in DOMAIN F
               PROVE  isNode(G[p]) /\ G[p].secret \in S
    BY <1>1 DEF holding
  <2>1. isNode(F[p]) /\ F[p].secret \in S
    BY DEF isForestOf, holding
  <2>2. CASE p \in DOMAIN old
    <3>1. old[p].expanded \in BOOLEAN
      BY <2>2, ForestIs, NodeIs
    <3> DEFINE b == old[p].expanded
               n == F[p]
    <3>2. G[p] = [n EXCEPT !.expanded = b] /\ b \in BOOLEAN /\ isNode(n) /\ n.secret \in S
      BY <1>1, <2>1, <2>2, <3>1
    <3> HIDE DEF b, n
    <3>3. isNode([n EXCEPT !.expanded = b]) /\ [n EXCEPT !.expanded = b].secret = n.secret
      BY <3>2, FoldedNode
    <3> QED
      BY <3>2, <3>3
  <2>3. CASE p \notin DOMAIN old
    BY <1>1, <2>1, <2>3
  <2> QED
    BY <2>2, <2>3
<1>4. isForestOf(G, S)
  BY <1>1, <1>2, <1>3, ForestFromGrove
<1> QED
  BY <1>1, <1>4 DEF G

LEMMA ReparsedIs ==
  ASSUME NEW S, NEW F, isForestOf(F, S)
  PROVE  isForestOf(reparsed(F), S)
<1>1. isForestOf(parsed(F), S) /\ isForest(F)
  BY ParsedIs DEF isForestOf
<1> QED
  BY <1>1, CopyExpandedIs DEF reparsed

-----------------------------------------------------------------------------
(* Encoding and parsing again keeps every node that is not cut off, with   *)
(* its fold, and leaves nothing to cut off.                                *)
LEMMA SameWhole ==
  ASSUME NEW F, NEW G, DOMAIN F = DOMAIN G,
         \A p \in DOMAIN F : G[p].encapsulates = F[p].encapsulates, isWhole(F)
  PROVE  isWhole(G)
<1>1. \A p : arity(F, p) = arity(G, p)
  BY DEF arity
<1> QED
  BY <1>1 DEF isWhole, stillWhole

LEMMA WholeParsed ==
  ASSUME NEW F, isForest(F), isWhole(F)
  PROVE  DOMAIN parsed(F) = DOMAIN F
<1>1. ASSUME NEW p \in DOMAIN F, NEW n \in 1 .. Len(p) - 1
      PROVE  SubSeq(p, 1, n) \in DOMAIN F
  <2>1. p \in Paths /\ Len(p) \in Nat
    BY ForestIs, PathIs
  <2>2. n \in 0 .. Len(p) /\ n > 0
    BY <2>1
  <2>3. SubSeq(p, 1, n) \in Paths /\ Len(SubSeq(p, 1, n)) = n /\ IsPrefix(SubSeq(p, 1, n), p)
    BY <2>1, <2>2, HeadIs, HeadIsPrefix
  <2>4. SubSeq(p, 1, n) # <<>>
    BY <2>2, <2>3, PathIs
  <2> QED
    BY <2>3, <2>4, Enclosing
<1>2. \A p \in DOMAIN F : \A n \in 1 .. Len(p) - 1 : stillWhole(F, SubSeq(p, 1, n))
  BY <1>1 DEF isWhole
<1>3. DOMAIN parsed(F)
        = {p \in DOMAIN F : \A n \in 1 .. Len(p) - 1 : stillWhole(F, SubSeq(p, 1, n))}
  BY DEF parsed
<1> QED
  BY <1>2, <1>3

LEMMA ReparsedNodes ==
  ASSUME NEW S, NEW F, isForestOf(F, S)
  PROVE  /\ DOMAIN reparsed(F) = DOMAIN parsed(F) /\ DOMAIN reparsed(F) \subseteq DOMAIN F
         /\ \A p \in DOMAIN reparsed(F) :
              /\ reparsed(F)[p].id = F[p].id /\ reparsed(F)[p].says = F[p].says
              /\ reparsed(F)[p].constructed = F[p].constructed
              /\ reparsed(F)[p].cipher = F[p].cipher /\ reparsed(F)[p].secret = F[p].secret
              /\ reparsed(F)[p].expanded = F[p].expanded
              /\ reparsed(F)[p].encapsulates = (F[p].encapsulates /\ stillWhole(F, p))
<1> DEFINE P == parsed(F)
           G == reparsed(F)
<1>1. isForestOf(P, S) /\ isForest(F) /\ DOMAIN P \subseteq DOMAIN F
      /\ \A p \in DOMAIN P :
           P[p] = [F[p] EXCEPT !.encapsulates = F[p].encapsulates /\ stillWhole(F, p),
                               !.expanded = TRUE]
  <2>1. isForestOf(P, S) /\ DOMAIN P \subseteq DOMAIN F
    BY ParsedIs
  <2>2. \A p \in DOMAIN P :
           P[p] = [F[p] EXCEPT !.encapsulates = F[p].encapsulates /\ stillWhole(F, p),
                               !.expanded = TRUE]
    BY ONLY DEF parsed
  <2>3. isForest(F)
    BY DEF isForestOf
  <2> HIDE DEF P
  <2> QED
    BY <2>1, <2>2, <2>3
<1>2. \A p \in DOMAIN F : isNode(F[p])
  BY DEF isForestOf, holding
<1> HIDE DEF P
<1>3. DOMAIN G = DOMAIN P
      /\ \A p \in DOMAIN P :
           G[p] = IF p \in DOMAIN F THEN [P[p] EXCEPT !.expanded = F[p].expanded] ELSE P[p]
  BY <1>1, CopyExpandedIs DEF reparsed, P
<1> HIDE DEF G
<1>4. ASSUME NEW p \in DOMAIN G
      PROVE  /\ G[p].id = F[p].id /\ G[p].says = F[p].says
             /\ G[p].constructed = F[p].constructed
             /\ G[p].cipher = F[p].cipher /\ G[p].secret = F[p].secret
             /\ G[p].expanded = F[p].expanded
             /\ G[p].encapsulates = (F[p].encapsulates /\ stillWhole(F, p))
  <2> DEFINE n == F[p]
             e == F[p].encapsulates /\ stillWhole(F, p)
             x == F[p].expanded
  <2>1. p \in DOMAIN P /\ p \in DOMAIN F /\ isNode(n)
    BY <1>1, <1>2, <1>3, <1>4
  <2>2. G[p] = [[n EXCEPT !.encapsulates = e, !.expanded = TRUE] EXCEPT !.expanded = x]
    BY <1>1, <1>3, <2>1
  <2> HIDE DEF n, e, x
  <2>3. n = [id |-> n.id, says |-> n.says, constructed |-> n.constructed,
             encapsulates |-> n.encapsulates, expanded |-> n.expanded, cipher |-> n.cipher,
             secret |-> n.secret]
    BY <2>1, NodeIs
  <2>4. G[p] = [id |-> n.id, says |-> n.says, constructed |-> n.constructed,
                encapsulates |-> e, expanded |-> x, cipher |-> n.cipher, secret |-> n.secret]
    BY <2>2, <2>3
  <2>5. /\ G[p].id = n.id /\ G[p].says = n.says /\ G[p].constructed = n.constructed
        /\ G[p].cipher = n.cipher /\ G[p].secret = n.secret
        /\ G[p].expanded = x /\ G[p].encapsulates = e
    BY <2>4
  <2> QED
    BY <2>5 DEF n, e, x
<1> QED
  BY <1>1, <1>3, <1>4 DEF P, G

LEMMA ReparsedIsWhole ==
  ASSUME NEW S, NEW F, isForestOf(F, S)
  PROVE  isWhole(reparsed(F))
<1> DEFINE G == reparsed(F)
<1>1. /\ DOMAIN G = {p \in DOMAIN F : \A n \in 1 .. Len(p) - 1 : stillWhole(F, SubSeq(p, 1, n))}
      /\ \A p \in DOMAIN G : G[p].encapsulates = (F[p].encapsulates /\ stillWhole(F, p))
  <2>1. /\ DOMAIN G = DOMAIN parsed(F)
        /\ \A p \in DOMAIN G : G[p].encapsulates = (F[p].encapsulates /\ stillWhole(F, p))
    BY ReparsedNodes
  <2>2. DOMAIN parsed(F)
          = {p \in DOMAIN F : \A n \in 1 .. Len(p) - 1 : stillWhole(F, SubSeq(p, 1, n))}
    BY DEF parsed
  <2> HIDE DEF G
  <2> QED
    BY <2>1, <2>2
<1> HIDE DEF G
<1>2. ASSUME NEW p \in DOMAIN G, stillWhole(F, p)
      PROVE  {q \in DOMAIN G : Front(q) = p} = {q \in DOMAIN F : Front(q) = p}
  <2>1. ASSUME NEW q \in DOMAIN F, Front(q) = p
        PROVE  q \in DOMAIN G
    <3>1. q \in Paths /\ q # <<>> /\ p \in Paths /\ Len(p) \in Nat
      BY <1>1, ForestIs, PathIs DEF isForestOf
    <3>2. Len(q) \in Nat /\ Len(p) = Len(q) - 1
      BY <2>1, <3>1, PathIs, FrontIs
    <3>3. ASSUME NEW n \in 1 .. Len(q) - 1
          PROVE  stillWhole(F, SubSeq(q, 1, n))
      <4>1. n \in Nat /\ Len(q) - 1 \in 0 .. Len(q) /\ n <= Len(q) - 1
            /\ (n \in 1 .. Len(p) - 1 \/ n = Len(q) - 1)
        BY <3>2
      <4>2. CASE n = Len(q) - 1
        BY <1>2, <2>1, <4>2 DEF Front
      <4>3. CASE n \in 1 .. Len(p) - 1
        <5>1. SubSeq(SubSeq(q, 1, Len(q) - 1), 1, n) = SubSeq(q, 1, n)
          BY <3>1, <4>1, HeadOfHead
        <5>2. SubSeq(p, 1, n) = SubSeq(q, 1, n)
          BY <2>1, <5>1 DEF Front
        <5> QED
          BY <1>1, <4>3, <5>2
      <4> QED
        BY <4>1, <4>2, <4>3
    <3> QED
      BY <1>1, <3>3
  <2> QED
    BY <1>1, <2>1
<1>3. ASSUME NEW p \in DOMAIN G
      PROVE  stillWhole(G, p)
  <2>1. CASE stillWhole(F, p)
    BY <1>1, <1>2, <2>1 DEF stillWhole, arity
  <2>2. CASE ~stillWhole(F, p)
    BY <1>1, <2>2 DEF stillWhole
  <2> QED
    BY <2>1, <2>2
<1> QED
  BY <1>3 DEF isWhole, G

-----------------------------------------------------------------------------
(* Trees of siblings.                                                      *)
isTree(t, S) ==
  /\ t = [p \in DOMAIN t |-> t[p]]
  /\ IsFiniteSet(DOMAIN t) /\ DOMAIN t \subseteq Paths /\ <<>> \in DOMAIN t
  /\ \A p \in DOMAIN t : p # <<>> => /\ Front(p) \in DOMAIN t
                                     /\ Last(p) > 1 => previous(p) \in DOMAIN t
  /\ holding(t, S)

areTrees(trees, S) ==
  /\ \E n \in Nat : trees \in [1 .. n -> Range(trees)]
  /\ \A i \in DOMAIN trees : isTree(trees[i], S)

LEMMA LeafIsTree ==
  ASSUME NEW S, NEW n, isNode(n), n.secret \in S
  PROVE  isTree(leaf(n), S)
<1>1. leaf(n) = [p \in {<<>>} |-> n]
  BY DEF leaf
<1>2. IsFiniteSet({<<>>}) /\ {<<>>} \subseteq Paths
  BY EmptyIsAPath, FS_Singleton
<1> QED
  BY <1>1, <1>2 DEF isTree, holding

LEMMA TreeIs ==
  ASSUME NEW S, NEW F, isForestOf(F, S), NEW a \in DOMAIN F
  PROVE  /\ isTree(tree(F, a), S)
         /\ \A z : z \in DOMAIN tree(F, a) <=> z \in Paths /\ a \o z \in DOMAIN F
         /\ \A z \in DOMAIN tree(F, a) : tree(F, a)[z] = F[a \o z]
<1> DEFINE t == tree(F, a)
           U == {q \in DOMAIN F : IsPrefix(a, q)}
           D == {rest(a, q) : q \in U}
<1>1. /\ IsFiniteSet(DOMAIN F) /\ DOMAIN F \subseteq Paths
      /\ \A p \in DOMAIN F :
           /\ p \in Paths /\ p # <<>> /\ isNode(F[p]) /\ F[p].secret \in S
           /\ Len(p) > 1 => Front(p) \in DOMAIN F
           /\ Last(p) > 1 => previous(p) \in DOMAIN F
  BY ForestIs DEF isForestOf, holding
<1>2. t = [z \in D |-> F[a \o z]]
  BY DEF tree, rest
<1>3. ASSUME NEW z
      PROVE  z \in D <=> z \in Paths /\ a \o z \in DOMAIN F
  <2>1. ASSUME z \in D
        PROVE  z \in Paths /\ a \o z \in DOMAIN F
    <3>1. PICK q \in U : z = rest(a, q)
      BY <2>1
    <3> QED
      BY <1>1, <3>1, RestIs
  <2>2. ASSUME z \in Paths, a \o z \in DOMAIN F
        PROVE  z \in D
    <3>1. rest(a, a \o z) = z /\ IsPrefix(a, a \o z)
      BY <1>1, <2>2, RestOfJoined, JoinedIs
    <3> QED
      BY <2>2, <3>1
  <2> QED
    BY <2>1, <2>2
<1>4. IsFiniteSet(D)
  <2> DEFINE f == [z \in D |-> a \o z]
  <2>1. f \in [D -> DOMAIN F]
    BY <1>3
  <2>2. \A y, z \in D : f[y] = f[z] => y = z
    BY <1>1, <1>3, JoinsApart
  <2> HIDE DEF f, D
  <2>3. f \in Injection(D, DOMAIN F)
    BY <2>1, <2>2 DEF Injection, IsInjective
  <2> QED
    BY <1>1, <2>3, FS_Injection
<1>5. t = [z \in D |-> t[z]] /\ DOMAIN t = D /\ \A z \in D : t[z] = F[a \o z]
  BY <1>2
<1> HIDE DEF t, D
<1>6. <<>> \in D
  BY <1>1, <1>3, JoinedNothing, EmptyIsAPath
<1>7. ASSUME NEW z \in D, z # <<>>
      PROVE  Front(z) \in D /\ (Last(z) > 1 => previous(z) \in D)
  <2>1. z \in Paths /\ a \in Paths /\ a \o z \in DOMAIN F /\ a # <<>>
    BY <1>1, <1>3
  <2>2. Front(a \o z) = a \o Front(z) /\ Last(a \o z) = Last(z) /\ Front(z) \in Paths
    BY <1>7, <2>1, JoinedFront, FrontIs
  <2>3. Len(a \o z) > 1
    <3>1. Len(a \o z) = Len(a) + Len(z) /\ Len(a) \in Nat /\ Len(z) \in Nat /\ Len(a) > 0 /\ Len(z) > 0
      BY <1>7, <2>1, JoinedIs, PathIs
    <3> QED
      BY <3>1
  <2>4. Front(z) \in D
    BY <1>1, <1>3, <2>1, <2>2, <2>3
  <2>5. ASSUME Last(z) > 1
        PROVE  previous(z) \in D
    <3>1. previous(a \o z) \in DOMAIN F
      BY <1>1, <2>1, <2>2, <2>5
    <3>2. a \o previous(z) = previous(a \o z) /\ previous(z) \in Paths
      BY <1>7, <2>1, <2>5, JoinedPrevious, PreviousOf
    <3> QED
      BY <1>3, <3>1, <3>2
  <2> QED
    BY <2>4, <2>5
<1>8. holding(t, S)
  <2>1. \A z \in D : a \o z \in DOMAIN F
    BY <1>3
  <2> QED
    BY <1>1, <1>5, <2>1 DEF holding
<1>9. D \subseteq Paths
  BY <1>3
<1>10. isTree(t, S)
  BY <1>4, <1>5, <1>6, <1>7, <1>8, <1>9 DEF isTree
<1> QED
  BY <1>3, <1>5, <1>10 DEF t

LEMMA SiblingsAre ==
  ASSUME NEW S, NEW F, isForestOf(F, S), NEW parent \in Paths
  PROVE  /\ areTrees(siblings(F, parent), S)
         /\ DOMAIN siblings(F, parent) = 1 .. arity(F, parent)
         /\ arity(F, parent) \in Nat
         /\ \A i \in 1 .. arity(F, parent) :
              /\ Append(parent, i) \in DOMAIN F
              /\ siblings(F, parent)[i] = tree(F, Append(parent, i))
<1> DEFINE n == arity(F, parent)
           s == siblings(F, parent)
<1>1. n \in Nat /\ \A i \in 1 .. n : Append(parent, i) \in DOMAIN F
  <2>1. isForest(F) /\ n \in Nat
    BY ChildrenAre DEF isForestOf
  <2>2. \A i \in 1 .. n : i \in Steps
    BY DEF Steps
  <2> QED
    BY <2>1, <2>2, ChildrenAre
<1>2. s = [i \in 1 .. n |-> tree(F, Append(parent, i))]
  BY DEF siblings
<1>3. \A i \in 1 .. n : s[i] = tree(F, Append(parent, i)) /\ isTree(s[i], S)
  BY <1>1, <1>2, TreeIs
<1>4. s \in [1 .. n -> Range(s)] /\ DOMAIN s = 1 .. n
  BY <1>2 DEF Range
<1> QED
  BY <1>1, <1>3, <1>4 DEF areTrees

LEMMA PutSiblingsIs ==
  ASSUME NEW S, NEW F, isForestOf(F, S), NEW parent \in Paths,
         parent = <<>> \/ parent \in DOMAIN F,
         NEW trees, areTrees(trees, S)
  PROVE  LET G == putSiblings(F, parent, trees)
         IN /\ isForestOf(G, S)
            /\ \A q \in DOMAIN F : ~IsStrictPrefix(parent, q) => q \in DOMAIN G /\ G[q] = F[q]
            /\ \A i \in DOMAIN trees : i \in Steps
            /\ \A i \in DOMAIN trees : \A z \in DOMAIN trees[i] :
                 z \in Paths /\ Append(parent, i) \o z \in DOMAIN G
                 /\ G[Append(parent, i) \o z] = trees[i][z]
            /\ \A q \in DOMAIN G : \/ q \in DOMAIN F /\ ~IsStrictPrefix(parent, q)
                                   \/ \E i \in DOMAIN trees : \E z \in DOMAIN trees[i] :
                                        q = Append(parent, i) \o z
<1> DEFINE G == putSiblings(F, parent, trees)
           K == {q \in DOMAIN F : ~IsStrictPrefix(parent, q)}
           part(i) == {Append(parent, i) \o q : q \in DOMAIN trees[i]}
           B == UNION {part(i) : i \in DOMAIN trees}
<1>1. /\ IsFiniteSet(DOMAIN F) /\ DOMAIN F \subseteq Paths
      /\ \A p \in DOMAIN F :
           /\ p \in Paths /\ p # <<>> /\ isNode(F[p]) /\ F[p].secret \in S
           /\ Len(p) > 1 => Front(p) \in DOMAIN F
           /\ Last(p) > 1 => previous(p) \in DOMAIN F
  BY ForestIs DEF isForestOf, holding
<1>2. PICK n \in Nat : trees \in [1 .. n -> Range(trees)]
  BY DEF areTrees
<1>3. DOMAIN trees = 1 .. n /\ \A i \in 1 .. n : i \in Steps /\ isTree(trees[i], S)
  BY <1>2 DEF areTrees, Steps
<1>4. ASSUME NEW i \in 1 .. n
      PROVE  /\ Append(parent, i) \in Paths /\ Append(parent, i) # <<>>
             /\ parent \o <<i>> = Append(parent, i)
             /\ Len(Append(parent, i)) = Len(parent) + 1
             /\ Append(parent, i)[Len(parent) + 1] = i
             /\ Front(Append(parent, i)) = parent /\ Last(Append(parent, i)) = i
  <2>1. i \in Steps
    BY <1>3
  <2> QED
    BY <2>1, ChildIs, ChildJoins
<1>5. G = [p \in K \cup B |->
             IF IsStrictPrefix(parent, p)
             THEN trees[p[Len(parent) + 1]][SubSeq(p, Len(parent) + 2, Len(p))]
             ELSE F[p]]
  <2>0. \A i \in DOMAIN trees : {parent \o <<i>> \o q : q \in DOMAIN trees[i]} = part(i)
    BY <1>3, <1>4
  <2> DEFINE own(i) == {parent \o <<i>> \o q : q \in DOMAIN trees[i]}
  <2>a. \A i \in DOMAIN trees : own(i) = part(i)
    BY <2>0
  <2> HIDE DEF part, own
  <2>b. UNION {own(i) : i \in DOMAIN trees} = UNION {part(i) : i \in DOMAIN trees}
    BY <2>a
  <2>1. UNION {{parent \o <<i>> \o q : q \in DOMAIN trees[i]} : i \in DOMAIN trees} = B
    BY <2>b DEF own
  <2> QED
    BY <2>1 DEF putSiblings
<1>6. ASSUME NEW i \in 1 .. n, NEW z \in DOMAIN trees[i]
      PROVE  /\ z \in Paths /\ Append(parent, i) \o z \in Paths
             /\ Append(parent, i) \o z # <<>>
             /\ IsStrictPrefix(parent, Append(parent, i) \o z)
             /\ (Append(parent, i) \o z)[Len(parent) + 1] = i
             /\ SubSeq(Append(parent, i) \o z, Len(parent) + 2, Len(Append(parent, i) \o z)) = z
  <2> DEFINE c == Append(parent, i)
             x == c \o z
  <2>1. /\ z \in Paths /\ c \in Paths /\ i \in Steps /\ Len(c) = Len(parent) + 1
        /\ c[Len(parent) + 1] = i /\ Len(parent) \in Nat
    BY <1>3, <1>4, PathIs DEF isTree
  <2> HIDE DEF c
  <2>2. x \in Paths /\ IsPrefix(c, x) /\ Len(x) = Len(c) + Len(z) /\ \A j \in 1 .. Len(c) : x[j] = c[j]
    BY <2>1, JoinedIs
  <2>3. rest(c, x) = z
    BY <2>1, RestOfJoined
  <2>4. SubSeq(x, Len(parent) + 2, Len(x)) = z
    <3>1. Len(c) + 1 = Len(parent) + 2
      BY <2>1
    <3> QED
      BY <2>3, <3>1 DEF rest
  <2> HIDE DEF x
  <2>5. x[Len(parent) + 1] = i
    <3>1. Len(parent) + 1 \in 1 .. Len(c)
      BY <2>1
    <3> QED
      BY <2>1, <2>2, <3>1
  <2>6. IsPrefix(parent, x) /\ Len(parent) < Len(x)
    <3>1. IsPrefix(Append(parent, i), x)
      BY <2>2 DEF c
    <3> QED
      BY <2>1, <2>2, <3>1, ChildExtends
  <2>7. x # parent /\ x # <<>>
    BY <2>1, <2>2, <2>6, PathIs
  <2>8. IsStrictPrefix(parent, x)
    BY <2>6, <2>7 DEF IsStrictPrefix
  <2> QED
    BY <2>1, <2>2, <2>4, <2>5, <2>7, <2>8 DEF x, c
<1>7. ASSUME NEW i \in 1 .. n
      PROVE  IsFiniteSet(part(i))
  <2> DEFINE T == DOMAIN trees[i]
             f == [z \in T |-> Append(parent, i) \o z]
  <2>1. IsFiniteSet(T)
    BY <1>3 DEF isTree
  <2>2. f \in Surjection(T, part(i))
    BY DEF Surjection
  <2> HIDE DEF f, T, part
  <2> QED
    BY <2>1, <2>2, FS_Surjection
<1>8. IsFiniteSet(K \cup B)
  <2> DEFINE P == {part(i) : i \in 1 .. n}
             f == [i \in 1 .. n |-> part(i)]
  <2> HIDE DEF part
  <2>1. f \in Surjection(1 .. n, P) /\ IsFiniteSet(1 .. n)
    BY FS_Interval DEF Surjection
  <2>2. \A X \in P : IsFiniteSet(X)
    BY <1>7
  <2>3. B = UNION P
    BY <1>3
  <2>4. IsFiniteSet(K)
    BY <1>1, FS_Subset
  <2> HIDE DEF f, P, K, B
  <2>5. IsFiniteSet(P)
    BY <2>1, FS_Surjection
  <2>6. IsFiniteSet(UNION P)
    BY <2>2, <2>5, FS_UNION
  <2> QED
    BY <2>3, <2>4, <2>6, FS_Union
<1>9. \A x : x \in B <=> \E i \in 1 .. n : \E z \in DOMAIN trees[i] : x = Append(parent, i) \o z
  <2>1. \A i, x : x \in part(i) <=> \E z \in DOMAIN trees[i] : x = Append(parent, i) \o z
    OBVIOUS
  <2> HIDE DEF part
  <2>2. \A x : x \in B <=> \E i \in 1 .. n : x \in part(i)
    BY <1>3
  <2> HIDE DEF B
  <2> QED
    BY <2>1, <2>2
<1>10. ASSUME NEW p \in K
       PROVE  /\ Len(p) > 1 => Front(p) \in K
              /\ Last(p) > 1 => previous(p) \in K
              /\ G[p] = F[p] /\ isNode(G[p]) /\ G[p].secret \in S
  <2>1. p \in DOMAIN F /\ p \in Paths /\ p # <<>> /\ ~IsStrictPrefix(parent, p)
    BY <1>1
  <2>2. Front(p) \in Paths /\ IsPrefix(Front(p), p) /\ Front(p) # p
    BY <2>1, FrontIs, FrontIsPrefix
  <2>3. ASSUME Len(p) > 1
        PROVE  Front(p) \in K
    <3>1. ASSUME IsStrictPrefix(parent, Front(p))
          PROVE  FALSE
      <4>1. IsPrefix(parent, p)
        BY <2>1, <2>2, <3>1, PrefixIsTransitive DEF IsStrictPrefix
      <4>2. Len(parent) < Len(Front(p)) /\ Len(Front(p)) < Len(p)
        BY <2>1, <2>2, <3>1, ShorterPrefix DEF IsStrictPrefix
      <4>3. parent # p
        BY <2>1, <2>2, <4>2, PathIs
      <4> QED
        BY <2>1, <4>1, <4>3 DEF IsStrictPrefix
    <3> QED
      BY <1>1, <2>1, <2>3, <3>1
  <2>4. ASSUME Last(p) > 1
        PROVE  previous(p) \in K
    <3> DEFINE q == previous(p)
    <3>1. q \in DOMAIN F /\ q \in Paths /\ q # <<>> /\ Front(q) = Front(p)
      BY <1>1, <2>1, <2>4, PreviousOf
    <3> HIDE DEF q
    <3>2. ASSUME IsStrictPrefix(parent, q)
          PROVE  FALSE
      <4>1. IsPrefix(parent, Front(p))
        BY <3>1, <3>2, TowardsChild DEF IsStrictPrefix
      <4>2. IsPrefix(parent, p) /\ Len(parent) <= Len(Front(p)) /\ Len(Front(p)) < Len(p)
        BY <2>1, <2>2, <4>1, PrefixIsTransitive, ShorterPrefix
      <4>3. parent # p
        BY <2>1, <2>2, <4>2, PathIs
      <4> QED
        BY <2>1, <4>2, <4>3 DEF IsStrictPrefix
    <3> QED
      BY <3>1, <3>2 DEF q
  <2>5. G[p] = F[p]
    BY <1>5, <2>1
  <2> QED
    BY <1>1, <2>1, <2>3, <2>4, <2>5
<1>11. ASSUME NEW i \in 1 .. n, NEW z \in DOMAIN trees[i], NEW x, x = Append(parent, i) \o z
       PROVE  /\ x \in B /\ x \in Paths /\ x # <<>>
              /\ Len(x) > 1 => Front(x) \in K \cup B
              /\ Last(x) > 1 => previous(x) \in K \cup B
              /\ G[x] = trees[i][z] /\ isNode(G[x]) /\ G[x].secret \in S
  <2> DEFINE c == Append(parent, i)
  <2>1. /\ z \in Paths /\ x \in Paths /\ x # <<>> /\ IsStrictPrefix(parent, x)
        /\ x[Len(parent) + 1] = i /\ SubSeq(x, Len(parent) + 2, Len(x)) = z
    BY <1>6, <1>11
  <2>2. x \in B
    BY <1>9, <1>11
  <2>3. G[x] = trees[i][z]
    BY <1>5, <2>1, <2>2
  <2>4. isTree(trees[i], S) /\ c \in Paths /\ Front(c) = parent /\ Last(c) = i /\ c # <<>>
        /\ Len(c) = Len(parent) + 1 /\ i \in Steps
    BY <1>3, <1>4
  <2>5. isNode(G[x]) /\ G[x].secret \in S
    BY <2>3, <2>4 DEF isTree, holding
  <2> HIDE DEF c, K, B, G, part
  <2>6. CASE z = <<>>
    <3>1. x = c
      BY <1>11, <2>4, <2>6, JoinedNothing DEF c
    <3>2. ASSUME Len(x) > 1
          PROVE  Front(x) \in K
      <4>1. Len(parent) > 0 /\ parent # <<>>
        BY <2>4, <3>1, <3>2, PathIs
      <4>2. parent \in DOMAIN F /\ ~IsStrictPrefix(parent, parent)
        BY <4>1 DEF IsStrictPrefix
      <4> QED
        BY <2>4, <3>1, <4>2 DEF K
    <3>3. ASSUME Last(x) > 1
          PROVE  previous(x) \in B
      <4>1. i - 1 \in 1 .. n /\ Last(c) > 1
        BY <2>4, <3>1, <3>3 DEF Steps
      <4>2. previous(c) = Append(parent, i - 1)
        BY <2>4, <4>1, PreviousOf
      <4>3. <<>> \in DOMAIN trees[i - 1] /\ Append(parent, i - 1) \in Paths
        BY <1>3, <1>4, <4>1 DEF isTree
      <4>4. Append(parent, i - 1) \o <<>> = Append(parent, i - 1)
        BY <4>3, JoinedNothing
      <4> QED
        BY <1>9, <3>1, <4>1, <4>2, <4>3, <4>4
    <3> QED
      BY <2>1, <2>2, <2>3, <2>5, <3>2, <3>3
  <2>7. CASE z # <<>>
    <3>1. Front(z) \in DOMAIN trees[i] /\ (Last(z) > 1 => previous(z) \in DOMAIN trees[i])
      BY <2>4, <2>7 DEF isTree
    <3>2. Front(x) = c \o Front(z) /\ Last(x) = Last(z)
      BY <1>11, <2>1, <2>4, <2>7, JoinedFront DEF c
    <3>3. Front(x) \in B
      BY <1>9, <3>1, <3>2 DEF c
    <3>4. ASSUME Last(x) > 1
          PROVE  previous(x) \in B
      <4>1. c \o previous(z) = previous(x) /\ previous(z) \in DOMAIN trees[i]
        BY <1>11, <2>1, <2>4, <2>7, <3>1, <3>2, <3>4, JoinedPrevious DEF c
      <4> QED
        BY <1>9, <4>1 DEF c
    <3> QED
      BY <2>1, <2>2, <2>3, <2>5, <3>3, <3>4
  <2> QED
    BY <2>6, <2>7
<1>12. DOMAIN G = K \cup B /\ G = [p \in K \cup B |-> G[p]]
  BY <1>5
<1> HIDE DEF G, B
<1>13. isGrove(K \cup B)
  <2>1. K \cup B \subseteq Paths /\ <<>> \notin K \cup B
    BY <1>1, <1>9, <1>11
  <2>2. \A p \in K \cup B : /\ Len(p) > 1 => Front(p) \in K \cup B
                            /\ Last(p) > 1 => previous(p) \in K \cup B
    BY <1>9, <1>10, <1>11
  <2> QED
    BY <1>8, <2>1, <2>2 DEF isGrove
<1>14. holding(G, S)
  <2>1. \A q \in K : isNode(G[q]) /\ G[q].secret \in S
    BY <1>10
  <2>2. \A q \in B : isNode(G[q]) /\ G[q].secret \in S
    BY <1>9, <1>11
  <2> QED
    BY <1>12, <2>1, <2>2 DEF holding
<1>15. isForestOf(G, S)
  BY <1>12, <1>13, <1>14, ForestFromGrove
<1>16. \A q \in DOMAIN F : ~IsStrictPrefix(parent, q) => q \in DOMAIN G /\ G[q] = F[q]
  BY <1>10, <1>12
<1>17. \A i \in DOMAIN trees : \A z \in DOMAIN trees[i] :
         z \in Paths /\ Append(parent, i) \o z \in DOMAIN G /\ G[Append(parent, i) \o z] = trees[i][z]
  BY <1>3, <1>6, <1>11, <1>12
<1>18. \A q \in DOMAIN G : \/ q \in DOMAIN F /\ ~IsStrictPrefix(parent, q)
                           \/ \E i \in DOMAIN trees : \E z \in DOMAIN trees[i] :
                                q = Append(parent, i) \o z
  BY <1>3, <1>9, <1>12
<1> QED
  BY <1>3, <1>15, <1>16, <1>17, <1>18 DEF G

-----------------------------------------------------------------------------
(* Putting into a sequence, taking out of it and exchanging two elements.  *)
LEMMA PieceOf ==
  ASSUME NEW X, NEW s \in Seq(X), NEW m \in 1 .. Len(s) + 1, NEW n \in Nat, m <= n + 1, n <= Len(s)
  PROVE  /\ SubSeq(s, m, n) \in Seq(X) /\ Len(SubSeq(s, m, n)) = n - m + 1
         /\ \A i \in 1 .. n - m + 1 : SubSeq(s, m, n)[i] = s[m + i - 1]
<1>1. Len(s) \in Nat /\ DOMAIN s = 1 .. Len(s) /\ \A i \in 1 .. Len(s) : s[i] \in X
  BY LenProperties, EmptyList
<1>2. \A i \in m .. n : s[i] \in X
  BY <1>1
<1>3. m \in Int /\ n \in Int
  BY <1>1
<1>4. /\ SubSeq(s, m, n) \in Seq(X)
      /\ Len(SubSeq(s, m, n)) = IF m <= n THEN n - m + 1 ELSE 0
      /\ \A i \in 1 .. n - m + 1 : SubSeq(s, m, n)[i] = s[m + i - 1]
  BY <1>2, <1>3, SubSeqProperties
<1> QED
  BY <1>1, <1>4

LEMMA JoinOf ==
  ASSUME NEW X, NEW s \in Seq(X), NEW t \in Seq(X)
  PROVE  /\ s \o t \in Seq(X) /\ Len(s \o t) = Len(s) + Len(t)
         /\ \A i \in 1 .. Len(s) + Len(t) : (s \o t)[i] = IF i <= Len(s) THEN s[i] ELSE t[i - Len(s)]
BY ConcatProperties

LEMMA InsertAtIs ==
  ASSUME NEW X, NEW s \in Seq(X), NEW k \in 1 .. Len(s) + 1, NEW e \in X
  PROVE  /\ InsertAt(s, k, e) \in Seq(X) /\ Len(InsertAt(s, k, e)) = Len(s) + 1
         /\ \A i \in 1 .. Len(s) + 1 :
              InsertAt(s, k, e)[i] = IF i < k THEN s[i] ELSE IF i = k THEN e ELSE s[i - 1]
<1> DEFINE a == SubSeq(s, 1, k - 1)
           o == <<e>>
           b == SubSeq(s, k, Len(s))
           u == a \o o
           w == u \o b
<1>1. Len(s) \in Nat /\ k \in Nat /\ 1 <= k /\ k <= Len(s) + 1
  BY LenProperties
<1>a. /\ 1 \in 1 .. Len(s) + 1 /\ k - 1 \in Nat /\ 1 <= (k - 1) + 1 /\ k - 1 <= Len(s)
      /\ (k - 1) - 1 + 1 = k - 1
  BY <1>1
<1> DEFINE m == k - 1
<1>b. m \in Nat /\ 1 <= m + 1 /\ m <= Len(s) /\ m - 1 + 1 = m
  BY <1>a
<1>c. a = SubSeq(s, 1, m)
  OBVIOUS
<1> HIDE DEF m, a
<1>2. a \in Seq(X) /\ Len(a) = m - 1 + 1 /\ \A i \in 1 .. m - 1 + 1 : a[i] = s[1 + i - 1]
  BY <1>a, <1>b, <1>c, PieceOf
<1>3. a \in Seq(X) /\ Len(a) = m /\ \A i \in 1 .. m : a[i] = s[i]
  <2>1. \A i \in 1 .. m : 1 + i - 1 = i
    BY <1>b
  <2> QED
    BY <1>2, <1>b, <2>1
<1>4. b \in Seq(X) /\ Len(b) = Len(s) - k + 1 /\ \A i \in 1 .. Len(s) - k + 1 : b[i] = s[k + i - 1]
  BY <1>1, PieceOf
<1> HIDE DEF b
<1>5. o \in Seq(X) /\ Len(o) = 1 /\ o[1] = e
  OBVIOUS
<1> HIDE DEF o
<1>6. /\ u \in Seq(X) /\ Len(u) = Len(a) + Len(o)
      /\ \A i \in 1 .. Len(a) + Len(o) : u[i] = IF i <= Len(a) THEN a[i] ELSE o[i - Len(a)]
  BY <1>3, <1>5, JoinOf
<1> HIDE DEF u
<1>7. /\ w \in Seq(X) /\ Len(w) = Len(u) + Len(b)
      /\ \A i \in 1 .. Len(u) + Len(b) : w[i] = IF i <= Len(u) THEN u[i] ELSE b[i - Len(u)]
  <2>1. u \in Seq(X) /\ b \in Seq(X)
    BY <1>4, <1>6
  <2>2. /\ u \o b \in Seq(X) /\ Len(u \o b) = Len(u) + Len(b)
        /\ \A i \in 1 .. Len(u) + Len(b) : (u \o b)[i] = IF i <= Len(u) THEN u[i] ELSE b[i - Len(u)]
    BY ONLY <2>1, JoinOf
  <2> QED
    BY ONLY <2>2
<1> HIDE DEF w
<1>8. Len(a) = m /\ Len(o) = 1 /\ Len(u) = k /\ Len(b) = Len(s) - k + 1 /\ Len(w) = Len(s) + 1 /\ m = k - 1
  BY <1>1, <1>3, <1>4, <1>5, <1>6, <1>7 DEF m
<1>9. ASSUME NEW i \in 1 .. Len(s) + 1
      PROVE  w[i] = IF i < k THEN s[i] ELSE IF i = k THEN e ELSE s[i - 1]
  <2>1. i \in 1 .. Len(u) + Len(b)
    BY <1>1, <1>8
  <2>2. CASE i < k
    <3>1. i <= Len(u) /\ i \in 1 .. Len(a) + Len(o) /\ i <= Len(a) /\ i \in 1 .. m
      BY <1>1, <1>8, <2>2
    <3> QED
      BY <1>3, <1>6, <1>7, <2>1, <2>2, <3>1
  <2>3. CASE i = k
    <3>1. i <= Len(u) /\ i \in 1 .. Len(a) + Len(o) /\ ~(i <= Len(a)) /\ i - Len(a) = 1 /\ ~(i < k)
      BY <1>1, <1>8, <2>3
    <3> QED
      BY <1>5, <1>6, <1>7, <2>1, <2>3, <3>1
  <2>4. CASE i > k
    <3> DEFINE j == i - Len(u)
    <3>1. ~(i <= Len(u)) /\ j \in 1 .. Len(s) - k + 1 /\ k + j - 1 = i - 1 /\ ~(i < k) /\ i # k
      BY <1>1, <1>8, <2>4
    <3>2. w[i] = b[j]
      BY <1>7, <2>1, <3>1
    <3> HIDE DEF j
    <3>3. b[j] = s[k + j - 1]
      BY <1>4, <3>1
    <3> QED
      BY <3>1, <3>2, <3>3
  <2> QED
    BY <1>1, <2>2, <2>3, <2>4
<1>10. w = InsertAt(s, k, e)
  BY <1>c DEF w, u, o, b, m, a, InsertAt
<1> QED
  BY <1>7, <1>8, <1>9, <1>10

LEMMA RemoveAtIs ==
  ASSUME NEW X, NEW s \in Seq(X), NEW k \in 1 .. Len(s)
  PROVE  /\ RemoveAt(s, k) \in Seq(X) /\ Len(RemoveAt(s, k)) = Len(s) - 1
         /\ \A i \in 1 .. Len(s) - 1 : RemoveAt(s, k)[i] = IF i < k THEN s[i] ELSE s[i + 1]
<1> DEFINE m == k - 1
           l == k + 1
           a == SubSeq(s, 1, m)
           b == SubSeq(s, l, Len(s))
           w == a \o b
<1>1. Len(s) \in Nat /\ k \in Nat /\ 1 <= k /\ k <= Len(s)
  BY LenProperties
<1>2. /\ 1 \in 1 .. Len(s) + 1 /\ m \in Nat /\ 1 <= m + 1 /\ m <= Len(s) /\ m - 1 + 1 = m
      /\ l \in 1 .. Len(s) + 1 /\ l <= Len(s) + 1 /\ l = k + 1 /\ m = k - 1
  BY <1>1
<1>3. w = RemoveAt(s, k)
  BY DEF RemoveAt
<1> HIDE DEF m, l
<1>4. a \in Seq(X) /\ Len(a) = m - 1 + 1 /\ \A i \in 1 .. m - 1 + 1 : a[i] = s[1 + i - 1]
  BY <1>2, PieceOf
<1>5. /\ b \in Seq(X) /\ Len(b) = Len(s) - l + 1
      /\ \A i \in 1 .. Len(s) - l + 1 : b[i] = s[l + i - 1]
  BY <1>1, <1>2, PieceOf
<1> HIDE DEF a, b
<1>6. /\ w \in Seq(X) /\ Len(w) = Len(a) + Len(b)
      /\ \A i \in 1 .. Len(a) + Len(b) : w[i] = IF i <= Len(a) THEN a[i] ELSE b[i - Len(a)]
  BY <1>4, <1>5, JoinOf
<1> HIDE DEF w
<1>7. Len(a) = k - 1 /\ Len(b) = Len(s) - k /\ Len(w) = Len(s) - 1 /\ Len(s) - l + 1 = Len(s) - k
  BY <1>1, <1>2, <1>4, <1>5, <1>6
<1>8. ASSUME NEW i \in 1 .. Len(s) - 1
      PROVE  w[i] = IF i < k THEN s[i] ELSE s[i + 1]
  <2>1. i \in 1 .. Len(a) + Len(b)
    BY <1>1, <1>7
  <2>2. CASE i < k
    <3>1. i <= Len(a) /\ i \in 1 .. m - 1 + 1 /\ 1 + i - 1 = i
      BY <1>1, <1>2, <1>7, <2>2
    <3> QED
      BY <1>4, <1>6, <2>1, <2>2, <3>1
  <2>3. CASE ~(i < k)
    <3> DEFINE j == i - Len(a)
    <3>1. ~(i <= Len(a)) /\ j \in 1 .. Len(s) - l + 1 /\ l + j - 1 = i + 1
      BY <1>1, <1>2, <1>7, <2>3
    <3>2. w[i] = b[j]
      BY <1>6, <2>1, <3>1
    <3> HIDE DEF j
    <3>3. b[j] = s[l + j - 1]
      BY <1>5, <3>1
    <3> QED
      BY <2>3, <3>1, <3>2, <3>3
  <2> QED
    BY <2>2, <2>3
<1> QED
  BY <1>3, <1>6, <1>7, <1>8

LEMMA TreesAreASequence ==
  ASSUME NEW S, NEW s, areTrees(s, S)
  PROVE  /\ s \in Seq(Range(s)) /\ Len(s) \in Nat /\ DOMAIN s = 1 .. Len(s)
         /\ \A t \in Range(s) : isTree(t, S)
<1>1. PICK n \in Nat : s \in [1 .. n -> Range(s)]
  BY DEF areTrees
<1> DEFINE X == Range(s)
<1>2. s \in [1 .. n -> X]
  BY <1>1
<1> HIDE DEF X
<1>3. s \in Seq(X) /\ Len(s) = n
  BY <1>2, ListIs
<1>4. \A t \in Range(s) : isTree(t, S)
  BY DEF areTrees, Range
<1> QED
  BY <1>1, <1>3, <1>4 DEF X

LEMMA SequenceOfTrees ==
  ASSUME NEW S, NEW X, \A t \in X : isTree(t, S), NEW s \in Seq(X)
  PROVE  areTrees(s, S)
<1>1. Len(s) \in Nat /\ DOMAIN s = 1 .. Len(s) /\ s \in [1 .. Len(s) -> X]
  BY LenProperties
<1>2. \A i \in DOMAIN s : isTree(s[i], S)
  BY <1>1
<1>3. s \in [1 .. Len(s) -> Range(s)]
  BY <1>1 DEF Range
<1> QED
  BY <1>1, <1>2, <1>3 DEF areTrees

LEMMA TreesInserted ==
  ASSUME NEW S, NEW s, areTrees(s, S), NEW t, isTree(t, S), NEW k \in 1 .. Len(s) + 1
  PROVE  /\ areTrees(InsertAt(s, k, t), S) /\ DOMAIN InsertAt(s, k, t) = 1 .. Len(s) + 1
         /\ \A i \in 1 .. Len(s) + 1 :
              InsertAt(s, k, t)[i] = IF i < k THEN s[i] ELSE IF i = k THEN t ELSE s[i - 1]
<1> DEFINE X == Range(s) \cup {t}
           w == InsertAt(s, k, t)
<1>1. s \in Seq(Range(s)) /\ \A x \in X : isTree(x, S)
  BY TreesAreASequence
<1>2. s \in Seq(X) /\ t \in X
  BY <1>1
<1> HIDE DEF X
<1>a. k \in 1 .. Len(s) + 1
  OBVIOUS
<1>3. /\ w \in Seq(X) /\ Len(w) = Len(s) + 1
      /\ \A i \in 1 .. Len(s) + 1 : w[i] = IF i < k THEN s[i] ELSE IF i = k THEN t ELSE s[i - 1]
  <2>1. /\ InsertAt(s, k, t) \in Seq(X) /\ Len(InsertAt(s, k, t)) = Len(s) + 1
        /\ \A i \in 1 .. Len(s) + 1 :
             InsertAt(s, k, t)[i] = IF i < k THEN s[i] ELSE IF i = k THEN t ELSE s[i - 1]
    BY <1>2, <1>a, InsertAtIs
  <2> QED
    BY ONLY <2>1 DEF w
<1> HIDE DEF w
<1>4. areTrees(w, S) /\ DOMAIN w = 1 .. Len(w)
  BY <1>1, <1>3, SequenceOfTrees, LenProperties
<1>5. DOMAIN w = 1 .. Len(s) + 1
  BY <1>3, <1>4
<1> QED
  BY ONLY <1>3, <1>4, <1>5 DEF w

LEMMA TreesRemoved ==
  ASSUME NEW S, NEW s, areTrees(s, S), NEW k \in 1 .. Len(s)
  PROVE  /\ areTrees(RemoveAt(s, k), S) /\ DOMAIN RemoveAt(s, k) = 1 .. Len(s) - 1
         /\ \A i \in 1 .. Len(s) - 1 : RemoveAt(s, k)[i] = IF i < k THEN s[i] ELSE s[i + 1]
<1> DEFINE X == Range(s)
           w == RemoveAt(s, k)
<1>1. s \in Seq(X) /\ \A x \in X : isTree(x, S)
  BY TreesAreASequence
<1> HIDE DEF X
<1>3. /\ w \in Seq(X) /\ Len(w) = Len(s) - 1
      /\ \A i \in 1 .. Len(s) - 1 : w[i] = IF i < k THEN s[i] ELSE s[i + 1]
  BY <1>1, RemoveAtIs
<1> HIDE DEF w
<1>4. areTrees(w, S) /\ DOMAIN w = 1 .. Len(w)
  BY <1>1, <1>3, SequenceOfTrees, LenProperties
<1> QED
  BY <1>3, <1>4 DEF w

LEMMA TreesSwapped ==
  ASSUME NEW S, NEW s, areTrees(s, S), NEW j \in DOMAIN s, NEW k \in DOMAIN s
  PROVE  /\ areTrees([s EXCEPT ![j] = s[k], ![k] = s[j]], S)
         /\ DOMAIN [s EXCEPT ![j] = s[k], ![k] = s[j]] = DOMAIN s
         /\ \A i \in DOMAIN s : [s EXCEPT ![j] = s[k], ![k] = s[j]][i]
                                  = IF i = k THEN s[j] ELSE IF i = j THEN s[k] ELSE s[i]
<1> DEFINE w == [s EXCEPT ![j] = s[k], ![k] = s[j]]
<1>1. PICK n \in Nat : s \in [1 .. n -> Range(s)]
  BY DEF areTrees
<1>2. w \in [1 .. n -> Range(s)]
  BY <1>1
<1>3. \A i \in 1 .. n : w[i] = IF i = k THEN s[j] ELSE IF i = j THEN s[k] ELSE s[i]
  BY <1>1
<1>4. DOMAIN w = 1 .. n /\ w \in [1 .. n -> Range(w)]
  BY <1>2 DEF Range
<1> HIDE DEF w
<1>5. \A i \in 1 .. n : isTree(w[i], S)
  BY <1>1, <1>3 DEF areTrees
<1>6. areTrees(w, S)
  BY <1>4, <1>5 DEF areTrees
<1> QED
  BY <1>1, <1>3, <1>4, <1>6 DEF w

-----------------------------------------------------------------------------
(* Where the nodes of an edited forest were before: o[x] is the path that  *)
(* x had, or <<>> if x is the node "n" that was put at "path".             *)
comesFrom(F, G, o, path, n) ==
  /\ \A x \in DOMAIN G : o[x] = <<>> => x = path /\ G[x].id = n /\ G[x].secret = <<>>
  /\ \A x \in DOMAIN G : o[x] # <<>> =>
       /\ o[x] \in DOMAIN F /\ G[x].id = F[o[x]].id /\ G[x].secret = F[o[x]].secret
       /\ F[o[x]].expanded => G[x].expanded
  /\ \A x, y \in DOMAIN G : o[x] = o[y] => x = y
  /\ \A x, y \in DOMAIN G :
       IsPrefix(x, y) /\ x # y /\ o[y] # <<>>
         => o[x] # <<>> /\ IsPrefix(o[x], o[y]) /\ o[x] # o[y]

origin(parent, from, x) ==
  IF IsPrefix(parent, x) /\ x # parent
  THEN IF from[x[Len(parent) + 1]] = 0 THEN <<>>
       ELSE Append(parent, from[x[Len(parent) + 1]]) \o rest(Append(parent, x[Len(parent) + 1]), x)
  ELSE x

LEMMA BelowParent ==
  ASSUME NEW parent \in Paths, NEW i \in Steps, NEW z \in Paths
  PROVE  LET x == Append(parent, i) \o z
         IN /\ x \in Paths /\ x # <<>> /\ IsPrefix(parent, x) /\ x # parent
            /\ x[Len(parent) + 1] = i /\ rest(Append(parent, i), x) = z
            /\ Len(x) = Len(parent) + 1 + Len(z)
<1> DEFINE a == Append(parent, i)
           x == a \o z
           l == Len(parent)
<1>1. a \in Paths /\ Len(a) = l + 1 /\ a # <<>> /\ IsPrefix(a, a) /\ l \in Nat /\ Len(z) \in Nat
  BY ChildIs, PrefixIsReflexive, PathIs
<1>2. IsPrefix(parent, a) /\ l < Len(a) /\ a[l + 1] = i
  BY <1>1, ChildExtends
<1> HIDE DEF a
<1>3. /\ x \in Paths /\ Len(x) = Len(a) + Len(z) /\ IsPrefix(a, x)
      /\ rest(a, x) = z
  BY <1>1, JoinedIs, RestOfJoined
<1> HIDE DEF x, l
<1>4. IsPrefix(parent, x)
  BY <1>1, <1>2, <1>3, PrefixIsTransitive
<1>5. IsPrefix(a, x) <=> IsPrefix(parent, x) /\ l < Len(x) /\ x[l + 1] = i
  BY <1>3, ChildExtends DEF a, l
<1>6. l < Len(x) /\ x[l + 1] = i
  BY <1>3, <1>5
<1>7. x # parent /\ x # <<>>
  <2>1. Len(x) # l /\ Len(x) # 0
    BY <1>1, <1>3
  <2> QED
    BY <2>1, EmptyIsAPath DEF l
<1>8. Len(x) = l + 1 + Len(z)
  BY <1>1, <1>3
<1> QED
  BY <1>3, <1>4, <1>6, <1>7, <1>8 DEF x, a, l

LEMMA OriginIs ==
  ASSUME NEW parent \in Paths, NEW from
  PROVE  /\ \A x : ~(IsPrefix(parent, x) /\ x # parent) => origin(parent, from, x) = x
         /\ \A i \in Steps : \A z \in Paths :
              origin(parent, from, Append(parent, i) \o z)
                = IF from[i] = 0 THEN <<>> ELSE Append(parent, from[i]) \o z
<1>1. ASSUME NEW i \in Steps, NEW z \in Paths
      PROVE  origin(parent, from, Append(parent, i) \o z)
               = IF from[i] = 0 THEN <<>> ELSE Append(parent, from[i]) \o z
  <2> DEFINE x == Append(parent, i) \o z
             j == x[Len(parent) + 1]
  <2>1. IsPrefix(parent, x) /\ x # parent /\ j = i /\ rest(Append(parent, i), x) = z
    BY BelowParent
  <2> HIDE DEF x
  <2>2. origin(parent, from, x) = IF from[j] = 0 THEN <<>>
                                  ELSE Append(parent, from[j]) \o rest(Append(parent, j), x)
    BY <2>1 DEF origin
  <2> HIDE DEF j
  <2> QED
    BY <2>1, <2>2 DEF x
<1>2. ASSUME NEW x, ~(IsPrefix(parent, x) /\ x # parent)
      PROVE  origin(parent, from, x) = x
  BY <1>2 DEF origin
<1> QED
  BY <1>1, <1>2

LEMMA PrefixJoined ==
  ASSUME NEW a \in Paths, NEW w \in Paths, NEW z \in Paths
  PROVE  IsPrefix(a \o w, a \o z) <=> IsPrefix(w, z)
<1> DEFINE x == a \o w
           y == a \o z
           l == Len(a)
           m == Len(w)
           n == Len(z)
<1>1. /\ x \in Paths /\ Len(x) = l + m /\ (\A i \in 1 .. l : x[i] = a[i])
      /\ \A i \in 1 .. m : x[l + i] = w[i]
  BY JoinedIs
<1>2. /\ y \in Paths /\ Len(y) = l + n /\ (\A i \in 1 .. l : y[i] = a[i])
      /\ \A i \in 1 .. n : y[l + i] = z[i]
  BY JoinedIs
<1>3. l \in Nat /\ m \in Nat /\ n \in Nat
  BY PathIs
<1> HIDE DEF x, y, l, m, n
<1>4. IsPrefix(x, y) <=> l + m <= l + n /\ \A i \in 1 .. l + m : x[i] = y[i]
  BY <1>1, <1>2, PrefixIs
<1>5. IsPrefix(w, z) <=> m <= n /\ \A i \in 1 .. m : w[i] = z[i]
  BY PrefixIs DEF m, n
<1>6. ASSUME IsPrefix(x, y)
      PROVE  IsPrefix(w, z)
  <2>1. m <= n
    BY <1>3, <1>4, <1>6
  <2>2. ASSUME NEW i \in 1 .. m
        PROVE  w[i] = z[i]
    <3>1. i \in 1 .. n /\ l + i \in 1 .. l + m
      BY <1>3, <2>1
    <3> QED
      BY <1>1, <1>2, <1>4, <1>6, <3>1
  <2> QED
    BY <1>5, <2>1, <2>2
<1>7. ASSUME IsPrefix(w, z)
      PROVE  IsPrefix(x, y)
  <2>1. m <= n /\ l + m <= l + n
    BY <1>3, <1>5, <1>7
  <2>2. ASSUME NEW i \in 1 .. l + m
        PROVE  x[i] = y[i]
    <3>1. CASE i \in 1 .. l
      BY <1>1, <1>2, <3>1
    <3>2. CASE ~(i \in 1 .. l)
      <4> DEFINE j == i - l
      <4>1. j \in 1 .. m /\ j \in 1 .. n /\ i = l + j
        BY <1>3, <2>1, <3>2
      <4> HIDE DEF j
      <4> QED
        BY <1>1, <1>2, <1>5, <1>7, <4>1
    <3> QED
      BY <3>1, <3>2
  <2> QED
    BY <1>4, <2>1, <2>2
<1> QED
  BY <1>6, <1>7 DEF x, y

LEMMA TwoPrefixes ==
  ASSUME NEW p \in Paths, NEW q \in Paths, NEW x \in Paths, IsPrefix(p, x), IsPrefix(q, x)
  PROVE  IsPrefix(p, q) \/ IsPrefix(q, p)
<1>1. /\ Len(p) \in Nat /\ Len(q) \in Nat
      /\ \A i \in 1 .. Len(p) : p[i] = x[i]
      /\ \A i \in 1 .. Len(q) : q[i] = x[i]
  BY PathIs, PrefixIs
<1>2. CASE Len(p) <= Len(q)
  <2>1. \A i \in 1 .. Len(p) : i \in 1 .. Len(q)
    BY <1>1, <1>2
  <2> QED
    BY <1>1, <1>2, <2>1, PrefixIs
<1>3. CASE Len(q) <= Len(p)
  <2>1. \A i \in 1 .. Len(q) : i \in 1 .. Len(p)
    BY <1>1, <1>3
  <2> QED
    BY <1>1, <1>3, <2>1, PrefixIs
<1> QED
  BY <1>1, <1>2, <1>3

(* The trees that replace the children of a parent, each of them one of    *)
(* these children, from[i], or the leaf that is put at "path".             *)
rearranges(F, parent, trees, from, path, n) ==
  /\ \A i \in DOMAIN trees :
       IF from[i] = 0 THEN trees[i] = leaf(n) /\ path = Append(parent, i) /\ n.secret = <<>>
       ELSE from[i] \in 1 .. arity(F, parent) /\ trees[i] = tree(F, Append(parent, from[i]))
  /\ \A i, j \in DOMAIN trees : from[i] = from[j] => i = j

(* A node of the result: one outside the parent, or one of a tree.         *)
outsideOf(F, G, parent, x) ==
  x \in DOMAIN F /\ ~(IsPrefix(parent, x) /\ x # parent) /\ G[x] = F[x]
inTreeOf(G, parent, trees, x, i, z) ==
  /\ i \in DOMAIN trees /\ i \in Steps /\ z \in DOMAIN trees[i] /\ z \in Paths
  /\ x = Append(parent, i) \o z /\ G[x] = trees[i][z]

LEMMA PutSiblingsParts ==
  ASSUME NEW S, NEW F, isForestOf(F, S), NEW parent \in Paths,
         parent = <<>> \/ parent \in DOMAIN F, NEW trees, areTrees(trees, S)
  PROVE  LET G == putSiblings(F, parent, trees)
         IN \A x \in DOMAIN G : \/ outsideOf(F, G, parent, x)
                                \/ \E i, z : inTreeOf(G, parent, trees, x, i, z)
<1> DEFINE G == putSiblings(F, parent, trees)
<1>1. /\ \A q \in DOMAIN F : ~IsStrictPrefix(parent, q) => q \in DOMAIN G /\ G[q] = F[q]
      /\ \A i \in DOMAIN trees : i \in Steps
      /\ \A i \in DOMAIN trees : \A z \in DOMAIN trees[i] :
           z \in Paths /\ Append(parent, i) \o z \in DOMAIN G
           /\ G[Append(parent, i) \o z] = trees[i][z]
      /\ \A q \in DOMAIN G : \/ q \in DOMAIN F /\ ~IsStrictPrefix(parent, q)
                             \/ \E i \in DOMAIN trees : \E z \in DOMAIN trees[i] :
                                  q = Append(parent, i) \o z
  BY PutSiblingsIs
<1> HIDE DEF G
<1>2. ASSUME NEW x \in DOMAIN G
      PROVE  outsideOf(F, G, parent, x) \/ \E i, z : inTreeOf(G, parent, trees, x, i, z)
  <2>1. CASE x \in DOMAIN F /\ ~IsStrictPrefix(parent, x)
    <3>1. ~(IsPrefix(parent, x) /\ x # parent)
      BY <2>1 DEF IsStrictPrefix
    <3> QED
      BY <1>1, <2>1, <3>1 DEF outsideOf
  <2>2. ASSUME NEW i \in DOMAIN trees, NEW z \in DOMAIN trees[i], x = Append(parent, i) \o z
        PROVE  inTreeOf(G, parent, trees, x, i, z)
    BY <1>1, <2>2 DEF inTreeOf
  <2> QED
    BY <1>1, <2>1, <2>2
<1> QED
  BY <1>2 DEF G

LEMMA OriginOutside ==
  ASSUME NEW S, NEW F, isForestOf(F, S), NEW parent \in Paths, NEW from, NEW G, NEW x,
         outsideOf(F, G, parent, x)
  PROVE  origin(parent, from, x) = x /\ x \in Paths /\ x # <<>>
<1>1. x \in Paths /\ x # <<>>
  BY ForestIs DEF isForestOf, outsideOf
<1> QED
  BY <1>1, OriginIs DEF outsideOf

LEMMA OriginInTree ==
  ASSUME NEW S, NEW F, isForestOf(F, S), NEW parent \in Paths, NEW trees, NEW from, NEW path, NEW n,
         rearranges(F, parent, trees, from, path, n),
         NEW G, NEW x, NEW i, NEW z, inTreeOf(G, parent, trees, x, i, z)
  PROVE  LET o == origin(parent, from, x)
             a == Append(parent, from[i])
         IN /\ from[i] = 0 => /\ o = <<>> /\ z = <<>> /\ x = path /\ G[x] = n /\ n.secret = <<>>
            /\ from[i] # 0 => /\ from[i] \in Steps /\ o = a \o z /\ o \in DOMAIN F /\ G[x] = F[o]
                              /\ o \in Paths /\ o # <<>> /\ IsPrefix(parent, o) /\ o # parent
                              /\ o[Len(parent) + 1] = from[i]
<1> DEFINE o == origin(parent, from, x)
           s == from[i]
           a == Append(parent, s)
<1>1. /\ i \in DOMAIN trees /\ i \in Steps /\ z \in DOMAIN trees[i] /\ z \in Paths
      /\ x = Append(parent, i) \o z /\ G[x] = trees[i][z]
  BY DEF inTreeOf
<1>2. o = IF s = 0 THEN <<>> ELSE a \o z
  BY <1>1, OriginIs
<1> HIDE DEF o
<1>3. ASSUME s = 0
      PROVE  /\ o = <<>> /\ z = <<>> /\ x = path /\ G[x] = n /\ n.secret = <<>>
  <2>1. trees[i] = leaf(n) /\ path = Append(parent, i) /\ n.secret = <<>>
    BY <1>1, <1>3 DEF rearranges
  <2>2. z = <<>> /\ trees[i][z] = n
    BY <1>1, <2>1 DEF leaf
  <2>3. Append(parent, i) \in Paths
    BY <1>1, ChildIs
  <2>4. x = path
    BY <1>1, <2>1, <2>2, <2>3, JoinedNothing
  <2> QED
    BY <1>1, <1>2, <1>3, <2>1, <2>2, <2>4
<1>4. ASSUME s # 0
      PROVE  /\ s \in Steps /\ o = a \o z /\ o \in DOMAIN F /\ G[x] = F[o]
             /\ o \in Paths /\ o # <<>> /\ IsPrefix(parent, o) /\ o # parent
             /\ o[Len(parent) + 1] = s
  <2>1. s \in 1 .. arity(F, parent) /\ trees[i] = tree(F, a)
    BY <1>1, <1>4 DEF rearranges
  <2>2. arity(F, parent) \in Nat /\ s \in Steps
    <3>1. arity(F, parent) \in Nat
      BY ChildrenAre DEF isForestOf
    <3> HIDE DEF s
    <3> QED
      BY <2>1, <3>1 DEF Steps
  <2>3. a \in DOMAIN F
    BY <2>1, SiblingsAre
  <2>4. a \o z \in DOMAIN F /\ tree(F, a)[z] = F[a \o z]
    <3> HIDE DEF a
    <3> QED
      BY <1>1, <2>1, <2>3, TreeIs
  <2>5. o = a \o z
    BY <1>2, <1>4
  <2>6. LET y == a \o z
        IN y \in Paths /\ y # <<>> /\ IsPrefix(parent, y) /\ y # parent /\ y[Len(parent) + 1] = s
    <3>1. s \in Steps /\ z \in Paths
      BY <1>1, <2>2
    <3> HIDE DEF s
    <3>2. LET y == Append(parent, s) \o z
          IN /\ y \in Paths /\ y # <<>> /\ IsPrefix(parent, y) /\ y # parent
             /\ y[Len(parent) + 1] = s /\ rest(Append(parent, s), y) = z
             /\ Len(y) = Len(parent) + 1 + Len(z)
      BY <3>1, BelowParent
    <3> QED
      BY <3>2
  <2> QED
    BY <1>1, <2>1, <2>2, <2>4, <2>5, <2>6
<1> QED
  BY <1>3, <1>4 DEF o

LEMMA OriginsDiffer ==
  ASSUME NEW S, NEW F, isForestOf(F, S), NEW parent \in Paths, NEW trees, NEW from, NEW path, NEW n,
         rearranges(F, parent, trees, from, path, n), NEW G,
         NEW x, NEW i, NEW z, inTreeOf(G, parent, trees, x, i, z),
         NEW y, NEW j, NEW w, inTreeOf(G, parent, trees, y, j, w),
         origin(parent, from, x) = origin(parent, from, y)
  PROVE  x = y
<1>1. /\ i \in DOMAIN trees /\ z \in Paths /\ x = Append(parent, i) \o z
      /\ j \in DOMAIN trees /\ w \in Paths /\ y = Append(parent, j) \o w
  BY DEF inTreeOf
<1> DEFINE a == Append(parent, from[i])
           b == Append(parent, from[j])
           o == origin(parent, from, x)
           u == origin(parent, from, y)
<1>2. /\ from[i] = 0 => o = <<>> /\ x = path
      /\ from[i] # 0 => /\ from[i] \in Steps /\ o = a \o z /\ o # <<>>
                        /\ o[Len(parent) + 1] = from[i]
  BY OriginInTree
<1>3. /\ from[j] = 0 => u = <<>> /\ y = path
      /\ from[j] # 0 => /\ from[j] \in Steps /\ u = b \o w /\ u # <<>>
                        /\ u[Len(parent) + 1] = from[j]
  BY OriginInTree
<1>4. o = u
  OBVIOUS
<1> HIDE DEF o, u
<1>5. CASE from[i] = 0
  BY <1>2, <1>3, <1>4, <1>5
<1>6. CASE from[i] # 0
  <2>1. from[j] # 0 /\ from[i] = from[j]
    BY <1>2, <1>3, <1>4, <1>6
  <2>2. i = j
    BY <1>1, <2>1 DEF rearranges
  <2>3. a \o z = a \o w
    BY <1>2, <1>3, <1>4, <1>6, <2>1
  <2>4. a \in Paths
    BY <1>2, <1>6, ChildIs
  <2> HIDE DEF a, b
  <2>5. z = w
    BY <1>1, <2>3, <2>4, JoinsApart
  <2> QED
    BY <1>1, <2>2, <2>5
<1> QED
  BY <1>5, <1>6

LEMMA OriginsEnclose ==
  ASSUME NEW S, NEW F, isForestOf(F, S), NEW parent \in Paths, NEW trees, NEW from, NEW path, NEW n,
         rearranges(F, parent, trees, from, path, n), NEW G,
         NEW x, NEW y, IsPrefix(x, y), x # y, origin(parent, from, y) # <<>>,
         outsideOf(F, G, parent, x) \/ \E i, z : inTreeOf(G, parent, trees, x, i, z),
         outsideOf(F, G, parent, y) \/ \E i, z : inTreeOf(G, parent, trees, y, i, z)
  PROVE  /\ origin(parent, from, x) # <<>>
         /\ IsPrefix(origin(parent, from, x), origin(parent, from, y))
<1> DEFINE o == origin(parent, from, x)
           u == origin(parent, from, y)
<1>1. ASSUME outsideOf(F, G, parent, x), outsideOf(F, G, parent, y)
      PROVE  o # <<>> /\ IsPrefix(o, u)
  BY <1>1, OriginOutside
<1>2. ASSUME NEW i, NEW z, inTreeOf(G, parent, trees, x, i, z), outsideOf(F, G, parent, y)
      PROVE  FALSE
  <2>1. i \in Steps /\ z \in Paths /\ x = Append(parent, i) \o z
    BY <1>2 DEF inTreeOf
  <2>2. x \in Paths /\ x # <<>> /\ IsPrefix(parent, x) /\ x # parent
        /\ Len(x) = Len(parent) + 1 + Len(z)
    BY <2>1, BelowParent
  <2>3. y \in Paths
    BY <1>2, OriginOutside
  <2>4. IsPrefix(parent, y)
    BY <2>2, <2>3, PrefixIsTransitive
  <2>5. y # parent
    <3>1. Len(x) <= Len(y) /\ Len(x) \in Nat /\ Len(parent) \in Nat /\ Len(z) \in Nat
      BY <2>1, <2>2, <2>3, ShorterPrefix, PathIs
    <3> QED
      BY <2>2, <3>1
  <2> QED
    BY <1>2, <2>4, <2>5 DEF outsideOf
<1>3. ASSUME outsideOf(F, G, parent, x), NEW j, NEW w, inTreeOf(G, parent, trees, y, j, w)
      PROVE  o # <<>> /\ IsPrefix(o, u)
  <2>1. o = x /\ x \in Paths /\ x # <<>> /\ ~(IsPrefix(parent, x) /\ x # parent)
    BY <1>3, OriginOutside DEF outsideOf
  <2>2. j \in Steps /\ w \in Paths /\ y = Append(parent, j) \o w
    BY <1>3 DEF inTreeOf
  <2>3. y \in Paths /\ IsPrefix(parent, y)
    BY <2>2, BelowParent
  <2>4. IsPrefix(x, parent) \/ IsPrefix(parent, x)
    BY <2>1, <2>3, TwoPrefixes
  <2>5. IsPrefix(x, parent)
    BY <2>1, <2>4, PrefixIsReflexive
  <2>6. u \in Paths /\ IsPrefix(parent, u)
    BY <1>3, OriginInTree
  <2>7. IsPrefix(x, u)
    <3> HIDE DEF u
    <3> QED
      BY <2>1, <2>5, <2>6, PrefixIsTransitive
  <2> QED
    BY <2>1, <2>7
<1>4. ASSUME NEW i, NEW z, inTreeOf(G, parent, trees, x, i, z),
             NEW j, NEW w, inTreeOf(G, parent, trees, y, j, w)
      PROVE  o # <<>> /\ IsPrefix(o, u)
  <2>1. /\ i \in Steps /\ z \in Paths /\ x = Append(parent, i) \o z
        /\ j \in Steps /\ w \in Paths /\ y = Append(parent, j) \o w
    BY <1>4 DEF inTreeOf
  <2> DEFINE a == Append(parent, i)
             b == Append(parent, j)
             c == Append(parent, from[j])
             l == Len(parent) + 1
  <2>2. x \in Paths /\ y \in Paths /\ x[l] = i /\ y[l] = j
        /\ Len(x) = l + Len(z) /\ l \in Nat /\ l > 0 /\ Len(z) \in Nat
    <3>1. x \in Paths /\ x[Len(parent) + 1] = i /\ Len(x) = Len(parent) + 1 + Len(z)
      BY <2>1, BelowParent
    <3>2. y \in Paths /\ y[Len(parent) + 1] = j
      BY <2>1, BelowParent
    <3>3. Len(parent) \in Nat /\ Len(z) \in Nat
      BY <2>1, PathIs
    <3> QED
      BY <3>1, <3>2, <3>3
  <2> HIDE DEF l
  <2>3. i = j
    <3>1. l \in 1 .. Len(x)
      BY <2>2
    <3>2. \A m \in 1 .. Len(x) : x[m] = y[m]
      BY <2>2, PrefixIs
    <3> QED
      BY <2>2, <3>1, <3>2
  <2>4. from[j] # 0 /\ from[j] \in Steps /\ u = c \o w
    BY <1>4, OriginInTree
  <2>5. o = c \o z /\ o # <<>>
    BY <1>4, <2>3, <2>4, OriginInTree
  <2>6. a \in Paths /\ c \in Paths
    BY <2>1, <2>4, ChildIs
  <2> HIDE DEF a, c, o, u
  <2>7. IsPrefix(a \o z, a \o w)
    BY <2>1, <2>3 DEF a
  <2>8. IsPrefix(z, w)
    BY <2>1, <2>6, <2>7, PrefixJoined
  <2>9. IsPrefix(c \o z, c \o w)
    BY <2>1, <2>6, <2>8, PrefixJoined
  <2> QED
    BY <2>4, <2>5, <2>9
<1> QED
  BY <1>1, <1>2, <1>3, <1>4

LEMMA SiblingsComeFrom ==
  ASSUME NEW S, NEW F, isForestOf(F, S), NEW parent \in Paths,
         parent = <<>> \/ parent \in DOMAIN F, NEW trees, areTrees(trees, S),
         NEW from, NEW path, NEW n, rearranges(F, parent, trees, from, path, n)
  PROVE  \E o : comesFrom(F, putSiblings(F, parent, trees), o, path, n.id)
<1> DEFINE G == putSiblings(F, parent, trees)
           part(x) == outsideOf(F, G, parent, x) \/ \E i, z : inTreeOf(G, parent, trees, x, i, z)
           o == [x \in DOMAIN G |-> origin(parent, from, x)]
<1>1. \A x \in DOMAIN G : part(x)
  BY PutSiblingsParts
<1> HIDE DEF G
<1>2. \A x \in DOMAIN G : o[x] = origin(parent, from, x)
  OBVIOUS
<1> HIDE DEF o
<1>3. ASSUME NEW x \in DOMAIN G
      PROVE  /\ o[x] = <<>> => x = path /\ G[x].id = n.id /\ G[x].secret = <<>>
             /\ o[x] # <<>> => o[x] \in DOMAIN F /\ G[x] = F[o[x]]
  <2>1. CASE outsideOf(F, G, parent, x)
    <3>1. o[x] = x /\ x # <<>>
      BY <1>2, <2>1, OriginOutside
    <3> QED
      BY <2>1, <3>1 DEF outsideOf
  <2>2. ASSUME NEW i, NEW z, inTreeOf(G, parent, trees, x, i, z)
        PROVE  /\ o[x] = <<>> => x = path /\ G[x].id = n.id /\ G[x].secret = <<>>
               /\ o[x] # <<>> => o[x] \in DOMAIN F /\ G[x] = F[o[x]]
    <3>1. /\ from[i] = 0 => /\ o[x] = <<>> /\ x = path /\ G[x] = n /\ n.secret = <<>>
          /\ from[i] # 0 => /\ o[x] \in DOMAIN F /\ G[x] = F[o[x]] /\ o[x] # <<>>
      <4>1. o[x] = origin(parent, from, x)
        BY <1>2
      <4> QED
        BY <2>2, <4>1, OriginInTree
    <3> QED
      BY <3>1
  <2> QED
    BY <1>1, <2>1, <2>2
<1>4. ASSUME NEW x \in DOMAIN G, NEW y \in DOMAIN G, o[x] = o[y]
      PROVE  x = y
  <2>1. origin(parent, from, x) = origin(parent, from, y)
    BY <1>2, <1>4
  <2>2. ASSUME NEW v, NEW i, NEW z, inTreeOf(G, parent, trees, v, i, z),
               NEW q, outsideOf(F, G, parent, q),
               origin(parent, from, v) = origin(parent, from, q)
        PROVE  FALSE
    <3>1. origin(parent, from, q) = q /\ q # <<>>
      BY <2>2, OriginOutside
    <3>2. from[i] # 0
      BY <2>2, <3>1, OriginInTree
    <3>3. IsPrefix(parent, q) /\ q # parent
      BY <2>2, <3>1, <3>2, OriginInTree
    <3> QED
      BY <2>2, <3>3 DEF outsideOf
  <2>3. CASE outsideOf(F, G, parent, x) /\ outsideOf(F, G, parent, y)
    BY <2>1, <2>3, OriginOutside
  <2>4. ASSUME NEW i, NEW z, inTreeOf(G, parent, trees, x, i, z),
               NEW j, NEW w, inTreeOf(G, parent, trees, y, j, w)
        PROVE  x = y
    BY <2>1, <2>4, OriginsDiffer
  <2> QED
    BY <1>1, <2>1, <2>2, <2>3, <2>4
<1>5. ASSUME NEW x \in DOMAIN G, NEW y \in DOMAIN G, IsPrefix(x, y), x # y, o[y] # <<>>
      PROVE  o[x] # <<>> /\ IsPrefix(o[x], o[y]) /\ o[x] # o[y]
  <2>1. o[x] # <<>> /\ IsPrefix(o[x], o[y])
    <3>1. origin(parent, from, y) # <<>> /\ part(x) /\ part(y)
      BY <1>1, <1>2, <1>5
    <3>2. origin(parent, from, x) # <<>>
          /\ IsPrefix(origin(parent, from, x), origin(parent, from, y))
      BY <1>5, <3>1, OriginsEnclose
    <3> QED
      BY <1>2, <3>2
  <2> QED
    BY <1>4, <1>5, <2>1
<1> QED
  BY <1>3, <1>4, <1>5 DEF comesFrom, G

(* What the edits make of a forest: a node that says something else, a     *)
(* node more, two nodes exchanged, or a node less.                         *)
LEMMA ChangedComesFrom ==
  ASSUME NEW S, NEW F, isForestOf(F, S), NEW path \in DOMAIN F, NEW n, isNode(n), n.secret \in S,
         n.id = F[path].id, n.secret = F[path].secret, n.expanded = F[path].expanded, NEW m
  PROVE  LET G == put(F, path, n)
         IN /\ isForestOf(G, S) /\ path \in DOMAIN G /\ G[path].id = n.id
            /\ \E o : comesFrom(F, G, o, path, m)
<1> DEFINE G == put(F, path, n)
           o == [x \in DOMAIN F |-> x]
<1>1. isForestOf(G, S) /\ DOMAIN G = DOMAIN F
      /\ G = [p \in DOMAIN F |-> IF p = path THEN n ELSE F[p]]
  BY PutIs
<1>2. \A x \in DOMAIN F : x # <<>>
  BY ForestIs DEF isForestOf
<1> HIDE DEF G
<1>3. \A x \in DOMAIN G : /\ o[x] = x /\ G[x].id = F[x].id /\ G[x].secret = F[x].secret
                          /\ G[x].expanded = F[x].expanded
  BY <1>1
<1>4. comesFrom(F, G, o, path, m)
  <2> HIDE DEF o
  <2> QED
    BY <1>1, <1>2, <1>3 DEF comesFrom
<1> QED
  BY <1>1, <1>4 DEF G

LEMMA InsertedComesFrom ==
  ASSUME NEW S, NEW F, isForestOf(F, S), NEW parent \in Paths,
         parent = <<>> \/ parent \in DOMAIN F, NEW index \in 1 .. arity(F, parent) + 1,
         NEW n, isNode(n), n.secret \in S, n.secret = <<>>
  PROVE  LET G == putSiblings(F, parent, InsertAt(siblings(F, parent), index, leaf(n)))
             path == Append(parent, index)
         IN /\ isForestOf(G, S) /\ path \in DOMAIN G /\ G[path].id = n.id
            /\ \E o : comesFrom(F, G, o, path, n.id)
<1> DEFINE s == siblings(F, parent)
           t == InsertAt(s, index, leaf(n))
           G == putSiblings(F, parent, t)
           path == Append(parent, index)
           l == arity(F, parent)
           from == [i \in 1 .. l + 1 |-> IF i < index THEN i ELSE IF i = index THEN 0 ELSE i - 1]
<1>1. /\ areTrees(s, S) /\ DOMAIN s = 1 .. l /\ l \in Nat
      /\ \A i \in 1 .. l : s[i] = tree(F, Append(parent, i))
  BY SiblingsAre
<1> HIDE DEF s, l
<1>2. Len(s) = l
  <2>1. Len(s) \in Nat /\ DOMAIN s = 1 .. Len(s)
    BY <1>1, TreesAreASequence
  <2> QED
    BY <1>1, <2>1
<1>3. isTree(leaf(n), S)
  BY LeafIsTree
<1>4. index \in 1 .. l + 1
  BY DEF l
<1> DEFINE e == leaf(n)
<1>e. e = leaf(n)
  OBVIOUS
<1> HIDE DEF e
<1>5. /\ areTrees(t, S) /\ DOMAIN t = 1 .. l + 1
      /\ \A i \in 1 .. l + 1 : t[i] = IF i < index THEN s[i] ELSE IF i = index THEN e ELSE s[i - 1]
  <2>1. index \in 1 .. Len(s) + 1 /\ isTree(e, S)
    BY <1>2, <1>3, <1>4, <1>e
  <2>2. LET u == InsertAt(s, index, e)
        IN /\ areTrees(u, S) /\ DOMAIN u = 1 .. Len(s) + 1
           /\ \A i \in 1 .. Len(s) + 1 :
                u[i] = IF i < index THEN s[i] ELSE IF i = index THEN e ELSE s[i - 1]
    BY <1>1, <2>1, TreesInserted
  <2> QED
    BY <1>2, <1>e, <2>2
<1> HIDE DEF t
<1>6. /\ \A i \in 1 .. l + 1 : /\ i < index => from[i] = i /\ i \in 1 .. l /\ i # 0
                               /\ i = index => from[i] = 0
                               /\ i > index => from[i] = i - 1 /\ i - 1 \in 1 .. l /\ i - 1 # 0
                               /\ (i < index \/ i = index \/ i > index)
      /\ \A i, j \in 1 .. l + 1 : from[i] = from[j] => i = j
  BY <1>1, <1>4
<1> HIDE DEF from
<1>7. rearranges(F, parent, t, from, path, n)
  <2>1. ASSUME NEW i \in 1 .. l + 1
        PROVE  IF from[i] = 0 THEN t[i] = leaf(n) /\ path = Append(parent, i) /\ n.secret = <<>>
               ELSE from[i] \in 1 .. l /\ t[i] = tree(F, Append(parent, from[i]))
    <3>1. CASE i < index
      BY <1>1, <1>5, <1>6, <3>1
    <3>2. CASE i = index
      BY <1>4, <1>5, <1>6, <1>e, <3>2
    <3>3. CASE i > index
      <4>1. t[i] = s[i - 1] /\ from[i] = i - 1 /\ i - 1 \in 1 .. l /\ i - 1 # 0
        BY <1>4, <1>5, <1>6, <3>3
      <4> DEFINE j == i - 1
      <4>2. t[i] = s[j] /\ from[i] = j /\ j \in 1 .. l /\ j # 0
        BY <4>1
      <4> HIDE DEF j
      <4> QED
        BY <1>1, <4>2
    <3> QED
      BY <1>6, <3>1, <3>2, <3>3
  <2> QED
    BY <1>5, <1>6, <2>1 DEF rearranges, l
<1> HIDE DEF path
<1>8. \E o : comesFrom(F, G, o, path, n.id)
  BY <1>5, <1>7, SiblingsComeFrom
<1>9. isForestOf(G, S) /\ path \in DOMAIN G /\ G[path].id = n.id
  <2>1. index \in DOMAIN t /\ t[index] = leaf(n)
    BY <1>1, <1>4, <1>5, <1>e
  <2>2. <<>> \in DOMAIN t[index] /\ t[index][<<>>] = n
    BY <2>1 DEF leaf
  <2>3. /\ isForestOf(G, S) /\ index \in Steps
        /\ Append(parent, index) \o <<>> \in DOMAIN G
        /\ G[Append(parent, index) \o <<>>] = t[index][<<>>]
    <3>1. /\ isForestOf(G, S) /\ \A i \in DOMAIN t : i \in Steps
          /\ \A i \in DOMAIN t : \A z \in DOMAIN t[i] :
               z \in Paths /\ Append(parent, i) \o z \in DOMAIN G
               /\ G[Append(parent, i) \o z] = t[i][z]
      <4>1. areTrees(t, S)
        BY <1>5
      <4> QED
        BY <4>1, PutSiblingsIs
    <3> HIDE DEF G
    <3> QED
      BY <2>1, <2>2, <3>1
  <2>4. Append(parent, index) \o <<>> = path
    BY <2>3, ChildIs, JoinedNothing DEF path
  <2> HIDE DEF G
  <2> QED
    BY <2>2, <2>3, <2>4
<1> QED
  BY <1>8, <1>9 DEF G, path, t, s

(* Siblings that are rearranged, without a new one among them.             *)
LEMMA RearrangedComesFrom ==
  ASSUME NEW S, NEW F, isForestOf(F, S), NEW parent \in Paths,
         parent = <<>> \/ parent \in DOMAIN F, NEW t, areTrees(t, S), NEW from,
         \A i \in DOMAIN t : /\ from[i] \in 1 .. arity(F, parent)
                              /\ t[i] = siblings(F, parent)[from[i]],
         \A i, j \in DOMAIN t : from[i] = from[j] => i = j, NEW path, NEW m
  PROVE  LET G == putSiblings(F, parent, t)
         IN /\ isForestOf(G, S)
            /\ \A i \in DOMAIN t : /\ Append(parent, i) \in DOMAIN G
                                    /\ G[Append(parent, i)] = F[Append(parent, from[i])]
            /\ \E o : comesFrom(F, G, o, path, m)
<1> DEFINE G == putSiblings(F, parent, t)
           l == arity(F, parent)
           n == [id |-> m, secret |-> <<>>]
<1>1. l \in Nat /\ \A i \in 1 .. l : /\ siblings(F, parent)[i] = tree(F, Append(parent, i))
                                      /\ Append(parent, i) \in DOMAIN F
  BY SiblingsAre
<1> HIDE DEF l
<1>2. \A i \in DOMAIN t : /\ from[i] \in 1 .. l /\ from[i] # 0
                          /\ t[i] = tree(F, Append(parent, from[i]))
                          /\ Append(parent, from[i]) \in DOMAIN F
  BY <1>1 DEF l
<1>3. n.id = m
  OBVIOUS
<1> HIDE DEF n
<1>4. rearranges(F, parent, t, from, path, n)
  BY <1>2 DEF rearranges, l
<1>5. \E o : comesFrom(F, G, o, path, m)
  BY <1>3, <1>4, SiblingsComeFrom
<1>6. /\ isForestOf(G, S) /\ \A i \in DOMAIN t : i \in Steps
      /\ \A i \in DOMAIN t : \A z \in DOMAIN t[i] :
           z \in Paths /\ Append(parent, i) \o z \in DOMAIN G
           /\ G[Append(parent, i) \o z] = t[i][z]
  BY PutSiblingsIs
<1> HIDE DEF G
<1>7. ASSUME NEW i \in DOMAIN t
      PROVE  /\ Append(parent, i) \in DOMAIN G
             /\ G[Append(parent, i)] = F[Append(parent, from[i])]
  <2> DEFINE a == Append(parent, from[i])
             b == Append(parent, i)
  <2>1. t[i] = tree(F, a) /\ a \in DOMAIN F /\ a \in Paths
    BY <1>2, ForestIs DEF isForestOf
  <2>2. b \in Paths /\ i \in Steps
    BY <1>6, <1>7, ChildIs
  <2>3. a \o <<>> = a /\ b \o <<>> = b
    <3> HIDE DEF a, b
    <3> QED
      BY <2>1, <2>2, JoinedNothing
  <2>4. <<>> \in DOMAIN t[i] /\ t[i][<<>>] = F[a]
    <3> DEFINE z == <<>>
    <3>1. z \in Paths /\ a \o z = a
      BY <2>3, EmptyIsAPath
    <3> HIDE DEF z, a
    <3>2. z \in DOMAIN tree(F, a)
      BY <2>1, <3>1, TreeIs
    <3>3. tree(F, a)[z] = F[a \o z]
      BY <2>1, <3>2, TreeIs
    <3> QED
      BY <2>1, <3>1, <3>2, <3>3 DEF z
  <2>5. b \o <<>> \in DOMAIN G /\ G[b \o <<>>] = t[i][<<>>]
    BY <1>6, <2>4
  <2> QED
    BY <2>3, <2>4, <2>5
<1> QED
  BY <1>5, <1>6, <1>7 DEF G

LEMMA MovedComesFrom ==
  ASSUME NEW S, NEW F, isForestOf(F, S), NEW parent \in Paths,
         parent = <<>> \/ parent \in DOMAIN F,
         NEW j \in 1 .. arity(F, parent), NEW k \in 1 .. arity(F, parent), NEW m
  PROVE  LET s == siblings(F, parent)
             G == putSiblings(F, parent, [s EXCEPT ![j] = s[k], ![k] = s[j]])
             path == Append(parent, k)
         IN /\ isForestOf(G, S) /\ path \in DOMAIN G /\ G[path] = F[Append(parent, j)]
            /\ \E o : comesFrom(F, G, o, path, m)
<1> DEFINE s == siblings(F, parent)
           t == [s EXCEPT ![j] = s[k], ![k] = s[j]]
           l == arity(F, parent)
           from == [i \in 1 .. l |-> IF i = k THEN j ELSE IF i = j THEN k ELSE i]
           path == Append(parent, k)
<1>1. areTrees(s, S) /\ DOMAIN s = 1 .. l /\ l \in Nat
  BY SiblingsAre
<1>s. s = siblings(F, parent)
  OBVIOUS
<1>l. l = arity(F, parent) /\ j \in 1 .. l /\ k \in 1 .. l
  OBVIOUS
<1> HIDE DEF s, l
<1>2. /\ areTrees(t, S) /\ DOMAIN t = 1 .. l
      /\ \A i \in 1 .. l : t[i] = IF i = k THEN s[j] ELSE IF i = j THEN s[k] ELSE s[i]
  <2>1. j \in DOMAIN s /\ k \in DOMAIN s
    BY <1>1, <1>l
  <2> QED
    BY <1>1, <2>1, TreesSwapped
<1>t. t = [s EXCEPT ![j] = s[k], ![k] = s[j]]
  OBVIOUS
<1> HIDE DEF t
<1>3. /\ \A i \in 1 .. l : from[i] = IF i = k THEN j ELSE IF i = j THEN k ELSE i
      /\ \A i, h \in 1 .. l : from[i] = from[h] => i = h
  OBVIOUS
<1> HIDE DEF from
<1>4. \A i \in DOMAIN t : from[i] \in 1 .. l /\ t[i] = s[from[i]]
  BY <1>2, <1>3, <1>l
<1> HIDE DEF path
<1>5. LET G == putSiblings(F, parent, t)
      IN /\ isForestOf(G, S)
         /\ \A i \in DOMAIN t : /\ Append(parent, i) \in DOMAIN G
                                 /\ G[Append(parent, i)] = F[Append(parent, from[i])]
         /\ \E o : comesFrom(F, G, o, path, m)
  <2>1. \A i \in DOMAIN t : /\ from[i] \in 1 .. arity(F, parent)
                            /\ t[i] = siblings(F, parent)[from[i]]
    BY <1>4, <1>s, <1>l
  <2>2. areTrees(t, S) /\ \A i, h \in DOMAIN t : from[i] = from[h] => i = h
    BY <1>2, <1>3
  <2> QED
    BY <2>1, <2>2, RearrangedComesFrom
<1>6. k \in DOMAIN t /\ from[k] = j
  BY <1>2, <1>3, <1>l
<1> QED
  BY <1>5, <1>6, <1>t DEF s, path

LEMMA RemovedComesFrom ==
  ASSUME NEW S, NEW F, isForestOf(F, S), NEW parent \in Paths,
         parent = <<>> \/ parent \in DOMAIN F, NEW k \in 1 .. arity(F, parent), NEW path, NEW m
  PROVE  LET G == putSiblings(F, parent, RemoveAt(siblings(F, parent), k))
         IN isForestOf(G, S) /\ \E o : comesFrom(F, G, o, path, m)
<1> DEFINE s == siblings(F, parent)
           t == RemoveAt(s, k)
           l == arity(F, parent)
           from == [i \in 1 .. l - 1 |-> IF i < k THEN i ELSE i + 1]
<1>1. areTrees(s, S) /\ DOMAIN s = 1 .. l /\ l \in Nat
  BY SiblingsAre
<1>s. s = siblings(F, parent)
  OBVIOUS
<1>l. l = arity(F, parent) /\ k \in 1 .. l
  OBVIOUS
<1> HIDE DEF s, l
<1>2. Len(s) = l
  <2>1. Len(s) \in Nat /\ DOMAIN s = 1 .. Len(s)
    BY <1>1, TreesAreASequence
  <2> QED
    BY <1>1, <2>1
<1>3. /\ areTrees(t, S) /\ DOMAIN t = 1 .. l - 1
      /\ \A i \in 1 .. l - 1 : t[i] = IF i < k THEN s[i] ELSE s[i + 1]
  BY <1>1, <1>2, <1>l, TreesRemoved
<1>t. t = RemoveAt(s, k)
  OBVIOUS
<1> HIDE DEF t
<1>4. /\ \A i \in 1 .. l - 1 : /\ from[i] = IF i < k THEN i ELSE i + 1
                               /\ from[i] \in 1 .. l
      /\ \A i, h \in 1 .. l - 1 : from[i] = from[h] => i = h
  BY <1>1, <1>l
<1> HIDE DEF from
<1>5. \A i \in DOMAIN t : from[i] \in 1 .. l /\ t[i] = s[from[i]]
  BY <1>3, <1>4
<1>6. LET G == putSiblings(F, parent, t)
      IN isForestOf(G, S) /\ \E o : comesFrom(F, G, o, path, m)
  <2>1. \A i \in DOMAIN t : /\ from[i] \in 1 .. arity(F, parent)
                            /\ t[i] = siblings(F, parent)[from[i]]
    BY <1>5, <1>s, <1>l
  <2>2. areTrees(t, S) /\ \A i, h \in DOMAIN t : from[i] = from[h] => i = h
    BY <1>3, <1>4
  <2> QED
    BY <2>1, <2>2, RearrangedComesFrom
<1> QED
  BY <1>6, <1>t DEF s

-----------------------------------------------------------------------------
(* What is revealed are regions of the document.                           *)
LEMMA CiphertextsAre ==
  ASSUME NEW F, isForest(F), NEW P \in SUBSET ciphertexts(F)
  PROVE  /\ P \subseteq DOMAIN F /\ P \in SUBSET Places /\ IsFiniteSet(P)
         /\ \A p \in P : sourceOf[F[p].cipher] \in Kinds
<1>1. IsFiniteSet(DOMAIN F) /\ DOMAIN F \subseteq Paths /\ \A p \in DOMAIN F : isNode(F[p])
  BY ForestIs
<1>2. P \subseteq DOMAIN F
  BY DEF ciphertexts
<1>3. P \in SUBSET Places
  BY <1>1, <1>2, PathsArePlaces
<1>4. IsFiniteSet(P)
  BY <1>1, <1>2, FS_Subset
<1>5. ASSUME NEW p \in P
      PROVE  sourceOf[F[p].cipher] \in Kinds
  <2>1. inFrame(F, p) /\ F[p].cipher \in {"none", "pkcs8", "pkcs12", "cms"}
    BY <1>1, <1>2, NodeIs DEF ciphertexts
  <2>2. F[p].cipher # "none"
    BY <2>1 DEF inFrame
  <2>3. F[p].cipher \in {"pkcs8", "pkcs12", "cms"}
    BY <2>1, <2>2
  <2> QED
    BY <2>3 DEF sourceOf, Kinds
<1> QED
  BY <1>2, <1>3, <1>4, <1>5

LEMMA NothingRevealed ==
  ASSUME NEW F
  PROVE  areRegions(F, <<>>)
<1>1. DOMAIN <<>> = 1 .. 0 /\ 0 \in Nat
  OBVIOUS
<1>2. <<>> = [k \in DOMAIN <<>> |-> <<>>[k]]
  OBVIOUS
<1> QED
  BY <1>1, <1>2 DEF areRegions

LEMMA DecryptedIs ==
  ASSUME NEW F, isDocument(F), NEW P \in SUBSET ciphertexts(F)
  PROVE  /\ areRegions(F, decrypted(F, P)) /\ Cardinality(P) \in Nat
         /\ DOMAIN decrypted(F, P) = 1 .. Cardinality(P)
         /\ \A k \in 1 .. Cardinality(P) : inOrder(P)[k] \in P
                                           /\ decrypted(F, P)[k] = region(F, inOrder(P)[k])
<1> DEFINE n == Cardinality(P)
           s == inOrder(P)
           d == decrypted(F, P)
<1>1. isForest(F) /\ \A p \in DOMAIN F : isForest(F[p].secret)
  BY DEF isDocument
<1>2. /\ P \subseteq DOMAIN F /\ P \in SUBSET Places /\ IsFiniteSet(P)
      /\ \A p \in P : sourceOf[F[p].cipher] \in Kinds
  BY <1>1, CiphertextsAre
<1>3. n \in Nat /\ s \in [1 .. n -> P] /\ \A i, j \in 1 .. n : s[i] = s[j] => i = j
  BY <1>2, InOrderIs
<1> HIDE DEF n, s
<1>4. d = [k \in 1 .. n |-> region(F, s[k])]
  BY DEF decrypted, n, s
<1>5. DOMAIN d = 1 .. n /\ d = [k \in DOMAIN d |-> d[k]] /\ \A k \in 1 .. n : d[k] = region(F, s[k])
  BY <1>4
<1> HIDE DEF d
<1>6. ASSUME NEW k \in 1 .. n
      PROVE  isRegion(F, d[k]) /\ d[k].at = s[k]
  <2> DEFINE p == s[k]
  <2>1. p \in P /\ p \in DOMAIN F /\ sourceOf[F[p].cipher] \in Kinds /\ isForest(F[p].secret)
    BY <1>1, <1>2, <1>3
  <2>2. d[k] = [of |-> sourceOf[F[p].cipher], at |-> p, roots |-> F[p].secret,
                ident |-> Labels(F[p].secret)]
    BY <1>5 DEF region
  <2> HIDE DEF p
  <2>3. d[k].of \in Kinds /\ d[k].at = p /\ isForest(d[k].roots)
        /\ d[k] = [of |-> d[k].of, at |-> d[k].at, roots |-> d[k].roots, ident |-> d[k].ident]
    BY <2>1, <2>2
  <2> QED
    BY <2>1, <2>3 DEF isRegion, p
<1>7. areRegions(F, d)
  BY <1>3, <1>5, <1>6 DEF areRegions
<1> QED
  BY <1>3, <1>5, <1>7 DEF n, s, d

LEMMA RegionReplaced ==
  ASSUME NEW F, NEW regions, areRegions(F, regions), NEW k \in DOMAIN regions, NEW G, isForest(G)
  PROVE  LET new == [regions EXCEPT ![k].roots = G]
         IN /\ areRegions(F, new) /\ DOMAIN new = DOMAIN regions /\ new[k].roots = G
            /\ \A j \in DOMAIN regions : /\ new[j].at = regions[j].at /\ new[j].of = regions[j].of
                                         /\ new[j].ident = regions[j].ident
                                         /\ j # k => new[j] = regions[j]
<1> DEFINE new == [regions EXCEPT ![k].roots = G]
           D == DOMAIN regions
<1>1. regions = [j \in D |-> regions[j]]
  BY DEF areRegions
<1>2. new = [regions EXCEPT ![k] = [regions[k] EXCEPT !.roots = G]]
  BY <1>1
<1> DEFINE g == [regions[k] EXCEPT !.roots = G]
<1>3. isRegion(F, regions[k])
  BY DEF areRegions
<1>4. isRegion(F, g) /\ g.at = regions[k].at /\ g.of = regions[k].of /\ g.ident = regions[k].ident
      /\ g.roots = G
  <2> DEFINE h == regions[k]
  <2>1. isRegion(F, h) /\ g = [h EXCEPT !.roots = G]
    BY <1>3
  <2> HIDE DEF h, g
  <2> QED
    <3>1. h = [of |-> h.of, at |-> h.at, roots |-> h.roots, ident |-> h.ident]
      BY <2>1 DEF isRegion
    <3>2. g = [of |-> h.of, at |-> h.at, roots |-> G, ident |-> h.ident]
      BY <2>1, <3>1
    <3>3. g.at = h.at /\ g.of = h.of /\ g.ident = h.ident /\ g.roots = G
      BY <3>2
    <3>4. isRegion(F, g)
      BY <2>1, <3>2, <3>3 DEF isRegion
    <3> QED
      BY <3>3, <3>4 DEF h
<1> HIDE DEF g
<1>5. new = [j \in D |-> IF j = k THEN g ELSE regions[j]]
  BY <1>1, <1>2 DEF g
<1>6. DOMAIN new = D /\ new = [j \in DOMAIN new |-> new[j]]
      /\ \A j \in D : new[j] = IF j = k THEN g ELSE regions[j]
  BY <1>5
<1> HIDE DEF new
<1>7. \A j \in D : /\ new[j].at = regions[j].at /\ new[j].of = regions[j].of
                   /\ new[j].ident = regions[j].ident
                   /\ j # k => new[j] = regions[j]
  BY <1>4, <1>6
<1>8. \A j \in D : isRegion(F, new[j])
  BY <1>4, <1>6 DEF areRegions
<1>9. areRegions(F, new)
  BY <1>6, <1>7, <1>8 DEF areRegions
<1> QED
  BY <1>4, <1>6, <1>7, <1>9 DEF new

LEMMA RegionRelabelled ==
  ASSUME NEW F, NEW regions, areRegions(F, regions), NEW k \in DOMAIN regions, NEW G
  PROVE  LET new == [regions EXCEPT ![k].ident = G]
         IN /\ areRegions(F, new) /\ DOMAIN new = DOMAIN regions /\ new[k].ident = G
            /\ \A j \in DOMAIN regions : /\ new[j].at = regions[j].at /\ new[j].of = regions[j].of
                                         /\ new[j].roots = regions[j].roots
                                         /\ j # k => new[j] = regions[j]
<1> DEFINE new == [regions EXCEPT ![k].ident = G]
           D == DOMAIN regions
<1>1. regions = [j \in D |-> regions[j]]
  BY DEF areRegions
<1>2. new = [regions EXCEPT ![k] = [regions[k] EXCEPT !.ident = G]]
  BY <1>1
<1> DEFINE g == [regions[k] EXCEPT !.ident = G]
<1>3. isRegion(F, regions[k])
  BY DEF areRegions
<1>4. isRegion(F, g) /\ g.at = regions[k].at /\ g.of = regions[k].of /\ g.roots = regions[k].roots
      /\ g.ident = G
  <2> DEFINE h == regions[k]
  <2>1. isRegion(F, h) /\ g = [h EXCEPT !.ident = G]
    BY <1>3
  <2> HIDE DEF h, g
  <2> QED
    <3>1. h = [of |-> h.of, at |-> h.at, roots |-> h.roots, ident |-> h.ident]
      BY <2>1 DEF isRegion
    <3>2. g = [of |-> h.of, at |-> h.at, roots |-> h.roots, ident |-> G]
      BY <2>1, <3>1
    <3>3. g.at = h.at /\ g.of = h.of /\ g.roots = h.roots /\ g.ident = G
      BY <3>2
    <3>4. isRegion(F, g)
      BY <2>1, <3>2, <3>3 DEF isRegion
    <3> QED
      BY <3>3, <3>4 DEF h
<1> HIDE DEF g
<1>5. new = [j \in D |-> IF j = k THEN g ELSE regions[j]]
  BY <1>1, <1>2 DEF g
<1>6. DOMAIN new = D /\ new = [j \in DOMAIN new |-> new[j]]
      /\ \A j \in D : new[j] = IF j = k THEN g ELSE regions[j]
  BY <1>5
<1> HIDE DEF new
<1>7. \A j \in D : /\ new[j].at = regions[j].at /\ new[j].of = regions[j].of
                   /\ new[j].roots = regions[j].roots
                   /\ j # k => new[j] = regions[j]
  BY <1>4, <1>6
<1>8. \A j \in D : isRegion(F, new[j])
  BY <1>4, <1>6 DEF areRegions
<1>9. areRegions(F, new)
  BY <1>6, <1>7, <1>8 DEF areRegions
<1> QED
  BY <1>4, <1>6, <1>7, <1>9 DEF new

LEMMA SameDomainSameRegions ==
  ASSUME NEW F, NEW G, DOMAIN F = DOMAIN G, NEW regions, areRegions(F, regions)
  PROVE  areRegions(G, regions)
BY DEF areRegions, isRegion

LEMMA RefreshedAre ==
  ASSUME NEW F, isDocument(F), NEW G, NEW old, areRegions(G, old)
  PROVE  areRegions(F, refreshed(F, old))
<1>1. CASE old = <<>> \/ old[1].of = "CmsRevealed"
  BY <1>1, NothingRevealed DEF refreshed
<1>2. CASE ~(old = <<>> \/ old[1].of = "CmsRevealed")
  <2> DEFINE P == ofKind(F, old[1].of)
             d == decrypted(F, P)
             e == [k \in DOMAIN d |-> IF k \in DOMAIN old
                                      THEN [d[k] EXCEPT !.roots = copyExpanded(old[k].roots, @)]
                                      ELSE d[k]]
  <2>1. refreshed(F, old) = e
    BY <1>2 DEF refreshed
  <2>2. P \in SUBSET ciphertexts(F)
    BY DEF ofKind
  <2> HIDE DEF P
  <2>3. areRegions(F, d)
    BY <2>2, DecryptedIs
  <2> HIDE DEF d
  <2>4. DOMAIN e = DOMAIN d /\ e = [k \in DOMAIN e |-> e[k]]
    OBVIOUS
  <2>5. ASSUME NEW k \in DOMAIN d
        PROVE  isRegion(F, e[k]) /\ e[k].at = d[k].at
    <3>1. isRegion(F, d[k])
      BY <2>3 DEF areRegions
    <3>2. CASE k \in DOMAIN old
      <4> DEFINE h == d[k]
                 c == copyExpanded(old[k].roots, h.roots)
      <4>1. isForest(old[k].roots)
        BY <3>2 DEF areRegions, isRegion
      <4>2. isForest(c)
        <5> DEFINE R == h.roots
                   S == {R[p].secret : p \in DOMAIN R}
        <5>1. isForest(R)
          BY <3>1 DEF isRegion
        <5>2. isForestOf(R, S)
          BY <5>1, ForestIs DEF isForestOf, holding
        <5> HIDE DEF R, S
        <5>3. isForestOf(copyExpanded(old[k].roots, R), S)
          BY <4>1, <5>2, CopyExpandedIs
        <5> QED
          BY <5>3 DEF isForestOf, R
      <4>3. e[k] = [h EXCEPT !.roots = c]
        BY <3>2
      <4>4. isRegion(F, h)
        BY <3>1
      <4> HIDE DEF h, c, e
      <4>5. h = [of |-> h.of, at |-> h.at, roots |-> h.roots, ident |-> h.ident]
        BY <4>4 DEF isRegion
      <4>6. e[k] = [of |-> h.of, at |-> h.at, roots |-> c, ident |-> h.ident]
        BY <4>3, <4>5
      <4>7. isRegion(F, e[k]) /\ e[k].at = h.at
        BY <4>2, <4>4, <4>6 DEF isRegion
      <4> QED
        BY <4>7 DEF h
    <3>3. CASE k \notin DOMAIN old
      BY <3>1, <3>3
    <3> QED
      BY <3>2, <3>3
  <2> HIDE DEF e
  <2>6. areRegions(F, e)
    BY <2>3, <2>4, <2>5 DEF areRegions
  <2> QED
    BY <2>1, <2>6
<1> QED
  BY <1>1, <1>2

-----------------------------------------------------------------------------
(* The invariant: the document and what is revealed of it are forests, and *)
(* the rows are the ones these make.                                       *)
cursorOK == IF rows = <<>> THEN selected = 1 ELSE selected \in DOMAIN rows
rowsOK ==
  areRegions(roots, rowsRevealed) /\ rows = rowsOf(roots, rowsIdent, rowsRevealed, filter)

searchOK ==
  /\ filter \in Seq(Letters) /\ Len(filter) <= MaxFilter
  /\ filterCursor \in 0 .. Len(filter) /\ filterGlobal \in BOOLEAN
  /\ listed \subseteq Files

IInv ==
  /\ file \in Files \cup {NoFile}
  /\ isDocument(roots) /\ isWhole(roots) /\ areRegions(roots, revealed)
  /\ rowsOK /\ revealed \in {rowsRevealed, <<>>}
  /\ cursorOK /\ searchOK
  /\ mode \in {"Browse", "FilterInput"} /\ edits \in 0 .. MaxEdits

LEMMA InvIsShown ==
  ASSUME IInv
  PROVE  Shown
BY DEF IInv, rowsOK, Shown, isDocument

(* What is of a region that is revealed is up to date.                     *)
LEMMA RevealedAsShown ==
  ASSUME IInv, NEW k \in DOMAIN revealed
  PROVE  revealed = rowsRevealed
<1>1. revealed # <<>>
  OBVIOUS
<1> QED
  BY <1>1 DEF IInv

ownRows == outlined(roots, ownContext(rowsIdent, filter))

ofDocument(r) == r \in ownRows /\ r.source = Document /\ r.path \in DOMAIN roots
                 /\ r.depth = Len(r.path) - 1
ofLock(r) == /\ rowsRevealed = <<>> /\ r.source = Placeholder /\ r.path \in ciphertexts(roots)
             /\ \E d \in ownRows : d.path = r.path /\ r.depth = d.depth + 1 /\ ~r.elided
ofRegion(r, k) ==
  /\ k \in DOMAIN rowsRevealed /\ r.source = source(rowsRevealed[k].of, k)
  /\ r.path \in DOMAIN rowsRevealed[k].roots
  /\ \E d \in ownRows : /\ d.path = rowsRevealed[k].at /\ r.depth = d.depth + Len(r.path)
                        /\ r \in outlined(rowsRevealed[k].roots, contextOf(rowsRevealed, k, d, filter))

LEMMA OwnRowsAreRows ==
  ASSUME Shown, NEW d \in ownRows
  PROVE  d \in Rows /\ d.source = Document /\ d.path \in DOMAIN roots /\ d.path \in Paths
         /\ d.path # <<>> /\ d.depth = Len(d.path) - 1 /\ d \in Range(rows)
<1>1. d \in Rows /\ d.source = Document /\ d.path \in DOMAIN roots /\ d.depth = Len(d.path) - 1
  BY OwnRowsAre DEF Shown, ownRows
<1>2. d.path \in Paths /\ d.path # <<>>
  BY <1>1, ForestIs DEF Shown
<1>3. d \in Range(rows)
  BY ShownRows DEF outlineIn, ownRows
<1> QED
  BY <1>1, <1>2, <1>3

LEMMA RowsAre ==
  ASSUME Shown, NEW r \in Range(rows)
  PROVE  /\ r \in Rows /\ r.path \in Paths /\ r.path # <<>>
         /\ ofDocument(r) \/ ofLock(r) \/ \E k \in DOMAIN rowsRevealed : ofRegion(r, k)
<1>1. /\ isForest(roots) /\ areRegions(roots, rowsRevealed)
      /\ \A k \in DOMAIN rowsRevealed : isForest(rowsRevealed[k].roots)
  BY DEF Shown, areRegions, isRegion
<1>2. r \in Rows /\ r \in outlineIn(roots, rowsIdent, rowsRevealed, filter)
  BY ShownRows, EmptyList
<1>3. r \in ownRows \/ \E d \in ownRows : r \in belowIn(roots, rowsRevealed, filter, d)
  BY <1>2 DEF outlineIn, ownRows
<1>4. CASE r \in ownRows
  BY <1>2, <1>4, OwnRowsAreRows DEF ofDocument
<1>5. ASSUME NEW d \in ownRows, r \in belowIn(roots, rowsRevealed, filter, d)
      PROVE  r.path \in Paths /\ r.path # <<>> /\ (ofLock(r) \/ \E k \in DOMAIN rowsRevealed : ofRegion(r, k))
  <2>1. d \in Rows /\ d.path \in DOMAIN roots /\ d.path \in Paths /\ d.path # <<>>
    BY OwnRowsAreRows
  <2>2. CASE rowsRevealed = <<>>
    <3>1. d.path \in ciphertexts(roots) /\ r = lock(d)
      BY <1>5, <2>2 DEF belowIn
    <3>2. r.path = d.path /\ r.depth = d.depth + 1 /\ r.source = Placeholder /\ r.elided = FALSE
      BY <3>1 DEF lock
    <3> QED
      BY <2>1, <2>2, <3>1, <3>2 DEF ofLock
  <2>3. CASE rowsRevealed # <<>>
    <3>1. PICK k \in DOMAIN rowsRevealed : /\ rowsRevealed[k].at = d.path
                                       /\ r \in outlined(rowsRevealed[k].roots, contextOf(rowsRevealed, k, d, filter))
      BY <1>5, <2>3 DEF belowIn
    <3> DEFINE s == collectForest(rowsRevealed[k].roots, contextOf(rowsRevealed, k, d, filter))
    <3>2. /\ Range(s) = outlined(rowsRevealed[k].roots, contextOf(rowsRevealed, k, d, filter))
          /\ \A x \in Range(s) : /\ x \in Rows /\ x.source = source(rowsRevealed[k].of, k)
                                 /\ x.path \in DOMAIN rowsRevealed[k].roots
                                 /\ x.depth = d.depth + Len(x.path)
      BY <1>1, <2>1, <3>1, RegionIsOutlined
    <3> HIDE DEF s
    <3>3. r.source = source(rowsRevealed[k].of, k) /\ r.path \in DOMAIN rowsRevealed[k].roots
          /\ r.depth = d.depth + Len(r.path)
      BY <3>1, <3>2
    <3>4. r.path \in Paths /\ r.path # <<>>
      BY <1>1, <3>3, ForestIs
    <3> QED
      BY <3>1, <3>3, <3>4 DEF ofRegion
  <2> QED
    BY <2>2, <2>3
<1> QED
  BY <1>2, <1>3, <1>4, <1>5, OwnRowsAreRows

LEMMA RowOfForest ==
  ASSUME IInv, NEW r \in Range(rows), r.source # Placeholder,
         r.source = Document \/ r.source.region \in DOMAIN revealed
  PROVE  /\ r.path \in DOMAIN forestOf(r.source) /\ r.path \in Paths /\ r.path # <<>>
         /\ \E S : /\ isForestOf(forestOf(r.source), S) /\ <<>> \in S
                   /\ r.source = Document => \A s \in S : isForest(s)
         /\ r.source # Document => /\ r.source.region \in DOMAIN revealed
                                   /\ r.source = source(revealed[r.source.region].of, r.source.region)
<1>1. /\ r.path \in Paths /\ r.path # <<>>
      /\ ofDocument(r) \/ ofLock(r) \/ \E k \in DOMAIN rowsRevealed : ofRegion(r, k)
  BY InvIsShown, RowsAre
<1>2. ~ofLock(r)
  BY DEF ofLock
<1>3. isForest(<<>>)
  <2>1. IsFiniteSet({}) /\ DOMAIN <<>> = {} /\ <<>> = [p \in {} |-> <<>>[p]]
    BY FS_EmptySet
  <2> QED
    BY <2>1 DEF isForest
<1>4. CASE ofDocument(r)
  <2>1. forestOf(r.source) = roots /\ r.source = Document /\ r.path \in DOMAIN roots
    BY <1>4 DEF forestOf, ofDocument
  <2>2. PICK S : isForestOf(roots, S) /\ \A s \in S : isForest(s)
    BY DocumentIs DEF IInv
  <2>3. isForestOf(roots, S \cup {<<>>}) /\ \A s \in S \cup {<<>>} : isForest(s)
    BY <1>3, <2>2 DEF isForestOf, holding
  <2>4. <<>> \in S \cup {<<>>}
    OBVIOUS
  <2> QED
    BY <1>1, <2>1, <2>3, <2>4
<1>5. ASSUME NEW k \in DOMAIN rowsRevealed, ofRegion(r, k)
      PROVE  /\ r.path \in DOMAIN forestOf(r.source)
             /\ \E S : isForestOf(forestOf(r.source), S) /\ <<>> \in S
             /\ r.source # Document /\ r.source.region \in DOMAIN revealed
             /\ r.source = source(revealed[r.source.region].of, r.source.region)
  <2> DEFINE F == rowsRevealed[k].roots
             S == {F[p].secret : p \in DOMAIN F} \cup {<<>>}
  <2>1. rowsRevealed[k].of \in Kinds /\ isForest(F)
    BY InvIsShown DEF Shown, areRegions, isRegion
  <2>2. r.source # Document /\ r.source.region = k /\ r.source = source(rowsRevealed[k].of, k)
    BY <1>5, <2>1, SourcesDiffer DEF ofRegion
  <2>r. revealed = rowsRevealed
    BY <2>2, RevealedAsShown
  <2>3. forestOf(r.source) = F /\ r.path \in DOMAIN F
    BY <1>5, <2>2, <2>r DEF forestOf, ofRegion
  <2> HIDE DEF F
  <2>4. isForestOf(F, S) /\ <<>> \in S
    BY <2>1, ForestIs DEF isForestOf, holding
  <2> QED
    BY <2>2, <2>r, <2>3, <2>4
<1> QED
  BY <1>1, <1>2, <1>4, <1>5

LEMMA SelectedHasARow ==
  ASSUME IInv, rows # <<>>
  PROVE  selectedRow \in Range(rows) /\ selected \in DOMAIN rows /\ DOMAIN rows = 1 .. Len(rows)
         /\ Len(rows) \in Nat /\ selected \in Nat
<1>1. rows \in Seq(Rows)
  BY InvIsShown, ShownRows
<1>2. DOMAIN rows = 1 .. Len(rows) /\ Len(rows) \in Nat
  BY <1>1, LenProperties
<1>3. selected \in DOMAIN rows
  BY DEF IInv, cursorOK
<1> QED
  BY <1>2, <1>3 DEF selectedRow, Range

-----------------------------------------------------------------------------
(* The cursor stays on a row.                                              *)
fits(index, shown) == IF shown = <<>> THEN index = 1 ELSE index \in DOMAIN shown

LEMMA ClampedFits ==
  ASSUME NEW X, NEW shown \in Seq(X), NEW index \in Nat, index >= 1
  PROVE  fits(clamped(index, shown), shown)
<1>1. Len(shown) \in Nat /\ DOMAIN shown = 1 .. Len(shown) /\ (shown = <<>> <=> Len(shown) = 0)
  BY LenProperties, EmptyList
<1> QED
  BY <1>1 DEF fits, clamped

LEMMA FoundFits ==
  ASSUME NEW X, NEW shown \in Seq(X), NEW whose, NEW path, NEW otherwise,
         fits(otherwise, shown)
  PROVE  /\ fits(find(shown, whose, path, otherwise), shown)
         /\ at(shown, whose, path) # {} =>
              /\ find(shown, whose, path, otherwise) \in at(shown, whose, path)
              /\ \A j \in at(shown, whose, path) : find(shown, whose, path, otherwise) <= j
<1> DEFINE A == at(shown, whose, path)
<1>1. Len(shown) \in Nat /\ DOMAIN shown = 1 .. Len(shown)
  BY LenProperties
<1>2. A \in SUBSET Nat /\ A \subseteq DOMAIN shown
  BY <1>1 DEF at
<1>3. CASE A = {}
  BY <1>3 DEF find
<1>4. CASE A # {}
  <2> HIDE DEF A
  <2>1. \E i \in A : \A j \in A : i <= j
    BY <1>2, <1>4, LeastNatural
  <2>2. find(shown, whose, path, otherwise) = CHOOSE i \in A : \A j \in A : i <= j
    BY <1>4 DEF find, A
  <2>3. find(shown, whose, path, otherwise) \in A
        /\ \A j \in A : find(shown, whose, path, otherwise) <= j
    BY <2>1, <2>2
  <2>4. shown # <<>>
    <3>a. PICK x \in A : TRUE
      BY <1>4
    <3>b. x \in 1 .. Len(shown)
      BY <1>1, <1>2
    <3>1. Len(shown) # 0
      BY <1>1, <3>b
    <3> QED
      BY <3>1, EmptyList
  <2> QED
    BY <1>2, <2>3, <2>4 DEF fits, A
<1> QED
  BY <1>3, <1>4

LEMMA FitsIsPositive ==
  ASSUME NEW X, NEW shown \in Seq(X), NEW index, fits(index, shown)
  PROVE  index \in Nat /\ index >= 1
<1>1. DOMAIN shown = 1 .. Len(shown) /\ Len(shown) \in Nat
  BY LenProperties
<1> QED
  BY <1>1 DEF fits

-----------------------------------------------------------------------------
(* The steps.                                                              *)
documentOK == isDocument(roots) /\ isWhole(roots) /\ areRegions(roots, revealed)

LEMMA RowsAreASequence ==
  ASSUME NEW F, isDocument(F), NEW labels, NEW regions, areRegions(F, regions), NEW sought
  PROVE  rowsOf(F, labels, regions, sought) \in Seq(Rows)
BY RowsOfAre DEF isDocument

LEMMA RebuildRowsKeeps ==
  ASSUME IInv, documentOK', RebuildRows
  PROVE  rowsOK' /\ rowsRevealed' = revealed' /\ cursorOK' /\ rows' \in Seq(Rows)
<1>1. rows' \in Seq(Rows)
  BY RowsAreASequence DEF documentOK, RebuildRows
<1>2. rows \in Seq(Rows)
  BY InvIsShown, ShownRows
<1>3. selected \in Nat /\ selected >= 1
  <2>1. fits(selected, rows)
    BY DEF IInv, cursorOK, fits
  <2> QED
    BY <1>2, <2>1, FitsIsPositive
<1>4. fits(clamped(selected, rows'), rows')
  BY <1>1, <1>3, ClampedFits
<1> QED
  BY <1>1, <1>4 DEF RebuildRows, rowsOK, documentOK, cursorOK, fits

LEMMA RebuildKeeps ==
  ASSUME OutlineAssumption, IInv, NEW whose, NEW forest, NEW path, NEW id,
         whose = Document => isDocument(forest),
         whose # Document => whose.region \in DOMAIN revealed /\ isForest(forest),
         edits < MaxEdits, Rebuild(whose, forest, path, id)
  PROVE  IInv'
<1> DEFINE outer == IF whose = Document THEN forest ELSE encrypted(whose, forest)
           inner == IF whose = Document THEN revealed
                    ELSE [revealed EXCEPT ![whose.region].roots = forest]
<1>1. /\ roots' = reparsed(outer)
      /\ revealed' = IF whose.of # "Decrypted" THEN refreshed(roots', inner)
                     ELSE [inner EXCEPT ![whose.region].ident = Labels(forest)]
      /\ rows' = rowsOf(roots', ident', revealed', filter)
      /\ rowsIdent' = ident' /\ rowsRevealed' = revealed'
      /\ selected' = reselected(whose, path) /\ edits' = edits + 1
      /\ UNCHANGED <<file, search, mode>>
  BY DEF Rebuild
<1>2. isDocument(outer)
  <2>1. CASE whose = Document
    BY <2>1
  <2>2. CASE whose # Document
    <3> DEFINE k == whose.region
               p == revealed[k].at
               n == [roots[p] EXCEPT !.secret = parsed(forest)]
    <3>1. k \in DOMAIN revealed /\ isForest(forest)
      BY <2>2
    <3>2. p \in DOMAIN roots
      BY <3>1 DEF IInv, areRegions, isRegion
    <3>3. PICK S : isForestOf(roots, S) /\ \A s \in S : isForest(s)
      BY DocumentIs DEF IInv
    <3>4. isForest(parsed(forest))
      <4> DEFINE T == {forest[q].secret : q \in DOMAIN forest}
      <4>1. isForestOf(forest, T)
        BY <3>1, ForestIs DEF isForestOf, holding
      <4> HIDE DEF T
      <4> QED
        BY <4>1, ParsedIs DEF isForestOf
    <3> DEFINE U == S \cup {parsed(forest)}
    <3>5. isForestOf(roots, U) /\ \A s \in U : isForest(s)
      BY <3>3, <3>4 DEF isForestOf, holding
    <3>6. isNode(n) /\ n.secret \in U
      <4> DEFINE m == roots[p]
                 g == parsed(forest)
      <4>1. isNode(m)
        BY <3>2, <3>3 DEF isForestOf, holding
      <4> HIDE DEF m, g
      <4>2. isNode([m EXCEPT !.secret = g]) /\ [m EXCEPT !.secret = g].secret = g
        BY <4>1 DEF isNode
      <4>3. n = [m EXCEPT !.secret = g] /\ g \in U
        BY DEF m, g
      <4> QED
        BY <4>2, <4>3
    <3>7. outer = put(roots, p, n)
      BY <2>2 DEF encrypted
    <3> HIDE DEF n, U, p, outer
    <3>8. isForestOf(outer, U)
      BY <3>2, <3>5, <3>6, <3>7, PutIs
    <3> QED
      BY <3>5, <3>8, DocumentIs
  <2> QED
    BY <2>1, <2>2
<1>3. isDocument(roots') /\ isWhole(roots')
  <2> HIDE DEF outer
  <2>1. PICK S : isForestOf(outer, S) /\ \A s \in S : isForest(s)
    BY <1>2, DocumentIs
  <2>2. isForestOf(roots', S) /\ isWhole(roots')
    BY <1>1, <2>1, ReparsedIs, ReparsedIsWhole
  <2> QED
    BY <2>1, <2>2, DocumentIs
<1>4. areRegions(roots, inner)
  <2>1. areRegions(roots, revealed)
    BY DEF IInv
  <2>2. CASE whose = Document
    BY <2>1, <2>2
  <2>3. CASE whose # Document
    BY <2>1, <2>3, RegionReplaced
  <2> QED
    BY <2>2, <2>3
<1>a. whose # Document => whose.region \in DOMAIN inner /\ DOMAIN outer = DOMAIN roots /\ isWhole(outer)
  <2> SUFFICES ASSUME whose # Document
               PROVE  whose.region \in DOMAIN inner /\ DOMAIN outer = DOMAIN roots /\ isWhole(outer)
    OBVIOUS
  <2> DEFINE k == whose.region
             p == revealed[k].at
             g == parsed(forest)
             n == [roots[p] EXCEPT !.secret = g]
  <2>1. k \in DOMAIN revealed /\ isForest(forest) /\ areRegions(roots, revealed)
    BY DEF IInv
  <2>2. p \in DOMAIN roots /\ isForest(roots) /\ isNode(roots[p])
    BY <2>1, ForestIs DEF IInv, isDocument, areRegions, isRegion
  <2>3. outer = [roots EXCEPT ![p] = n]
    BY DEF encrypted, put
  <2>4. DOMAIN inner = DOMAIN revealed
    BY <2>1, RegionReplaced
  <2>5. n.encapsulates = roots[p].encapsulates
    <3> DEFINE m == roots[p]
    <3>1. isNode(m) /\ n = [m EXCEPT !.secret = g]
      BY <2>2
    <3> HIDE DEF m, g, n
    <3>2. n.encapsulates = m.encapsulates
      BY <3>1, NodeIs
    <3> QED
      BY <3>2 DEF m
  <2> HIDE DEF n, outer, inner
  <2>6. DOMAIN outer = DOMAIN roots
        /\ \A q \in DOMAIN roots : outer[q].encapsulates = roots[q].encapsulates
    BY <2>2, <2>3, <2>5
  <2>7. isWhole(outer)
    BY <2>6, SameWhole DEF IInv
  <2> QED
    BY <2>1, <2>4, <2>6, <2>7
<1> HIDE DEF outer, inner
<1>5. areRegions(roots', revealed')
  <2>1. CASE whose.of # "Decrypted"
    BY <1>1, <1>3, <1>4, <2>1, RefreshedAre
  <2>2. CASE whose.of = "Decrypted"
    <3>1. whose # Document
      BY <2>2 DEF Document, source
    <3>2. isForest(outer) /\ isWhole(outer) /\ DOMAIN outer = DOMAIN roots
          /\ whose.region \in DOMAIN inner
      BY <1>2, <1>a, <3>1 DEF isDocument
    <3>3. DOMAIN roots' = DOMAIN roots
      <4>1. PICK S : isForestOf(outer, S)
        BY <1>2, DocumentIs
      <4> QED
        BY <1>1, <3>2, <4>1, ReparsedNodes, WholeParsed
    <3>4. areRegions(roots', inner)
      BY <1>4, <3>3, SameDomainSameRegions
    <3> QED
      BY <1>1, <2>2, <3>2, <3>4, RegionRelabelled
  <2> QED
    BY <2>1, <2>2
<1>6. filter' = filter /\ searchOK'
  BY <1>1 DEF IInv, searchOK, search
<1>7. rowsOK' /\ rows' \in Seq(Rows)
  BY <1>1, <1>3, <1>5, <1>6, RowsAreASequence DEF rowsOK
<1>8. cursorOK'
  <2>1. rows \in Seq(Rows)
    BY InvIsShown, ShownRows
  <2>2. fits(selected, rows)
    BY DEF IInv, cursorOK, fits
  <2>3. selected \in Nat /\ selected >= 1
    BY <2>1, <2>2, FitsIsPositive
  <2>4. fits(clamped(selected, rows'), rows')
    BY <1>7, <2>3, ClampedFits
  <2>5. fits(find(rows', selectedRow.source, selectedRow.path, clamped(selected, rows')), rows')
    BY <1>7, <2>4, FoundFits
  <2> DEFINE o == IF rows = <<>> THEN clamped(selected, rows')
                  ELSE find(rows', selectedRow.source, selectedRow.path, clamped(selected, rows'))
  <2>6. fits(o, rows')
    BY <2>4, <2>5
  <2>7. reselected(whose, path) = find(rows', whose, path, o)
    BY DEF reselected
  <2> HIDE DEF o
  <2>8. fits(reselected(whose, path), rows')
    BY <1>7, <2>6, <2>7, FoundFits
  <2> QED
    BY <1>1, <2>8 DEF cursorOK, fits
<1>9. edits' \in 0 .. MaxEdits
  BY <1>1 DEF IInv, OutlineAssumption
<1> QED
  BY <1>1, <1>3, <1>5, <1>6, <1>7, <1>8, <1>9 DEF IInv

LEMMA FoldKeeps ==
  ASSUME IInv, rows # <<>>, NEW b \in BOOLEAN, Fold(b)
  PROVE  IInv'
<1>1. withFold(b) /\ UNCHANGED <<file, ident, search, edits, mode>> /\ RebuildRows
  BY DEF Fold, noEdit
<1>2. documentOK'
  <2>1. CASE ~foldable(selectedRow)
    BY <1>1, <2>1 DEF withFold, IInv, documentOK
  <2>2. CASE foldable(selectedRow)
    <3> DEFINE r == selectedRow
               F == forestOf(r.source)
               n == [F[r.path] EXCEPT !.expanded = b]
               G == put(F, r.path, n)
    <3>1. /\ r.source # Placeholder /\ r \in Range(rows)
          /\ r.source = Document \/ r.source.region \in DOMAIN revealed
      BY <2>2, SelectedHasARow DEF foldable, carriesNode, hasNode
    <3>2. /\ r.path \in DOMAIN F
          /\ \E S : isForestOf(F, S) /\ (r.source = Document => \A s \in S : isForest(s))
          /\ r.source # Document => r.source.region \in DOMAIN revealed
      BY <3>1, RowOfForest
    <3>3. PICK S : isForestOf(F, S) /\ (r.source = Document => \A s \in S : isForest(s))
      BY <3>2
    <3>4. /\ r.source = Document => roots' = G /\ revealed' = revealed
          /\ r.source # Document => /\ revealed' = [revealed EXCEPT ![r.source.region].roots = G]
                                    /\ roots' = roots
      BY <1>1, <2>2 DEF withFold, nodeForRow
    <3>5. isNode(n) /\ n.secret \in S
      <4> DEFINE m == F[r.path]
      <4>1. isNode(m) /\ m.secret \in S
        BY <3>2, <3>3 DEF isForestOf, holding
      <4>2. n = [m EXCEPT !.expanded = b]
        OBVIOUS
      <4> HIDE DEF m, n
      <4> QED
        BY <4>1, <4>2, FoldedNode
    <3>6. isForestOf(G, S) /\ DOMAIN G = DOMAIN F
      <4> HIDE DEF n, F
      <4> QED
        BY <3>2, <3>3, <3>5, PutIs
    <3>9. \A p \in DOMAIN F : G[p].encapsulates = F[p].encapsulates
      <4> DEFINE m == F[r.path]
      <4>1. isNode(m) /\ n = [m EXCEPT !.expanded = b]
        BY <3>2, <3>3 DEF isForestOf, holding
      <4>2. G = [p \in DOMAIN F |-> IF p = r.path THEN n ELSE F[p]]
        <5> HIDE DEF n, F
        <5> QED
          BY <3>2, <3>3, <3>5, PutIs
      <4>3. n.encapsulates = m.encapsulates
        <5> HIDE DEF m, n
        <5> QED
          BY <4>1, NodeIs
      <4> HIDE DEF n, G
      <4> QED
        BY <4>2, <4>3
    <3> HIDE DEF G, n
    <3>7. CASE r.source = Document
      <4>1. F = roots
        BY <3>7 DEF forestOf
      <4>2. isDocument(G)
        BY <3>3, <3>6, <3>7, DocumentIs
      <4>3. areRegions(G, revealed)
        BY <3>6, <4>1, SameDomainSameRegions DEF IInv
      <4>4. isWhole(G)
        <5>1. \A p \in DOMAIN F : G[p].encapsulates = F[p].encapsulates
          BY <3>9
        <5> HIDE DEF F
        <5> QED
          BY <3>6, <4>1, <5>1, SameWhole DEF IInv
      <4> QED
        BY <3>4, <3>7, <4>2, <4>3, <4>4 DEF documentOK
    <3>8. CASE r.source # Document
      <4>1. isForest(G) /\ r.source.region \in DOMAIN revealed
        BY <3>2, <3>6, <3>8 DEF isForestOf
      <4>2. areRegions(roots, revealed')
        BY <3>4, <3>8, <4>1, RegionReplaced DEF IInv
      <4> QED
        BY <3>4, <3>8, <4>2 DEF IInv, documentOK
    <3> QED
      BY <3>7, <3>8
  <2> QED
    BY <2>1, <2>2
<1>3. rowsOK' /\ rowsRevealed' = revealed' /\ cursorOK'
  BY <1>1, <1>2, RebuildRowsKeeps
<1> QED
  BY <1>1, <1>2, <1>3 DEF IInv, documentOK, searchOK, search

LEMMA SelectKeeps ==
  ASSUME IInv, rows # <<>>, NEW i \in DOMAIN rows, Select(i)
  PROVE  IInv'
BY DEF IInv, Select, doc, search, made, noEdit, rowsOK, cursorOK, searchOK

LEMMA ParentRowIsARow ==
  ASSUME IInv, NEW i \in DOMAIN rows
  PROVE  parentRow(i) \in DOMAIN rows
<1>1. rows \in Seq(Rows)
  BY InvIsShown, ShownRows
<1>2. fits(i, rows)
  <2>1. rows # <<>>
    BY <1>1
  <2> QED
    BY <2>1 DEF fits
<1>3. \A whose, path : find(rows, whose, path, i) \in DOMAIN rows
  <2> TAKE whose, path
  <2>1. rows # <<>>
    BY <1>1
  <2>2. fits(find(rows, whose, path, i), rows)
    BY <1>1, <1>2, FoundFits
  <2> QED
    BY <2>1, <2>2 DEF fits
<1> QED
  BY <1>3 DEF parentRow

LEMMA InitKeeps ==
  ASSUME OutlineAssumption, Init
  PROVE  IInv
<1>1. isForest(<<>>) /\ isDocument(<<>>) /\ isWhole(<<>>)
  <2>1. IsFiniteSet({}) /\ DOMAIN <<>> = {} /\ <<>> = [p \in {} |-> <<>>[p]]
    BY FS_EmptySet
  <2> QED
    BY <2>1 DEF isForest, isDocument, isWhole
<1>2. areRegions(<<>>, <<>>)
  BY NothingRevealed
<1>3. rowsOf(<<>>, {}, <<>>, <<>>) = <<>>
  <2> DEFINE s == rowsOf(<<>>, {}, <<>>, <<>>)
  <2>1. s \in Seq(Rows) /\ Range(s) = outlineIn(<<>>, {}, <<>>, <<>>)
    BY <1>1, <1>2, RowsOfAre
  <2>2. outlined(<<>>, ownContext({}, <<>>)) = {}
    BY DEF outlined, rowed
  <2>3. outlineIn(<<>>, {}, <<>>, <<>>) = {}
    BY <2>2 DEF outlineIn
  <2> HIDE DEF s
  <2>4. s = <<>>
    BY <2>1, <2>3, EmptyList
  <2> QED
    BY <2>4 DEF s
<1>4. searchOK /\ cursorOK
  <2>1. <<>> \in Seq(Letters) /\ Len(<<>>) = 0
    OBVIOUS
  <2>2. MaxFilter \in Nat
    BY DEF OutlineAssumption
  <2>3. filter \in Seq(Letters) /\ Len(filter) = 0 /\ filterCursor = 0 /\ filterGlobal = FALSE
        /\ listed = Files /\ rows = <<>> /\ selected = 1
    BY <2>1 DEF Init
  <2>4. 0 <= MaxFilter /\ 0 \in 0 .. 0
    BY <2>2
  <2> QED
    BY <2>3, <2>4 DEF searchOK, cursorOK
<1>5. edits \in 0 .. MaxEdits
  BY DEF Init, OutlineAssumption
<1> QED
  BY <1>1, <1>2, <1>3, <1>4, <1>5 DEF Init, IInv, rowsOK

LEMMA OpenFileKeeps ==
  ASSUME OutlineAssumption, IInv, NEW f \in Files, OpenFile(f)
  PROVE  IInv'
<1>1. /\ file' = f /\ roots' = Startup[f] /\ revealed' = <<>>
      /\ rows' = rowsOf(roots', ident, revealed', filter)
      /\ rowsIdent' = ident /\ rowsRevealed' = revealed'
      /\ selected' = 1 /\ edits' = 0 /\ UNCHANGED <<search, mode>>
  BY DEF OpenFile
<1>2. isDocument(roots') /\ isWhole(roots') /\ areRegions(roots', revealed')
  BY <1>1, NothingRevealed DEF OutlineAssumption
<1>3. searchOK' /\ filter' = filter
  BY <1>1 DEF IInv, searchOK, search
<1>4. rowsOK' /\ rows' \in Seq(Rows)
  BY <1>1, <1>2, <1>3, RowsAreASequence DEF rowsOK
<1>5. cursorOK'
  <2>1. fits(clamped(1, rows'), rows')
    BY <1>4, ClampedFits
  <2>2. clamped(1, rows') = 1
    <3>1. Len(rows') \in Nat /\ (rows' = <<>> <=> Len(rows') = 0)
      BY <1>4, LenProperties, EmptyList
    <3> QED
      BY <3>1 DEF clamped
  <2> QED
    BY <1>1, <2>1, <2>2 DEF fits, cursorOK
<1>6. edits' \in 0 .. MaxEdits
  BY <1>1 DEF OutlineAssumption
<1> QED
  BY <1>1, <1>2, <1>3, <1>4, <1>5, <1>6 DEF IInv

LEMMA UnlockKeeps ==
  ASSUME IInv, Unlock
  PROVE  IInv'
<1>1. /\ \E of : revealed' = decrypted(roots, ofKind(roots, of))
      /\ UNCHANGED <<file, roots, ident, search>>
      /\ RebuildRows /\ UNCHANGED <<edits, mode>>
  BY DEF Unlock, noEdit
<1>2. documentOK'
  <2>1. PICK of : revealed' = decrypted(roots, ofKind(roots, of))
    BY <1>1
  <2>2. ofKind(roots, of) \in SUBSET ciphertexts(roots)
    BY DEF ofKind
  <2>3. isDocument(roots) /\ areRegions(roots, decrypted(roots, ofKind(roots, of)))
    BY <2>2, DecryptedIs DEF IInv
  <2> QED
    BY <1>1, <2>1, <2>3 DEF documentOK, IInv
<1>3. rowsOK' /\ rowsRevealed' = revealed' /\ cursorOK'
  BY <1>1, <1>2, RebuildRowsKeeps
<1> QED
  BY <1>1, <1>2, <1>3 DEF IInv, documentOK, searchOK, search

LEMMA UnlockFailsKeeps ==
  ASSUME IInv, UnlockFails
  PROVE  IInv'
<1>1. /\ revealed' = <<>>
      /\ UNCHANGED <<file, roots, ident, view, search, mode, edits>>
  BY DEF UnlockFails, noEdit
<1>2. areRegions(roots', revealed')
  BY <1>1, NothingRevealed DEF IInv
<1> QED
  BY <1>1, <1>2 DEF IInv, view, made, search, rowsOK, cursorOK, searchOK

LEMMA RefilterKeeps ==
  ASSUME IInv, NEW sought \in Seq(Letters), Len(sought) <= MaxFilter, NEW cursor \in 0 .. Len(sought),
         Refilter(sought, cursor)
  PROVE  IInv'
<1>1. /\ mode = "FilterInput" /\ filter' = sought /\ filterCursor' = cursor
      /\ UNCHANGED <<doc, filterGlobal, mode, edits>> /\ narrowed /\ RebuildRows
  BY DEF Refilter, noEdit
<1>2. documentOK'
  BY <1>1 DEF IInv, documentOK, doc
<1>3. rowsOK' /\ rowsRevealed' = revealed' /\ cursorOK'
  BY <1>1, <1>2, RebuildRowsKeeps
<1>4. listed' \subseteq Files
  BY <1>1 DEF narrowed, filesFound
<1>5. searchOK'
  BY <1>1, <1>4 DEF IInv, searchOK
<1> QED
  BY <1>1, <1>2, <1>3, <1>5 DEF IInv, documentOK, doc

LEMMA StartSearchKeeps ==
  ASSUME IInv, StartFilter \/ StartBrowserSearch
  PROVE  IInv'
<1>1. /\ mode' = "FilterInput" /\ filterGlobal' \in BOOLEAN /\ filterCursor' = Len(filter)
      /\ UNCHANGED <<doc, view, filter, edits>> /\ narrowed
  BY DEF StartFilter, StartBrowserSearch, noEdit
<1>2. listed' \subseteq Files
  BY <1>1 DEF narrowed, filesFound
<1>3. Len(filter) \in Nat
  BY LenProperties DEF IInv, searchOK
<1>4. searchOK'
  BY <1>1, <1>2, <1>3 DEF IInv, searchOK
<1>5. cursorOK'
  BY <1>1 DEF IInv, cursorOK, view
<1> QED
  BY <1>1, <1>4, <1>5 DEF IInv, rowsOK, doc, view, made

LEMMA FilterKeysKeep ==
  ASSUME OutlineAssumption, IInv, FilterKeys
  PROVE  IInv'
<1>0. /\ filter \in Seq(Letters) /\ Len(filter) \in Nat /\ Len(filter) <= MaxFilter
      /\ filterCursor \in 0 .. Len(filter) /\ MaxFilter \in Nat
  BY LenProperties DEF IInv, searchOK, OutlineAssumption
<1>1. ASSUME NEW c \in Letters, FilterInsertChar(c)
      PROVE  IInv'
  <2> DEFINE k == filterCursor + 1
             s == InsertAt(filter, k, c)
  <2>1. Len(filter) < MaxFilter /\ Refilter(s, k) /\ k \in 1 .. Len(filter) + 1
    BY <1>0, <1>1 DEF FilterInsertChar
  <2> HIDE DEF k
  <2>2. s \in Seq(Letters) /\ Len(s) = Len(filter) + 1
    BY <1>0, <2>1, InsertAtIs
  <2> HIDE DEF s
  <2>3. Len(s) <= MaxFilter /\ k \in 0 .. Len(s)
    BY <1>0, <2>1, <2>2
  <2> QED
    BY <2>1, <2>2, <2>3, RefilterKeeps
<1>2. ASSUME FilterBackspace
      PROVE  IInv'
  <2> DEFINE k == filterCursor - 1
             s == RemoveAt(filter, filterCursor)
  <2>1. Refilter(s, k) /\ filterCursor \in 1 .. Len(filter) /\ k = filterCursor - 1
    BY <1>0, <1>2 DEF FilterBackspace
  <2> HIDE DEF k
  <2>2. s \in Seq(Letters) /\ Len(s) = Len(filter) - 1
    BY <1>0, <2>1, RemoveAtIs
  <2> HIDE DEF s
  <2>3. Len(s) <= MaxFilter /\ k \in 0 .. Len(s)
    BY <1>0, <2>1, <2>2
  <2> QED
    BY <2>1, <2>2, <2>3, RefilterKeeps
<1>3. ASSUME FilterDelete
      PROVE  IInv'
  <2> DEFINE k == filterCursor + 1
             s == RemoveAt(filter, k)
  <2>1. Refilter(s, filterCursor) /\ k \in 1 .. Len(filter) /\ filterCursor < Len(filter)
    BY <1>0, <1>3 DEF FilterDelete
  <2> HIDE DEF k
  <2>2. s \in Seq(Letters) /\ Len(s) = Len(filter) - 1
    BY <1>0, <2>1, RemoveAtIs
  <2> HIDE DEF s
  <2>3. Len(s) <= MaxFilter /\ filterCursor \in 0 .. Len(s)
    BY <1>0, <2>1, <2>2
  <2> QED
    BY <2>1, <2>2, <2>3, RefilterKeeps
<1>4. ASSUME NEW to \in 0 .. Len(filter), FilterMoveCursor(to)
      PROVE  IInv'
  <2>1. filterCursor' = to /\ UNCHANGED <<doc, view, filter, filterGlobal, listed, mode, edits>>
    BY <1>4 DEF FilterMoveCursor, noEdit
  <2> QED
    BY <2>1 DEF IInv, doc, view, made, rowsOK, cursorOK, searchOK
<1>5. ASSUME FilterAccept
      PROVE  IInv'
  BY <1>5 DEF FilterAccept, noEdit, IInv, doc, view, made, search, rowsOK, cursorOK, searchOK
<1>6. ASSUME FilterClear
      PROVE  IInv'
  <2>1. /\ mode' = "Browse" /\ filter' = <<>> /\ filterCursor' = 0 /\ filterGlobal' = FALSE
        /\ listed' = Files /\ UNCHANGED <<doc, edits>> /\ RebuildRows
    BY <1>6 DEF FilterClear, noEdit
  <2>2. documentOK'
    BY <2>1 DEF IInv, documentOK, doc
  <2>3. rowsOK' /\ rowsRevealed' = revealed' /\ cursorOK'
    BY <2>1, <2>2, RebuildRowsKeeps
  <2>4. searchOK'
    <3>1. <<>> \in Seq(Letters) /\ Len(<<>>) = 0
      OBVIOUS
    <3>2. filter' \in Seq(Letters) /\ Len(filter') = 0 /\ filterCursor' = 0
          /\ filterGlobal' = FALSE /\ listed' = Files
      BY <2>1, <3>1
    <3>3. 0 <= MaxFilter /\ 0 \in 0 .. 0
      BY <1>0
    <3> QED
      BY <3>2, <3>3 DEF searchOK
  <2> QED
    BY <2>1, <2>2, <2>3, <2>4 DEF IInv, documentOK, doc
<1> QED
  BY <1>1, <1>2, <1>3, <1>4, <1>5, <1>6 DEF FilterKeys

LEMMA KeysKeep ==
  ASSUME IInv, Keys
  PROVE  IInv'
<1>1. CASE \E i \in DOMAIN rows : Select(i)
  <2>1. PICK i \in DOMAIN rows : Select(i)
    BY <1>1
  <2>2. rows # <<>>
    BY <2>1 DEF Select, inTree
  <2> QED
    BY <2>1, <2>2, SelectKeeps
<1>2. CASE ToggleExpand
  <2>1. rows # <<>> /\ Fold(foldState(selectedRow) = "closed")
    BY <1>2 DEF ToggleExpand, inTree
  <2>2. (foldState(selectedRow) = "closed") \in BOOLEAN
    OBVIOUS
  <2> DEFINE b == foldState(selectedRow) = "closed"
  <2>3. Fold(b) /\ b \in BOOLEAN
    BY <2>1, <2>2
  <2> HIDE DEF b
  <2> QED
    BY <2>1, <2>3, FoldKeeps
<1>3. CASE CollapseOrParent
  <2>1. rows # <<>> /\ (Fold(FALSE) \/ Select(parentRow(selected)))
    BY <1>3 DEF CollapseOrParent, inTree
  <2>2. parentRow(selected) \in DOMAIN rows
    BY <2>1, SelectedHasARow, ParentRowIsARow
  <2>3. ASSUME Fold(FALSE)
        PROVE  IInv'
    <3> DEFINE b == FALSE
    <3>1. b \in BOOLEAN /\ Fold(b)
      BY <2>3
    <3> HIDE DEF b
    <3> QED
      BY <2>1, <3>1, FoldKeeps
  <2> QED
    BY <2>1, <2>2, <2>3, SelectKeeps
<1>4. CASE ExpandOrChild
  <2> DEFINE i == clamped(selected + 1, rows)
  <2>1. rows # <<>> /\ (Fold(TRUE) \/ Select(i))
    BY <1>4 DEF ExpandOrChild, inTree
  <2>2. i \in DOMAIN rows
    <3>1. selected + 1 \in Nat /\ selected + 1 >= 1 /\ rows \in Seq(Rows)
      BY <2>1, SelectedHasARow, InvIsShown, ShownRows
    <3>2. fits(i, rows)
      BY <3>1, ClampedFits
    <3> QED
      BY <2>1, <3>2 DEF fits
  <2>3. ASSUME Fold(TRUE)
        PROVE  IInv'
    <3> DEFINE b == TRUE
    <3>1. b \in BOOLEAN /\ Fold(b)
      BY <2>3
    <3> HIDE DEF b
    <3> QED
      BY <2>1, <3>1, FoldKeeps
  <2> HIDE DEF i
  <2> QED
    BY <2>1, <2>2, <2>3, SelectKeeps
<1> QED
  BY <1>1, <1>2, <1>3, <1>4, StartSearchKeeps DEF Keys

-----------------------------------------------------------------------------
(* The edits.                                                              *)
LEMMA EnclosedIs ==
  ASSUME NEW F, isForest(F), NEW p \in DOMAIN F
  PROVE  /\ Front(p) \in Paths /\ (Front(p) = <<>> \/ Front(p) \in DOMAIN F)
         /\ Last(p) \in 1 .. arity(F, Front(p)) /\ arity(F, Front(p)) \in Nat
         /\ p = Append(Front(p), Last(p)) /\ Last(p) \in Steps
<1>1. p \in Paths /\ p # <<>> /\ (Len(p) > 1 => Front(p) \in DOMAIN F)
  BY ForestIs
<1>2. Front(p) \in Paths /\ Len(Front(p)) = Len(p) - 1 /\ Last(p) \in Steps
      /\ p = Append(Front(p), Last(p)) /\ Len(p) \in Nat /\ Len(p) > 0
  BY <1>1, FrontIs, FrontAndLast, PathIs
<1>3. Len(p) > 1 \/ Front(p) = <<>>
  <2>1. Len(p) > 1 \/ Len(Front(p)) = 0
    BY <1>2
  <2>2. Len(Front(p)) = 0 => Front(p) = <<>>
    BY <1>2, PathIs
  <2> QED
    BY <2>1, <2>2
<1>4. arity(F, Front(p)) \in Nat /\ Last(p) \in 1 .. arity(F, Front(p))
  BY <1>2, ChildrenAre
<1> QED
  BY <1>1, <1>2, <1>3, <1>4

(* What every edit hands over to App::rebuild: a forest that comes from    *)
(* the one of the selected row, with the node "id" at "path".              *)
isSource(whose) ==
  \/ whose = Document
  \/ whose.region \in DOMAIN revealed /\ whose = source(revealed[whose.region].of, whose.region)

isEdit(whose, G, path, id) ==
  /\ isSource(whose) /\ edits < MaxEdits
  /\ \E S : isForestOf(G, S) /\ (whose = Document => \A s \in S : isForest(s))
  /\ \E o : comesFrom(forestOf(whose), G, o, path, inserted)
  /\ id = NoId \/ (path \in DOMAIN G /\ G[path].id = id)

edit == \E whose, G, path, id : isEdit(whose, G, path, id) /\ Rebuild(whose, G, path, id)

LEMMA SelectedIsEditable ==
  ASSUME IInv, rows # <<>>, foldable(selectedRow)
  PROVE  LET r == selectedRow
             F == forestOf(r.source)
         IN /\ isSource(r.source)
            /\ r.path \in DOMAIN F /\ r.path \in Paths /\ nodeForRow(r) = F[r.path]
            /\ \E S : /\ isForestOf(F, S) /\ <<>> \in S
                      /\ r.source = Document => \A s \in S : isForest(s)
<1>1. /\ selectedRow \in Range(rows) /\ selectedRow.source # Placeholder
      /\ selectedRow.source = Document \/ selectedRow.source.region \in DOMAIN revealed
  BY SelectedHasARow DEF foldable, carriesNode, hasNode
<1> QED
  BY <1>1, RowOfForest DEF isSource, nodeForRow

LEMMA CommitEditIs ==
  ASSUME IInv, NEW word \in Seq(Letters), CommitEdit(word)
  PROVE  edit
<1> DEFINE r == selectedRow
           F == forestOf(r.source)
           m == F[r.path]
           n == [m EXCEPT !.says = word, !.encapsulates = FALSE]
           G == put(F, r.path, n)
<1>1. edits < MaxEdits /\ rows # <<>> /\ foldable(r)
  BY DEF CommitEdit, mayEdit
<1>2. isSource(r.source) /\ r.path \in DOMAIN F /\ nodeForRow(r) = m
  BY <1>1, SelectedIsEditable
<1>3. PICK S : isForestOf(F, S) /\ (r.source = Document => \A s \in S : isForest(s))
  BY <1>1, SelectedIsEditable
<1>4. Rebuild(r.source, G, r.path, m.id)
  BY <1>2 DEF CommitEdit
<1>5. isNode(m) /\ m.secret \in S
  BY <1>2, <1>3 DEF isForestOf, holding
<1> HIDE DEF m
<1>6. isNode(n) /\ n.secret = m.secret /\ n.id = m.id /\ n.expanded = m.expanded
  BY <1>5 DEF isNode
<1>m. m = F[r.path]
  BY DEF m
<1> HIDE DEF n, F
<1>7. isForestOf(G, S) /\ r.path \in DOMAIN G /\ G[r.path].id = n.id
      /\ \E o : comesFrom(F, G, o, r.path, inserted)
  BY <1>2, <1>3, <1>5, <1>6, <1>m, ChangedComesFrom
<1> HIDE DEF G
<1>8. isEdit(r.source, G, r.path, m.id)
  BY <1>1, <1>2, <1>3, <1>6, <1>7 DEF isEdit, F
<1> QED
  BY <1>4, <1>8 DEF edit

LEMMA OpenedIs ==
  ASSUME NEW S, NEW F, isForestOf(F, S), NEW parent, parent = <<>> \/ parent \in DOMAIN F
  PROVE  LET opened == IF parent = <<>> THEN F ELSE [F EXCEPT ![parent].expanded = TRUE]
         IN /\ isForestOf(opened, S) /\ DOMAIN opened = DOMAIN F
            /\ \A x \in DOMAIN F : /\ opened[x].id = F[x].id /\ opened[x].secret = F[x].secret
                                    /\ F[x].expanded => opened[x].expanded
<1> DEFINE opened == IF parent = <<>> THEN F ELSE [F EXCEPT ![parent].expanded = TRUE]
<1>1. CASE parent = <<>>
  BY <1>1
<1>2. CASE parent # <<>>
  <2> DEFINE m == F[parent]
             k == [m EXCEPT !.expanded = TRUE]
  <2>1. parent \in DOMAIN F /\ isNode(m) /\ m.secret \in S
    BY <1>2 DEF isForestOf, holding
  <2>2. F = [p \in DOMAIN F |-> F[p]]
    BY ForestIs DEF isForestOf
  <2>3. opened = put(F, parent, k)
    BY <1>2, <2>1, <2>2 DEF put
  <2>m. m = F[parent]
    OBVIOUS
  <2> HIDE DEF m, opened
  <2>4. isNode(k) /\ k.secret = m.secret /\ k.id = m.id /\ k.expanded = TRUE
    <3>1. isNode(k) /\ k.secret = m.secret /\ k.expanded = TRUE
      BY <2>1, FoldedNode
    <3>2. k.id = m.id
      BY <2>1 DEF isNode
    <3> QED
      BY <3>1, <3>2
  <2> HIDE DEF k
  <2>5. /\ isForestOf(opened, S) /\ DOMAIN opened = DOMAIN F
        /\ opened = [p \in DOMAIN F |-> IF p = parent THEN k ELSE F[p]]
    BY <2>1, <2>3, <2>4, PutIs
  <2>6. \A x \in DOMAIN F : opened[x] = IF x = parent THEN k ELSE F[x]
    BY <2>5
  <2> QED
    BY <2>4, <2>5, <2>6, <2>m DEF opened
<1> QED
  BY <1>1, <1>2

LEMMA ComesFromClosed ==
  ASSUME NEW F, NEW opened, DOMAIN opened = DOMAIN F,
         \A x \in DOMAIN F : /\ opened[x].id = F[x].id /\ opened[x].secret = F[x].secret
                             /\ F[x].expanded => opened[x].expanded,
         NEW G, NEW o, NEW path, NEW m, comesFrom(opened, G, o, path, m)
  PROVE  comesFrom(F, G, o, path, m)
<1>1. ASSUME NEW x \in DOMAIN G, o[x] # <<>>
      PROVE  /\ o[x] \in DOMAIN F /\ G[x].id = F[o[x]].id /\ G[x].secret = F[o[x]].secret
             /\ F[o[x]].expanded => G[x].expanded
  <2>1. /\ o[x] \in DOMAIN opened /\ G[x].id = opened[o[x]].id
        /\ G[x].secret = opened[o[x]].secret
        /\ opened[o[x]].expanded => G[x].expanded
    BY <1>1 DEF comesFrom
  <2>2. o[x] \in DOMAIN F
    BY <2>1
  <2>3. opened[o[x]].id = F[o[x]].id /\ opened[o[x]].secret = F[o[x]].secret
    BY <2>2
  <2>4. F[o[x]].expanded => opened[o[x]].expanded
    BY <2>2, Zenon
  <2>5. F[o[x]].expanded => G[x].expanded
    BY <2>1, <2>4, Zenon
  <2> QED
    BY <2>1, <2>2, <2>3, <2>5
<1> QED
  BY <1>1 DEF comesFrom

LEMMA InsertIs ==
  ASSUME IInv, edits < MaxEdits, NEW whose, isSource(whose), NEW S, isForestOf(forestOf(whose), S),
         whose = Document => \A s \in S : isForest(s),
         NEW parent, parent = <<>> \/ parent \in DOMAIN forestOf(whose),
         NEW index \in 1 .. arity(forestOf(whose), parent) + 1,
         NEW n, isNode(n), n.secret \in S, n.secret = <<>>, n.id = inserted,
         Insert(whose, parent, index, n)
  PROVE  edit
<1> DEFINE F == forestOf(whose)
           opened == IF parent = <<>> THEN F ELSE [F EXCEPT ![parent].expanded = TRUE]
           G == putSiblings(opened, parent, InsertAt(siblings(opened, parent), index, leaf(n)))
           path == Append(parent, index)
<1>1. Rebuild(whose, G, path, n.id)
  BY DEF Insert
<1>2. /\ isForestOf(opened, S) /\ DOMAIN opened = DOMAIN F
      /\ \A x \in DOMAIN F : /\ opened[x].id = F[x].id /\ opened[x].secret = F[x].secret
                              /\ F[x].expanded => opened[x].expanded
  <2> HIDE DEF F
  <2>1. isForestOf(F, S) /\ (parent = <<>> \/ parent \in DOMAIN F)
    BY DEF F
  <2> QED
    BY <2>1, OpenedIs
<1>3. parent \in Paths
  BY ForestIs, EmptyIsAPath DEF isForestOf
<1>4. index \in 1 .. arity(opened, parent) + 1 /\ (parent = <<>> \/ parent \in DOMAIN opened)
  <2>1. arity(opened, parent) = arity(F, parent)
    BY <1>2 DEF arity
  <2> QED
    BY <1>2, <2>1
<1>2o. /\ DOMAIN opened = DOMAIN F
       /\ \A x \in DOMAIN F : /\ opened[x].id = F[x].id /\ opened[x].secret = F[x].secret
                              /\ F[x].expanded => opened[x].expanded
  BY ONLY <1>2
<1> HIDE DEF opened, F
<1>5. isForestOf(G, S) /\ path \in DOMAIN G /\ G[path].id = n.id
      /\ \E o : comesFrom(opened, G, o, path, n.id)
  BY <1>2, <1>3, <1>4, InsertedComesFrom
<1> HIDE DEF G, path
<1>6. PICK o : comesFrom(opened, G, o, path, inserted)
  BY <1>5
<1>7. comesFrom(F, G, o, path, inserted)
  <2> DEFINE m == inserted
  <2>1. comesFrom(opened, G, o, path, m)
    BY <1>6
  <2> HIDE DEF m
  <2>2. comesFrom(F, G, o, path, m)
    BY <1>2o, <2>1, ComesFromClosed
  <2> QED
    BY <2>2 DEF m
<1>8. isEdit(whose, G, path, n.id)
  BY <1>5, <1>7 DEF isEdit, F
<1> QED
  BY <1>1, <1>8 DEF edit

LEMMA CommitInsertIs ==
  ASSUME IInv, NEW asChild \in BOOLEAN, NEW n, isNode(n), n.secret = <<>>, n.id = inserted,
         CommitInsert(asChild, n)
  PROVE  edit
<1>1. edits < MaxEdits /\ (rows # <<>> => foldable(selectedRow))
  BY DEF CommitInsert, mayEdit
<1>2. CASE rows = <<>>
  <2>1. Insert(Document, <<>>, 1, n) /\ forestOf(Document) = roots
    BY <1>2 DEF CommitInsert, forestOf
  <2>2. PICK S : isForestOf(roots, S) /\ \A s \in S : isForest(s)
    BY DocumentIs DEF IInv
  <2> DEFINE T == S \cup {<<>>}
  <2>3. isForest(<<>>)
    <3>1. IsFiniteSet({}) /\ DOMAIN <<>> = {} /\ <<>> = [p \in {} |-> <<>>[p]]
      BY FS_EmptySet
    <3> QED
      BY <3>1 DEF isForest
  <2>4. isForestOf(forestOf(Document), T) /\ (\A s \in T : isForest(s)) /\ n.secret \in T
    BY <2>1, <2>2, <2>3 DEF isForestOf, holding
  <2>5. 1 \in 1 .. arity(forestOf(Document), <<>>) + 1
    <3>1. arity(forestOf(Document), <<>>) \in Nat
      BY <2>4, EmptyIsAPath, ChildrenAre DEF isForestOf
    <3> QED
      BY <3>1
  <2> HIDE DEF T
  <2> DEFINE whose == Document
             parent == <<>>
             index == 1
  <2>6. /\ isForestOf(forestOf(whose), T) /\ (whose = Document => \A s \in T : isForest(s))
        /\ isSource(whose)
        /\ (parent = <<>> \/ parent \in DOMAIN forestOf(whose))
        /\ index \in 1 .. arity(forestOf(whose), parent) + 1
        /\ Insert(whose, parent, index, n)
    BY <2>1, <2>4, <2>5 DEF isSource
  <2> HIDE DEF whose, parent, index
  <2> QED
    BY <1>1, <2>4, <2>6, InsertIs
<1>3. CASE rows # <<>>
  <2> DEFINE r == selectedRow
             F == forestOf(r.source)
  <2>2. r.path \in DOMAIN F /\ r.path \in Paths /\ isSource(r.source)
    BY <1>1, <1>3, SelectedIsEditable
  <2>3. PICK S : isForestOf(F, S) /\ <<>> \in S /\ (r.source = Document => \A s \in S : isForest(s))
    BY <1>1, <1>3, SelectedIsEditable
  <2>4. isForest(F)
    BY <2>3 DEF isForestOf
  <2>5. /\ Front(r.path) \in Paths /\ (Front(r.path) = <<>> \/ Front(r.path) \in DOMAIN F)
        /\ Last(r.path) \in 1 .. arity(F, Front(r.path)) /\ arity(F, Front(r.path)) \in Nat
    BY <2>2, <2>4, EnclosedIs
  <2>6. CASE asChild
    <3> DEFINE index == 1
    <3>1. Insert(r.source, r.path, index, n)
      BY <1>3, <2>6 DEF CommitInsert
    <3>2. index \in 1 .. arity(F, r.path) + 1
      <4>1. arity(F, r.path) \in Nat
        BY <2>2, <2>4, ChildrenAre
      <4> QED
        BY <4>1
    <3> HIDE DEF index
    <3> QED
      BY <1>1, <2>2, <2>3, <3>1, <3>2, InsertIs
  <2>7. CASE ~asChild
    <3> DEFINE index == Last(r.path) + 1
    <3>1. Insert(r.source, Front(r.path), index, n)
      BY <1>3, <2>7 DEF CommitInsert
    <3>2. index \in 1 .. arity(F, Front(r.path)) + 1
      BY <2>5
    <3> HIDE DEF index
    <3> QED
      BY <1>1, <2>2, <2>3, <2>5, <3>1, <3>2, InsertIs
  <2> QED
    BY <2>6, <2>7
<1> QED
  BY <1>2, <1>3

LEMMA MoveSelectedIs ==
  ASSUME IInv, rows # <<>>, NEW to, MoveSelected(to)
  PROVE  edit
<1> DEFINE r == selectedRow
           F == forestOf(r.source)
           parent == Front(r.path)
           s == siblings(F, parent)
           from == Last(r.path)
           G == putSiblings(F, parent, [s EXCEPT ![from] = s[to], ![to] = s[from]])
           path == Append(parent, to)
           id == F[r.path].id
<1>1. edits < MaxEdits /\ foldable(r) /\ to \in DOMAIN s
  BY DEF MoveSelected, mayEdit
<1>2. isSource(r.source) /\ r.path \in DOMAIN F /\ nodeForRow(r) = F[r.path]
  BY <1>1, SelectedIsEditable
<1>3. PICK S : isForestOf(F, S) /\ (r.source = Document => \A t \in S : isForest(t))
  BY <1>1, SelectedIsEditable
<1>4. Rebuild(r.source, G, path, id)
  BY <1>2 DEF MoveSelected
<1>5. /\ parent \in Paths /\ (parent = <<>> \/ parent \in DOMAIN F) /\ from \in 1 .. arity(F, parent)
      /\ r.path = Append(parent, from)
  BY <1>2, <1>3, EnclosedIs DEF isForestOf
<1>6. id = F[Append(parent, from)].id
  BY <1>5
<1>f. F = forestOf(r.source)
  OBVIOUS
<1> HIDE DEF F, parent, from, id
<1>7. to \in 1 .. arity(F, parent)
  BY <1>1, <1>3, <1>5, SiblingsAre
<1>8. isForestOf(G, S) /\ path \in DOMAIN G /\ G[path] = F[Append(parent, from)]
      /\ \E o : comesFrom(F, G, o, path, inserted)
  BY <1>3, <1>5, <1>7, MovedComesFrom
<1> HIDE DEF G, path, s
<1>9. isEdit(r.source, G, path, id)
  BY <1>1, <1>2, <1>3, <1>6, <1>8, <1>f DEF isEdit
<1> QED
  BY <1>4, <1>9 DEF edit

LEMMA DeleteSelectedIs ==
  ASSUME IInv, DeleteSelected
  PROVE  edit
<1> DEFINE r == selectedRow
           F == forestOf(r.source)
           parent == Front(r.path)
           from == Last(r.path)
           G == putSiblings(F, parent, RemoveAt(siblings(F, parent), from))
<1>1. edits < MaxEdits /\ foldable(r) /\ rows # <<>> /\ Rebuild(r.source, G, r.path, NoId)
  BY DEF DeleteSelected, mayEdit
<1>2. isSource(r.source) /\ r.path \in DOMAIN F
  BY <1>1, SelectedIsEditable
<1>3. PICK S : isForestOf(F, S) /\ (r.source = Document => \A t \in S : isForest(t))
  BY <1>1, SelectedIsEditable
<1>4. /\ parent \in Paths /\ (parent = <<>> \/ parent \in DOMAIN F) /\ from \in 1 .. arity(F, parent)
  BY <1>2, <1>3, EnclosedIs DEF isForestOf
<1>f. F = forestOf(r.source)
  OBVIOUS
<1> HIDE DEF F, parent, from
<1>5. isForestOf(G, S) /\ \E o : comesFrom(F, G, o, r.path, inserted)
  BY <1>3, <1>4, RemovedComesFrom
<1> HIDE DEF G
<1>6. isEdit(r.source, G, r.path, NoId)
  BY <1>1, <1>2, <1>3, <1>5, <1>f DEF isEdit
<1> QED
  BY <1>1, <1>6 DEF edit

LEMMA InsertedIsANode ==
  ASSUME OutlineAssumption, IInv, NEW l \in Letters
  PROVE  LET n == node(inserted, <<l>>, FALSE, "none", <<>>)
         IN isNode(n) /\ n.secret = <<>> /\ n.id = inserted
<1>1. inserted \in Nat
  BY DEF inserted, IInv, OutlineAssumption
<1>2. <<l>> \in Seq(Letters)
  OBVIOUS
<1> QED
  BY <1>1, <1>2 DEF node, isNode

LEMMA EditIs ==
  ASSUME OutlineAssumption, IInv, Edit
  PROVE  edit
<1>1. CASE \E w \in {<<l>> : l \in Letters} : CommitEdit(w)
  <2>1. PICK l \in Letters : CommitEdit(<<l>>)
    BY <1>1
  <2> DEFINE w == <<l>>
  <2>2. w \in Seq(Letters) /\ CommitEdit(w)
    BY <2>1
  <2> HIDE DEF w
  <2> QED
    BY <2>2, CommitEditIs
<1>2. CASE \E asChild \in BOOLEAN, l \in Letters :
             CommitInsert(asChild, node(inserted, <<l>>, FALSE, "none", <<>>))
  <2>1. PICK asChild \in BOOLEAN, l \in Letters :
               CommitInsert(asChild, node(inserted, <<l>>, FALSE, "none", <<>>))
    BY <1>2
  <2> DEFINE n == node(inserted, <<l>>, FALSE, "none", <<>>)
  <2>2. CommitInsert(asChild, n) /\ isNode(n) /\ n.secret = <<>> /\ n.id = inserted
    BY <2>1, InsertedIsANode
  <2> HIDE DEF n
  <2> QED
    BY <2>2, CommitInsertIs
<1>3. CASE \E d \in {0, 2} : rows # <<>> /\ MoveSelected(Last(selectedRow.path) + d - 1)
  BY <1>3, MoveSelectedIs
<1>4. CASE DeleteSelected
  BY <1>4, DeleteSelectedIs
<1> QED
  BY <1>1, <1>2, <1>3, <1>4 DEF Edit

LEMMA EditKeeps ==
  ASSUME OutlineAssumption, IInv, Edit
  PROVE  IInv'
<1>1. PICK whose, G, path, id : isEdit(whose, G, path, id) /\ Rebuild(whose, G, path, id)
  BY EditIs DEF edit
<1>2. PICK S : isForestOf(G, S) /\ (whose = Document => \A s \in S : isForest(s))
  BY <1>1 DEF isEdit
<1>3. (whose = Document => isDocument(G)) /\ isForest(G)
  BY <1>2, DocumentIs DEF isForestOf
<1>4. (whose # Document => whose.region \in DOMAIN revealed) /\ edits < MaxEdits
  BY <1>1 DEF isEdit, isSource
<1> QED
  BY <1>1, <1>3, <1>4, RebuildKeeps

LEMMA IInvKept ==
  ASSUME OutlineAssumption, IInv, [Next]_vars
  PROVE  IInv'
<1>1. CASE UNCHANGED vars
  BY <1>1 DEF vars, doc, view, made, search, IInv, rowsOK, cursorOK, searchOK
<1>2. CASE Next
  BY <1>2, OpenFileKeeps, UnlockKeeps, UnlockFailsKeeps, KeysKeep, FilterKeysKeep, EditKeeps DEF Next
<1> QED
  BY <1>1, <1>2

LEMMA Invariant == Spec => []IInv
<1>1. Init => IInv
  BY OutlineAssumption, InitKeeps
<1>2. IInv /\ [Next]_vars => IInv'
  BY OutlineAssumption, IInvKept
<1> QED
  BY <1>1, <1>2, PTL DEF Spec

LEMMA InvIsTyped ==
  ASSUME IInv
  PROVE  TypeOK
<1>1. ASSUME NEW i \in DOMAIN rows
      PROVE  \/ rows[i].source = Placeholder /\ rowsRevealed = <<>>
             \/ rows[i].source = Document /\ rows[i].path \in DOMAIN roots
             \/ /\ rows[i].source.region \in DOMAIN rowsRevealed
                /\ rows[i].path \in DOMAIN rowsRevealed[rows[i].source.region].roots
  <2> DEFINE r == rows[i]
  <2>1. r \in Range(rows)
    BY DEF Range
  <2> HIDE DEF r
  <2>2. ofDocument(r) \/ ofLock(r) \/ \E k \in DOMAIN rowsRevealed : ofRegion(r, k)
    BY <2>1, InvIsShown, RowsAre
  <2>3. \A k \in DOMAIN rowsRevealed : ofRegion(r, k) => r.source.region = k
    BY DEF ofRegion, source
  <2>4. \/ r.source = Placeholder /\ rowsRevealed = <<>>
        \/ r.source = Document /\ r.path \in DOMAIN roots
        \/ /\ r.source.region \in DOMAIN rowsRevealed
           /\ r.path \in DOMAIN rowsRevealed[r.source.region].roots
    BY <2>2, <2>3 DEF ofDocument, ofLock, ofRegion
  <2> QED
    BY <2>4 DEF r
<1> QED
  BY <1>1 DEF IInv, TypeOK, cursorOK, searchOK

(* A row that is no lock stands for a node: of the document, or of a       *)
(* region that was revealed when the rows were made, and is still unless a *)
(* wrong password hid it (App::rebuild_rows and node_for_row); and the     *)
(* cursor is on a row.                                                     *)
THEOREM TypeCorrect == Spec => []TypeOK
<1>1. IInv => TypeOK
  BY InvIsTyped
<1> QED
  BY <1>1, Invariant, PTL

(* The rows are the outline of the document, in its order, whatever was    *)
(* edited, folded, revealed and searched for; what they show to be         *)
(* revealed is what is, or was until a wrong password hid it               *)
(* (App::rebuild_rows, submit_pkcs8_password and submit_pkcs12_password).  *)
THEOREM RowsOutline == Spec => []RowsAreTheOutline
<1>1. IInv => RowsAreTheOutline
  BY InvIsShown, OutlineIsShown DEF IInv, RowsAreTheOutline
<1> QED
  BY <1>1, Invariant, PTL

-----------------------------------------------------------------------------
(* Where Left goes: the row that encloses another, in the order of the     *)
(* document.                                                               *)
LEMMA BetweenIs ==
  ASSUME NEW p \in Places, NEW f \in Places, NEW x \in Places, IsPrefix(f, p),
         lexBefore(f, x), x = p \/ lexBefore(x, p), f # p
  PROVE  IsPrefix(f, x) /\ Len(f) < Len(x)
<1>1. /\ Len(p) \in Nat /\ Len(f) \in Nat /\ Len(x) \in Nat
      /\ Len(f) <= Len(p) /\ \A i \in 1 .. Len(f) : f[i] = p[i]
  BY PlaceIs, PlacePrefixIs
<1>2. PICK n \in Nat : parts(f, x, n)
  BY BeforeIs
<1>3. /\ n \in 1 .. Len(x) /\ n <= Len(f) + 1
      /\ \A m \in 1 .. n - 1 : f[m] = x[m]
      /\ n <= Len(f) => f[n] < x[n]
  BY <1>2 DEF parts
<1>4. CASE n <= Len(f)
  <2>1. n \in 1 .. Len(p) /\ n <= Len(x) + 1 /\ n \in 1 .. Len(f)
        /\ \A m \in 1 .. n - 1 : m \in 1 .. Len(f)
    BY <1>1, <1>3, <1>4
  <2>2. \A m \in 1 .. n - 1 : p[m] = x[m]
    BY <1>1, <1>3, <2>1
  <2>3. p[n] < x[n]
    BY <1>1, <1>3, <1>4, <2>1
  <2>4. parts(p, x, n)
    BY <1>3, <2>1, <2>2, <2>3, <1>1 DEF parts
  <2>5. lexBefore(p, x)
    BY <2>4, BeforeIs
  <2>6. lexBefore(p, p)
    BY <2>5, BeforeIsTransitive
  <2> QED
    BY <2>6, BeforeIsStrict
<1>5. CASE ~(n <= Len(f))
  <2>1. n = Len(f) + 1 /\ Len(f) < Len(x) /\ n - 1 = Len(f)
    BY <1>1, <1>3, <1>5
  <2>2. \A m \in 1 .. Len(f) : f[m] = x[m]
    BY <1>3, <2>1
  <2>3. IsPrefix(f, x)
    BY <1>1, <2>1, <2>2, PlacePrefixIs
  <2> QED
    BY <2>1, <2>3
<1> QED
  BY <1>4, <1>5

LEMMA EnclosingRowed ==
  ASSUME NEW F, isForest(F), NEW c, NEW q \in rowed(F, c), Len(q) > 1
  PROVE  Front(q) \in rowed(F, c) /\ unseen(F, c)[Front(q)] = FALSE
<1>1. q \in DOMAIN F /\ q \in Paths /\ q # <<>> /\ Front(q) \in DOMAIN F
  BY ForestIs DEF rowed
<1>2. Front(q) \in Paths /\ Len(Front(q)) = Len(q) - 1 /\ IsPrefix(Front(q), q) /\ Len(q) \in Nat
  BY <1>1, FrontIs, FrontIsPrefix, PathIs
<1>3. seen(F, c, Front(q))
  <2>1. CASE c.filter = <<>>
    <3>1. \A n \in 1 .. Len(q) - 1 : F[SubSeq(q, 1, n)].expanded
      BY <2>1 DEF rowed, seen
    <3>2. ASSUME NEW n \in 1 .. Len(Front(q)) - 1
          PROVE  F[SubSeq(Front(q), 1, n)].expanded
      <4>1. n \in Nat /\ n \in 1 .. Len(q) - 1 /\ Len(q) - 1 \in 0 .. Len(q) /\ n <= Len(q) - 1
        BY <1>2
      <4>2. SubSeq(SubSeq(q, 1, Len(q) - 1), 1, n) = SubSeq(q, 1, n)
        BY <1>1, <4>1, HeadOfHead
      <4>3. F[SubSeq(q, 1, n)].expanded
        BY <3>1, <4>1
      <4> QED
        BY <4>2, <4>3 DEF Front
    <3> QED
      BY <2>1, <3>2 DEF seen
  <2>2. CASE c.filter # <<>>
    <3>a. has(F, c, q) \/ starts(F, c, q)
      BY <2>2 DEF rowed, seen
    <3>b. Len(q) # 1
      BY <1>2
    <3>1. has(F, c, q) \/ has(F, c, Front(q))
      BY <3>a, <3>b DEF starts
    <3>2. has(F, c, Front(q))
      BY <1>1, <1>2, <3>1, HasIsInherited
    <3> QED
      BY <2>2, <3>2 DEF seen
  <2> QED
    BY <2>1, <2>2
<1> QED
  BY <1>1, <1>3 DEF rowed, unseen

LEMMA PositionIs ==
  ASSUME Shown, NEW r \in Range(rows)
  PROVE  /\ position(r) \in Places
         /\ ofDocument(r) => position(r) = r.path
         /\ ofLock(r) => position(r) = Append(r.path, 0)
         /\ \A k : ofRegion(r, k) => /\ position(r) = within(rowsRevealed[k].at, r.path)
                                     /\ r.source # Document /\ r.source # Placeholder
                                     /\ r.source.region = k /\ r.source.of = rowsRevealed[k].of
                                     /\ rowsRevealed[k].at \in Paths /\ rowsRevealed[k].at # <<>>
<1>1. /\ r.path \in Paths
      /\ ofDocument(r) \/ ofLock(r) \/ \E k \in DOMAIN rowsRevealed : ofRegion(r, k)
  BY RowsAre
<1>2. ofDocument(r) => position(r) = r.path /\ position(r) \in Places
  BY <1>1, PathsArePlaces DEF ofDocument, position
<1>3. ofLock(r) => position(r) = Append(r.path, 0) /\ position(r) \in Places
  <2>1. Placeholder # Document
    BY SourcesDiffer DEF Kinds
  <2>2. inside(r.path, Append(r.path, 0))
    BY <1>1, LockIsInside
  <2> QED
    BY <2>1, <2>2 DEF ofLock, position, inside
<1>4. ASSUME NEW k, ofRegion(r, k)
      PROVE  /\ position(r) = within(rowsRevealed[k].at, r.path) /\ position(r) \in Places
             /\ r.source # Document /\ r.source # Placeholder
             /\ r.source.region = k /\ r.source.of = rowsRevealed[k].of
             /\ rowsRevealed[k].at \in Paths /\ rowsRevealed[k].at # <<>>
  <2>1. k \in DOMAIN rowsRevealed /\ r.source = source(rowsRevealed[k].of, k)
    BY <1>4 DEF ofRegion
  <2>2. rowsRevealed[k].of \in Kinds /\ rowsRevealed[k].at \in DOMAIN roots
    BY <2>1 DEF Shown, areRegions, isRegion
  <2>3. r.source # Document /\ r.source # Placeholder /\ r.source.region = k
        /\ r.source.of = rowsRevealed[k].of
    BY <2>1, <2>2, SourcesDiffer
  <2>4. rowsRevealed[k].at \in Paths /\ rowsRevealed[k].at # <<>>
    BY <2>2, ForestIs DEF Shown
  <2>5. position(r) = within(rowsRevealed[k].at, r.path)
    BY <2>3 DEF position, within
  <2> QED
    BY <1>1, <2>3, <2>4, <2>5, WithinIs
<1> QED
  BY <1>1, <1>2, <1>3, <1>4

LEMMA DepthAtLeast ==
  ASSUME Shown, NEW r \in Range(rows), NEW f \in Paths, IsPrefix(f, position(r)),
         Len(f) < Len(position(r))
  PROVE  r.depth >= Len(f)
<1> DEFINE x == position(r)
<1>1. /\ r \in Rows /\ r.path \in Paths
      /\ ofDocument(r) \/ ofLock(r) \/ \E k \in DOMAIN rowsRevealed : ofRegion(r, k)
  BY RowsAre
<1>2. /\ x \in Places /\ f \in Places /\ Len(f) \in Nat /\ Len(r.path) \in Nat
      /\ Len(f) <= Len(x) /\ \A i \in 1 .. Len(f) : f[i] = x[i]
  BY <1>1, PositionIs, PathsArePlaces, PlaceIs, PlacePrefixIs
<1>3. CASE ofDocument(r)
  <2>1. x = r.path /\ r.depth = Len(r.path) - 1
    BY <1>3, PositionIs DEF ofDocument
  <2> HIDE DEF x
  <2>2. Len(f) < Len(r.path)
    BY <2>1 DEF x
  <2> QED
    BY <1>2, <2>1, <2>2
<1>4. CASE ofLock(r)
  <2>1. x = Append(r.path, 0)
    BY <1>4, PositionIs
  <2>2. Len(x) = Len(r.path) + 1
    BY <1>1, <2>1 DEF Paths
  <2>3. PICK d \in ownRows : d.path = r.path /\ r.depth = d.depth + 1
    BY <1>4 DEF ofLock
  <2>4. d.depth = Len(r.path) - 1
    BY <2>3, OwnRowsAreRows
  <2>5. Len(f) < Len(x)
    OBVIOUS
  <2> HIDE DEF x
  <2> QED
    BY <1>2, <2>2, <2>3, <2>4, <2>5
<1>5. ASSUME NEW k \in DOMAIN rowsRevealed, ofRegion(r, k)
      PROVE  r.depth >= Len(f)
  <2> DEFINE p == rowsRevealed[k].at
  <2>1. x = within(p, r.path) /\ p \in Paths
    BY <1>5, PositionIs
  <2>2. PICK d \in ownRows : d.path = p /\ r.depth = d.depth + Len(r.path)
    BY <1>5 DEF ofRegion
  <2>3. d.depth = Len(p) - 1
    BY <2>2, OwnRowsAreRows
  <2> DEFINE q == r.path
             w == within(p, q)
  <2> HIDE DEF p, q
  <2>a. q \in Paths /\ p \in Paths
    BY <1>1, <2>1 DEF q
  <2>b. /\ Len(p) \in Nat /\ Len(w) = Len(p) + 1 + Len(q) /\ w[Len(p) + 1] = 0
    BY ONLY <2>a, PathIs, WithinIs
  <2>4. /\ Len(p) \in Nat /\ Len(x) = Len(p) + 1 + Len(r.path) /\ x[Len(p) + 1] = 0
    BY <2>1, <2>b DEF q
  <2>5. ~(Len(p) + 1 <= Len(f))
    <3> SUFFICES ASSUME Len(p) + 1 <= Len(f)
                 PROVE  FALSE
      OBVIOUS
    <3>1. Len(p) + 1 \in 1 .. Len(f)
      BY <1>2, <2>4
    <3>2. f[Len(p) + 1] = 0
      BY <1>2, <2>4, <3>1
    <3>3. f[Len(p) + 1] > 0
      BY <3>1, PathIs
    <3> QED
      BY <3>2, <3>3
  <2>6. r.depth = Len(p) - 1 + Len(r.path)
    BY <2>2, <2>3
  <2>7. Len(r.path) > 0
    BY <1>1, RowsAre, PathIs
  <2> HIDE DEF x, p
  <2> QED
    BY <1>2, <2>4, <2>5, <2>6, <2>7
<1> QED
  BY <1>1, <1>3, <1>4, <1>5

LEMMA DepthInside ==
  ASSUME Shown, rowsRevealed # <<>>, NEW r \in Range(rows), NEW p \in Paths, NEW q \in Paths,
         IsPrefix(within(p, q), position(r)), Len(within(p, q)) < Len(position(r))
  PROVE  r.depth >= Len(p) + Len(q)
<1> DEFINE x == position(r)
           f == within(p, q)
           l == Len(p) + 1
<1>1. /\ r \in Rows /\ r.path \in Paths
      /\ ofDocument(r) \/ \E k \in DOMAIN rowsRevealed : ofRegion(r, k)
  BY RowsAre DEF ofLock
<1>2. /\ f \in Places /\ Len(f) = l + Len(q) /\ f[l] = 0 /\ x \in Places
      /\ Len(p) \in Nat /\ Len(q) \in Nat /\ Len(x) \in Nat /\ Len(r.path) \in Nat
  BY <1>1, WithinIs, PositionIs, PlaceIs, PathIs
<1>3. Len(f) <= Len(x) /\ (\A i \in 1 .. Len(f) : f[i] = x[i]) /\ Len(f) < Len(x)
  BY <1>2, PlacePrefixIs
<1> HIDE DEF f
<1>4. x[l] = 0 /\ l \in 1 .. Len(x)
  <2>1. l \in 1 .. Len(f) /\ l \in 1 .. Len(x)
    BY <1>2, <1>3
  <2> QED
    BY <1>2, <1>3, <2>1
<1>5. ~ofDocument(r)
  <2> SUFFICES ASSUME ofDocument(r)
               PROVE  FALSE
    OBVIOUS
  <2>1. x \in Paths
    BY <1>1, PositionIs
  <2> HIDE DEF x, l
  <2>2. x[l] > 0
    BY <1>4, <2>1, PathIs
  <2> QED
    BY <1>4, <2>2
<1>6. PICK k \in DOMAIN rowsRevealed : ofRegion(r, k)
  BY <1>1, <1>5
<1> DEFINE a == rowsRevealed[k].at
<1>7. x = within(a, r.path) /\ a \in Paths
  BY <1>6, PositionIs
<1>8. PICK d \in ownRows : d.path = a /\ r.depth = d.depth + Len(r.path)
  BY <1>6 DEF ofRegion
<1>9. d.depth = Len(a) - 1
  BY <1>8, OwnRowsAreRows
<1> DEFINE z == r.path
           w == within(a, z)
<1> HIDE DEF a, z
<1>a. z \in Paths /\ a \in Paths
  BY <1>1, <1>7 DEF z
<1>b. Len(a) \in Nat /\ Len(w) = Len(a) + 1 + Len(z)
  BY ONLY <1>a, PathIs, WithinIs
<1>10. Len(a) \in Nat /\ Len(x) = Len(a) + 1 + Len(r.path)
  BY <1>7, <1>b DEF z
<1>11. r.depth = Len(a) - 1 + Len(r.path)
  BY <1>8, <1>9
<1>12. Len(f) = Len(p) + 1 + Len(q) /\ Len(f) < Len(x)
  BY <1>2, <1>3
<1>13. /\ Len(p) \in Nat /\ Len(q) \in Nat /\ Len(x) \in Nat /\ Len(r.path) \in Nat
       /\ Len(a) \in Nat
  BY <1>2, <1>10
<1> HIDE DEF x
<1> DEFINE A == Len(a)
           R == Len(r.path)
           X == Len(x)
           P == Len(p)
           Q == Len(q)
           D == r.depth
<1>14. /\ A \in Nat /\ R \in Nat /\ X \in Nat /\ P \in Nat /\ Q \in Nat
       /\ X = A + 1 + R /\ D = A - 1 + R /\ P + 1 + Q < X
  BY <1>10, <1>11, <1>12, <1>13
<1> HIDE DEF A, R, X, P, Q, D
<1>15. D >= P + Q
  BY ONLY <1>14
<1> QED
  BY <1>15 DEF D, P, Q

LEMMA ClimbsTo ==
  ASSUME Shown, NEW i \in DOMAIN rows, NEW whose, NEW path, NEW f \in Places,
         parentRow(i) = find(rows, whose, path, i), at(rows, whose, path) # {},
         IsPrefix(f, position(rows[i])), f # position(rows[i]), rows[i].depth # 0,
         \A m \in at(rows, whose, path) :
           /\ position(rows[m]) = f /\ rows[m].depth = rows[i].depth - 1
           /\ ~rows[m].elided \/ rows[i].source # Document,
         \A j \in DOMAIN rows :
           IsPrefix(f, position(rows[j])) /\ Len(f) < Len(position(rows[j]))
             => rows[j].depth >= rows[i].depth
  PROVE  climbs(i)
<1> DEFINE m == parentRow(i)
<1>1. /\ rows \in Seq(Rows)
      /\ \A j, k \in DOMAIN rows : j < k => lexBefore(position(rows[j]), position(rows[k]))
  BY ShownRows
<1>2. DOMAIN rows = 1 .. Len(rows) /\ Len(rows) \in Nat
  BY <1>1, LenProperties
<1>3. \A j \in DOMAIN rows : position(rows[j]) \in Places
  BY PositionIs DEF Range
<1>4. m \in at(rows, whose, path) /\ m \in DOMAIN rows
  <2>1. fits(i, rows)
    BY <1>2, EmptyList DEF fits
  <2>2. find(rows, whose, path, i) \in at(rows, whose, path)
    BY <1>1, <2>1, FoundFits
  <2> QED
    BY <2>2 DEF at
<1>5. /\ position(rows[m]) = f /\ rows[m].depth = rows[i].depth - 1
      /\ ~rows[m].elided \/ rows[i].source # Document
  BY <1>4
<1> HIDE DEF m
<1>6. lexBefore(f, position(rows[i]))
  BY DEF lexBefore, IsStrictPrefix
<1>7. m < i
  <2>1. m # i
    BY <1>5
  <2>2. ASSUME i < m
        PROVE  FALSE
    <3>1. lexBefore(position(rows[i]), f)
      BY <1>1, <1>4, <1>5, <2>2
    <3>2. lexBefore(f, f)
      BY <1>3, <1>6, <3>1, BeforeIsTransitive
    <3> QED
      BY <3>2, BeforeIsStrict
  <2> QED
    BY <1>2, <1>4, <2>1, <2>2
<1>8. ASSUME NEW j \in m + 1 .. i
      PROVE  rows[j].depth >= rows[i].depth
  <2>1. j \in DOMAIN rows /\ m < j /\ (j < i \/ j = i)
    BY <1>2, <1>4
  <2>2. lexBefore(f, position(rows[j]))
    BY <1>1, <1>4, <1>5, <2>1
  <2>3. position(rows[i]) = position(rows[j]) \/ lexBefore(position(rows[j]), position(rows[i]))
    BY <1>1, <2>1
  <2> DEFINE x == position(rows[j])
             p == position(rows[i])
  <2>4. /\ x \in Places /\ p \in Places /\ IsPrefix(f, p) /\ f # p /\ lexBefore(f, x)
        /\ x = p \/ lexBefore(x, p)
    BY <1>3, <2>1, <2>2, <2>3
  <2> HIDE DEF x, p
  <2>5. IsPrefix(f, x) /\ Len(f) < Len(x)
    BY <2>4, BetweenIs
  <2> QED
    BY <2>1, <2>5 DEF x
<1>9. climbs(i) <=> /\ m < i /\ rows[m].depth = rows[i].depth - 1
                    /\ ~rows[m].elided \/ rows[i].source # Document
                    /\ \A j \in m + 1 .. i : rows[j].depth >= rows[i].depth
  BY DEF climbs, m
<1> QED
  BY <1>5, <1>7, <1>8, <1>9

LEMMA ClimbInDocument ==
  ASSUME Shown, NEW i \in DOMAIN rows, ofDocument(rows[i])
  PROVE  climbs(i)
<1> DEFINE r == rows[i]
           f == Front(r.path)
           c == ownContext(rowsIdent, filter)
<1>1. /\ r \in Range(rows) /\ r \in ownRows /\ r.source = Document /\ r.path \in DOMAIN roots
      /\ r.depth = Len(r.path) - 1 /\ r.path \in Paths /\ r.path # <<>> /\ isForest(roots)
      /\ position(r) = r.path
  BY RowsAre, PositionIs DEF ofDocument, Range, Shown
<1>2. Len(r.path) \in Nat /\ Len(r.path) > 0
  BY <1>1, PathIs
<1>3. Document # Placeholder /\ Document.of \notin {"Decrypted", "Pkcs12Revealed"}
  BY SourcesDiffer DEF Kinds, Document, source
<1>4. CASE Len(r.path) = 1
  <2>1. parentRow(i) = i
    BY <1>1, <1>3, <1>4 DEF parentRow
  <2>2. r.depth = 0
    BY <1>1, <1>4
  <2> QED
    BY <2>1, <2>2 DEF climbs
<1>5. CASE Len(r.path) # 1
  <2> DEFINE l == Len(r.path)
  <2>a. l \in Nat /\ l > 0 /\ l # 1
    BY <1>2, <1>5
  <2> HIDE DEF l
  <2>b. l > 1
    BY ONLY <2>a
  <2>1. Len(r.path) > 1
    BY <2>b DEF l
  <2>2. parentRow(i) = find(rows, Document, f, i)
    BY <1>1, <1>3, <2>1 DEF parentRow
  <2>3. PICK q \in rowed(roots, c) : r = row(c, q, unseen(roots, c)[q])
    BY <1>1 DEF ownRows, outlined
  <2>4. q = r.path
    BY <2>3 DEF row
  <2>5. f \in rowed(roots, c) /\ unseen(roots, c)[f] = FALSE
    <3>1. isForest(roots) /\ q \in rowed(roots, c) /\ Len(q) > 1
      BY <1>1, <2>1, <2>3, <2>4
    <3> HIDE DEF c
    <3>2. Front(q) \in rowed(roots, c) /\ unseen(roots, c)[Front(q)] = FALSE
      BY ONLY <3>1, EnclosingRowed
    <3> QED
      BY <2>4, <3>2
  <2> DEFINE e == row(c, f, unseen(roots, c)[f])
  <2>6. e \in ownRows /\ e.path = f
    BY <2>5 DEF ownRows, outlined, row
  <2>7. e \in Range(rows) /\ e.source = Document
    BY <2>6, OwnRowsAreRows
  <2>8. at(rows, Document, f) # {}
    BY <2>6, <2>7 DEF at, Range
  <2>9. f \in Paths /\ f \in Places /\ Len(f) = Len(r.path) - 1 /\ IsPrefix(f, r.path) /\ f # r.path
    BY <1>1, FrontIs, FrontIsPrefix, PathsArePlaces
  <2>10. ASSUME NEW m \in at(rows, Document, f)
         PROVE  position(rows[m]) = f /\ rows[m].depth = r.depth - 1 /\ ~rows[m].elided
    <3> DEFINE s == rows[m]
    <3>1. s \in Range(rows) /\ s.source = Document /\ s.path = f
      BY DEF at, Range
    <3> HIDE DEF s
    <3>2. ~ofLock(s) /\ \A k : ~ofRegion(s, k)
      BY <1>3, <3>1, PositionIs DEF ofLock
    <3>3. ofDocument(s)
      BY <3>1, <3>2, RowsAre
    <3>4. position(s) = f /\ s.depth = Len(f) - 1 /\ s \in ownRows
      BY <3>1, <3>3, PositionIs DEF ofDocument
    <3>5. PICK z \in rowed(roots, c) : s = row(c, z, unseen(roots, c)[z])
      BY <3>4 DEF ownRows, outlined
    <3>6. z = f /\ s.elided = unseen(roots, c)[z]
      BY <3>1, <3>5 DEF row
    <3> QED
      BY <1>1, <2>5, <2>9, <3>4, <3>6 DEF s
  <2>11. ASSUME NEW j \in DOMAIN rows, IsPrefix(f, position(rows[j])), Len(f) < Len(position(rows[j]))
         PROVE  rows[j].depth >= r.depth
    <3>1. rows[j] \in Range(rows)
      BY DEF Range
    <3>2. rows[j].depth >= Len(f)
      BY <2>9, <2>11, <3>1, DepthAtLeast
    <3> QED
      BY <1>1, <2>9, <3>2
  <2>12. r.depth # 0
    BY <1>1, <1>2, <1>5
  <2> HIDE DEF f
  <2> QED
    BY <1>1, <2>2, <2>8, <2>9, <2>10, <2>11, <2>12, ClimbsTo
<1> QED
  BY <1>4, <1>5

LEMMA CiphertextRow ==
  ASSUME Shown, NEW d \in ownRows
  PROVE  /\ at(rows, Document, d.path) # {}
         /\ \A m \in at(rows, Document, d.path) :
              position(rows[m]) = d.path /\ rows[m].depth = Len(d.path) - 1
<1>1. d.source = Document /\ d \in Range(rows)
  BY OwnRowsAreRows
<1>2. at(rows, Document, d.path) # {}
  BY <1>1 DEF at, Range
<1>3. ASSUME NEW m \in at(rows, Document, d.path)
      PROVE  position(rows[m]) = d.path /\ rows[m].depth = Len(d.path) - 1
  <2> DEFINE s == rows[m]
  <2>1. s \in Range(rows) /\ s.source = Document /\ s.path = d.path
    BY DEF at, Range
  <2> HIDE DEF s
  <2>2. Document # Placeholder
    BY SourcesDiffer DEF Kinds
  <2>3. ofDocument(s)
    BY <2>1, <2>2, RowsAre, PositionIs DEF ofLock
  <2> QED
    BY <2>1, <2>3, PositionIs DEF ofDocument, s
<1> QED
  BY <1>2, <1>3

LEMMA ClimbFromLock ==
  ASSUME Shown, NEW i \in DOMAIN rows, ofLock(rows[i])
  PROVE  climbs(i)
<1> DEFINE r == rows[i]
           f == r.path
<1>1. r \in Range(rows) /\ r.source = Placeholder /\ f \in Paths /\ f # <<>>
      /\ position(r) = Append(f, 0)
  BY RowsAre, PositionIs DEF ofLock, Range
<1>2. PICK d \in ownRows : d.path = f /\ r.depth = d.depth + 1
  BY DEF ofLock
<1>3. d.depth = Len(f) - 1 /\ Len(f) \in Nat /\ Len(f) > 0
  BY <1>1, <1>2, OwnRowsAreRows, PathIs
<1>4. r.depth = Len(f)
  BY <1>2, <1>3
<1>5. parentRow(i) = find(rows, Document, f, i)
  BY <1>1 DEF parentRow
<1>6. /\ at(rows, Document, f) # {}
      /\ \A m \in at(rows, Document, f) : position(rows[m]) = f /\ rows[m].depth = Len(f) - 1
  BY <1>2, CiphertextRow
<1>7. Document # Placeholder
  BY SourcesDiffer DEF Kinds
<1>8. IsPrefix(f, position(r)) /\ f # position(r) /\ f \in Places
  <2>1. inside(f, Append(f, 0))
    BY <1>1, LockIsInside
  <2>2. f \in Places /\ Append(f, 0) \in Places /\ Len(f) < Len(Append(f, 0))
        /\ \A j \in 1 .. Len(f) : f[j] = Append(f, 0)[j]
    BY <1>1, <2>1, PathsArePlaces DEF inside
  <2>3. Len(f) <= Len(Append(f, 0)) /\ f # Append(f, 0)
    BY <2>2, PlaceIs
  <2> QED
    BY <1>1, <2>2, <2>3, PlacePrefixIs
<1>9. ASSUME NEW j \in DOMAIN rows, IsPrefix(f, position(rows[j])), Len(f) < Len(position(rows[j]))
      PROVE  rows[j].depth >= r.depth
  <2>1. rows[j] \in Range(rows)
    BY DEF Range
  <2> QED
    BY <1>1, <1>4, <1>9, <2>1, DepthAtLeast
<1>10. r.depth # 0
  BY <1>3, <1>4
<1>11. \A m \in at(rows, Document, f) : /\ position(rows[m]) = f /\ rows[m].depth = r.depth - 1
                                        /\ ~rows[m].elided \/ r.source # Document
  BY <1>1, <1>4, <1>6, <1>7
<1> HIDE DEF f
<1> QED
  BY <1>5, <1>6, <1>8, <1>9, <1>10, <1>11, ClimbsTo

LEMMA ClimbFromRegion ==
  ASSUME Shown, NEW i \in DOMAIN rows, NEW k, ofRegion(rows[i], k), rowsRevealed[k].of # "CmsRevealed",
         Len(rows[i].path) = 1 => revealed = rowsRevealed
  PROVE  climbs(i)
<1> DEFINE r == rows[i]
           a == rowsRevealed[k].at
           G == rowsRevealed[k].roots
<1>1. /\ r \in Range(rows) /\ r.path \in Paths /\ r.path # <<>>
      /\ position(r) = within(a, r.path) /\ a \in Paths /\ a # <<>>
      /\ r.source # Document /\ r.source # Placeholder /\ r.source.region = k
      /\ r.source.of = rowsRevealed[k].of /\ k \in DOMAIN rowsRevealed
      /\ r.source = source(rowsRevealed[k].of, k) /\ r.path \in DOMAIN G
  BY RowsAre, PositionIs DEF ofRegion, Range
<1>2. PICK d \in ownRows : /\ d.path = a /\ r.depth = d.depth + Len(r.path)
                           /\ r \in outlined(G, contextOf(rowsRevealed, k, d, filter))
  BY DEF ofRegion
<1>3. /\ d \in Rows /\ d.depth = Len(a) - 1 /\ Len(a) \in Nat /\ Len(a) > 0
      /\ Len(r.path) \in Nat /\ Len(r.path) > 0
  BY <1>1, <1>2, OwnRowsAreRows, PathIs
<1>4. r.depth = Len(a) - 1 + Len(r.path)
  BY <1>2, <1>3
<1> DEFINE la == Len(a)
           lr == Len(r.path)
<1>a. la \in Nat /\ la > 0 /\ lr \in Nat /\ lr > 0 /\ r.depth = la - 1 + lr
  BY <1>3, <1>4
<1>5. r.depth # 0
  <2> HIDE DEF la, lr
  <2>1. la - 1 + lr # 0
    BY ONLY <1>a
  <2> QED
    BY <1>a, <2>1
<1>6. /\ isForest(roots) /\ areRegions(roots, rowsRevealed) /\ rowsRevealed[k].of \in Kinds /\ isForest(G)
      /\ rowsRevealed # <<>>
  BY <1>1 DEF Shown, areRegions, isRegion
<1>7. CASE Len(r.path) = 1
  <2>1. r.source.of \in {"Decrypted", "Pkcs12Revealed"}
    BY <1>1, <1>6 DEF Kinds
  <2>2. parentRow(i) = find(rows, Document, a, i)
    BY <1>1, <1>7, <2>1 DEF parentRow
  <2>3. /\ at(rows, Document, a) # {}
        /\ \A m \in at(rows, Document, a) : position(rows[m]) = a /\ rows[m].depth = Len(a) - 1
    BY <1>2, CiphertextRow
  <2>4. r.depth = Len(a)
    BY <1>3, <1>4, <1>7
  <2>5. IsPrefix(a, position(r)) /\ a # position(r) /\ a \in Places
    <3> DEFINE w == within(a, r.path)
    <3>1. w \in Places /\ a \in Places /\ Len(w) = Len(a) + 1 + Len(r.path)
          /\ \A j \in 1 .. Len(a) : w[j] = a[j]
      BY <1>1, WithinIs, PathsArePlaces
    <3> HIDE DEF w
    <3> DEFINE lw == Len(w)
    <3>a. la \in Nat /\ lr \in Nat /\ lw = la + 1 + lr
      BY <1>a, <3>1
    <3>b. la <= lw /\ la # lw
      <4> HIDE DEF la, lr, lw
      <4> QED
        BY ONLY <3>a
    <3>2. Len(a) <= Len(w) /\ a # w
      BY <3>b
    <3>3. IsPrefix(a, w)
      BY <3>1, <3>2, PlacePrefixIs
    <3> QED
      BY <1>1, <3>1, <3>2, <3>3 DEF w
  <2>6. ASSUME NEW j \in DOMAIN rows, IsPrefix(a, position(rows[j])), Len(a) < Len(position(rows[j]))
        PROVE  rows[j].depth >= r.depth
    <3>1. rows[j] \in Range(rows)
      BY DEF Range
    <3> QED
      BY <1>1, <2>4, <2>6, <3>1, DepthAtLeast
  <2>7. \A m \in at(rows, Document, a) : /\ position(rows[m]) = a /\ rows[m].depth = r.depth - 1
                                         /\ ~rows[m].elided \/ r.source # Document
    BY <1>1, <2>3, <2>4
  <2> HIDE DEF a
  <2> QED
    BY <1>5, <2>2, <2>3, <2>5, <2>6, <2>7, ClimbsTo
<1>8. CASE Len(r.path) # 1
  <2> DEFINE z == Front(r.path)
             f == within(a, z)
             c == contextOf(rowsRevealed, k, d, filter)
  <2>a. lr \in Nat /\ lr > 0 /\ lr # 1
    BY <1>a, <1>8
  <2>1. Len(r.path) > 1
    <3> HIDE DEF lr
    <3>1. lr > 1
      BY ONLY <2>a
    <3> QED
      BY <3>1 DEF lr
  <2>2. parentRow(i) = find(rows, r.source, z, i)
    BY <1>1, <2>1 DEF parentRow
  <2>3. PICK q \in rowed(G, c) : r = row(c, q, unseen(G, c)[q])
    BY <1>2 DEF outlined
  <2>4. q = r.path
    BY <2>3 DEF row
  <2>5. z \in rowed(G, c) /\ unseen(G, c)[z] = FALSE
    <3>1. isForest(G) /\ q \in rowed(G, c) /\ Len(q) > 1
      BY <1>6, <2>1, <2>3, <2>4
    <3> HIDE DEF c, G
    <3>2. Front(q) \in rowed(G, c) /\ unseen(G, c)[Front(q)] = FALSE
      BY ONLY <3>1, EnclosingRowed
    <3> QED
      BY <2>4, <3>2
  <2> DEFINE e == row(c, z, unseen(G, c)[z])
  <2>6. e \in outlined(G, c) /\ e.path = z
    BY <2>5 DEF outlined, row
  <2>7. e.source = r.source
    BY <1>1 DEF row, contextOf, context
  <2>8. e \in Range(rows)
    <3>1. e \in belowIn(roots, rowsRevealed, filter, d)
      BY <1>1, <1>2, <1>6, <2>6 DEF belowIn
    <3>2. e \in outlineIn(roots, rowsIdent, rowsRevealed, filter)
      BY <3>1 DEF outlineIn, ownRows
    <3> QED
      BY <3>2, ShownRows
  <2>9. at(rows, r.source, z) # {}
    BY <2>6, <2>7, <2>8 DEF at, Range
  <2>10. z \in Paths /\ Len(z) = Len(r.path) - 1 /\ IsPrefix(z, r.path) /\ z # r.path
    BY <1>1, FrontIs, FrontIsPrefix
  <2> HIDE DEF z, a, c, e
  <2>11. f \in Places /\ IsPrefix(f, position(r)) /\ f # position(r)
    <3> DEFINE w == within(a, r.path)
               l == Len(a)
    <3>1. /\ f \in Places /\ Len(f) = l + 1 + Len(z)
          /\ \A j \in 1 .. l : f[j] = a[j]
          /\ f[l + 1] = 0
          /\ \A j \in 1 .. Len(z) : f[l + 1 + j] = z[j]
      BY <1>1, <2>10, WithinIs
    <3>2. /\ w \in Places /\ Len(w) = l + 1 + Len(r.path)
          /\ \A j \in 1 .. l : w[j] = a[j]
          /\ w[l + 1] = 0
          /\ \A j \in 1 .. Len(r.path) : w[l + 1 + j] = r.path[j]
      BY <1>1, WithinIs
    <3> HIDE DEF w, f, l
    <3>3. l \in Nat /\ Len(r.path) \in Nat /\ Len(r.path) > 0
      BY <1>3 DEF l
    <3> DEFINE lf == Len(f)
               lw == Len(w)
               lz == Len(z)
               lp == Len(r.path)
    <3>a. l \in Nat /\ lp \in Nat /\ lp > 0 /\ lz = lp - 1 /\ lf = l + 1 + lz /\ lw = l + 1 + lp
      BY <2>10, <3>1, <3>2, <3>3
    <3>b. lf < lw /\ lf <= lw /\ lf # lw
      <4> HIDE DEF lf, lw, lz, lp
      <4> QED
        BY ONLY <3>a
    <3>4. Len(f) < Len(w) /\ f # w
      BY <3>b
    <3>5. \A j \in 1 .. Len(z) : z[j] = r.path[j] /\ j \in 1 .. Len(r.path)
      <4>1. \A j \in 1 .. Len(z) : z[j] = r.path[j]
        BY <1>1, <2>10, PrefixIs
      <4> QED
        BY <2>10, <3>3, <4>1
    <3>6. \A j \in 1 .. Len(f) : f[j] = w[j]
      <4> TAKE j \in 1 .. Len(f)
      <4>1. CASE j <= l
        <5>1. j \in 1 .. l
          BY <3>3, <4>1
        <5> QED
          BY <3>1, <3>2, <5>1
      <4>2. CASE j = l + 1
        BY <3>1, <3>2, <4>2
      <4>3. CASE j > l + 1
        <5> DEFINE g == j - (l + 1)
        <5>a. j \in 1 .. lf
          OBVIOUS
        <5>1. g \in 1 .. Len(z) /\ l + 1 + g = j
          <6> HIDE DEF lf, lw, lz, lp
          <6>1. g \in 1 .. lz /\ l + 1 + g = j
            BY ONLY <3>a, <4>3, <5>a
          <6> QED
            BY <6>1 DEF lz
        <5> HIDE DEF g
        <5>2. f[l + 1 + g] = z[g] /\ w[l + 1 + g] = r.path[g] /\ z[g] = r.path[g]
          BY <3>1, <3>2, <3>5, <5>1
        <5> QED
          BY <5>1, <5>2
      <4> QED
        BY <3>3, <4>1, <4>2, <4>3
    <3>7. IsPrefix(f, w)
      <4>1. Len(f) <= Len(w)
        BY <3>b
      <4> QED
        BY <3>1, <3>2, <3>6, <4>1, PlacePrefixIs
    <3> QED
      BY <1>1, <3>1, <3>4, <3>7 DEF w
  <2>12. ASSUME NEW m \in at(rows, r.source, z)
         PROVE  position(rows[m]) = f /\ rows[m].depth = r.depth - 1
    <3> DEFINE s == rows[m]
    <3>1. s \in Range(rows) /\ s.source = r.source /\ s.path = z
      BY DEF at, Range
    <3> HIDE DEF s
    <3>2. ~ofDocument(s) /\ ~ofLock(s)
      BY <1>1, <3>1 DEF ofDocument, ofLock
    <3>3. PICK g \in DOMAIN rowsRevealed : ofRegion(s, g)
      BY <3>1, <3>2, RowsAre
    <3>4. g = k /\ position(s) = within(rowsRevealed[g].at, s.path)
      BY <1>1, <3>1, <3>3, PositionIs
    <3>5. PICK h \in ownRows : h.path = a /\ s.depth = h.depth + Len(s.path)
      BY <3>3, <3>4 DEF ofRegion, a
    <3>6. h.depth = Len(a) - 1
      BY <3>5, OwnRowsAreRows
    <3>7. s.depth = r.depth - 1
      BY <1>3, <1>4, <2>10, <3>1, <3>5, <3>6
    <3>8. position(s) = f
      BY <3>1, <3>4 DEF a
    <3> QED
      BY <3>7, <3>8 DEF s
  <2>13. ASSUME NEW j \in DOMAIN rows, IsPrefix(f, position(rows[j])), Len(f) < Len(position(rows[j]))
         PROVE  rows[j].depth >= r.depth
    <3>1. rows[j] \in Range(rows)
      BY DEF Range
    <3>2. rows[j].depth >= Len(a) + Len(z)
      BY <1>1, <1>6, <2>10, <2>13, <3>1, DepthInside
    <3>3. Len(a) + Len(z) = r.depth
      BY <1>3, <1>4, <2>10
    <3> QED
      BY <3>2, <3>3
  <2>14. \A m \in at(rows, r.source, z) : /\ position(rows[m]) = f /\ rows[m].depth = r.depth - 1
                                          /\ ~rows[m].elided \/ r.source # Document
    BY <1>1, <2>12
  <2> HIDE DEF f
  <2> QED
    BY <1>5, <2>2, <2>9, <2>11, <2>13, <2>14, ClimbsTo
<1> QED
  BY <1>7, <1>8

LEMMA RowClimbs ==
  ASSUME IInv, NEW i \in DOMAIN rows, rows[i].source.of # "CmsRevealed",
         ~(isStale(rows[i]) /\ Len(rows[i].path) = 1)
  PROVE  climbs(i)
<1>1. rows[i] \in Range(rows) /\ Shown
  BY InvIsShown DEF Range
<1>2. CASE ofDocument(rows[i])
  BY <1>1, <1>2, ClimbInDocument
<1>3. CASE ofLock(rows[i])
  BY <1>1, <1>3, ClimbFromLock
<1>4. ASSUME NEW k \in DOMAIN rowsRevealed, ofRegion(rows[i], k)
      PROVE  climbs(i)
  <2>1. /\ rowsRevealed[k].of # "CmsRevealed" /\ rows[i].source.of = rowsRevealed[k].of
        /\ rows[i].source.region = k
    BY <1>1, <1>4, PositionIs
  <2>2. rowsRevealed[k].of \in Kinds
    BY <1>1 DEF Shown, areRegions, isRegion
  <2>3. ASSUME Len(rows[i].path) = 1
        PROVE  revealed = rowsRevealed
    <3>1. k \in DOMAIN revealed
      BY <2>1, <2>2, <2>3 DEF isStale, Kinds
    <3> QED
      BY <3>1, RevealedAsShown
  <2> QED
    BY <1>1, <1>4, <2>1, <2>3, ClimbFromRegion
<1> QED
  BY <1>1, <1>2, <1>3, <1>4, RowsAre

(* Left leads from every row but a message's, or the root of a plaintext   *)
(* that a wrong password hid, out to the row around it, over nothing that  *)
(* lies further out (App::collapse_or_parent).                             *)
THEOREM LeftLeadsOut == Spec => []LeftClimbs
<1>1. IInv => LeftClimbs
  BY RowClimbs DEF LeftClimbs
<1> QED
  BY <1>1, Invariant, PTL

-----------------------------------------------------------------------------
(* The search: what an unedited document says is what its file says, and   *)
(* the browser is narrowed to the files that say it.                       *)
saysTheSame(F, G) ==
  /\ DOMAIN F = DOMAIN G
  /\ \A p \in DOMAIN F : F[p].says = G[p].says /\ F[p].constructed = G[p].constructed

Unedited ==
  edits = 0 /\ file # NoFile
    => file \in Files /\ ident = Labels(Startup[file]) /\ saysTheSame(roots, Startup[file])
Narrowed == filterGlobal /\ filter # <<>> => listed = filesFound(filter)
SearchInv == IInv /\ Unedited /\ Narrowed

LEMMA FilterIsFound ==
  ASSUME NEW F, NEW G, saysTheSame(F, G), NEW labels, NEW sought
  PROVE  forestContainsMatch(F, labels, sought) <=> forestContainsMatch(G, labels, sought)
<1>1. \A p \in DOMAIN F : matches(F[p], p, labels, sought) <=> matches(G[p], p, labels, sought)
  BY DEF saysTheSame, matches
<1> QED
  BY <1>1 DEF saysTheSame, forestContainsMatch

LEMMA MatchesAreShown ==
  ASSUME Shown, filter # <<>>
  PROVE  treeHasMatch <=> forestContainsMatch(roots, rowsIdent, filter)
<1> DEFINE c == ownContext(rowsIdent, filter)
<1>1. c.filter = filter /\ c.labels = rowsIdent
  BY DEF ownContext, context
<1>0. isForest(roots)
  BY DEF Shown
<1>2. ASSUME treeHasMatch
      PROVE  forestContainsMatch(roots, rowsIdent, filter)
  <2>1. PICK i \in DOMAIN rows : rows[i].source = Document /\ ~rows[i].elided
    BY <1>2 DEF treeHasMatch
  <2> DEFINE r == rows[i]
  <2>2. r \in Range(rows) /\ r.source = Document /\ ~r.elided
    BY <2>1 DEF Range
  <2> HIDE DEF r
  <2>3. Document # Placeholder
    BY SourcesDiffer DEF Kinds
  <2>4. r \in ownRows
    BY <2>2, <2>3, RowsAre, PositionIs DEF ofLock, ofDocument
  <2>5. PICK q \in rowed(roots, c) : r = row(c, q, unseen(roots, c)[q])
    BY <2>4 DEF ownRows, outlined
  <2>6. r.elided = unseen(roots, c)[q] /\ q \in DOMAIN roots
    BY <2>5 DEF row, rowed
  <2> HIDE DEF c
  <2>7. seen(roots, c, q)
    BY <2>2, <2>6 DEF unseen
  <2>8. has(roots, c, q)
    BY <1>1, <2>7 DEF seen
  <2> QED
    BY <1>1, <2>8 DEF has, forestContainsMatch
<1>3. ASSUME forestContainsMatch(roots, rowsIdent, filter)
      PROVE  treeHasMatch
  <2>1. PICK p \in DOMAIN roots : matches(roots[p], p, rowsIdent, filter)
    BY <1>3 DEF forestContainsMatch
  <2>2. IsPrefix(p, p)
    BY <1>0, ForestIs, PrefixIsReflexive
  <2> DEFINE e == row(c, p, unseen(roots, c)[p])
  <2> HIDE DEF c
  <2>3. has(roots, c, p)
    BY <1>1, <2>1, <2>2 DEF has
  <2>4. p \in rowed(roots, c) /\ unseen(roots, c)[p] = FALSE
    BY <1>1, <2>3 DEF rowed, unseen, seen
  <2>5. e \in ownRows /\ e.elided = FALSE
    BY <2>4 DEF ownRows, outlined, row, c
  <2>6. e \in Range(rows) /\ e.source = Document
    BY <2>5, OwnRowsAreRows
  <2> QED
    BY <2>5, <2>6 DEF Range, treeHasMatch
<1> QED
  BY <1>2, <1>3

LEMMA SearchInvAgrees ==
  ASSUME SearchInv
  PROVE  SearchAgreesWhenTyped
<1> SUFFICES ASSUME searching, rowsIdent = ident
             PROVE  file \in listed <=> treeHasMatch
  BY DEF SearchAgreesWhenTyped
<1>1. /\ filterGlobal /\ filter # <<>> /\ file \in Files /\ ident = Labels(Startup[file])
      /\ saysTheSame(roots, Startup[file]) /\ listed = filesFound(filter)
  BY DEF searching, SearchInv, Unedited, Narrowed
<1>2. treeHasMatch <=> forestContainsMatch(roots, ident, filter)
  BY <1>1, InvIsShown, MatchesAreShown DEF SearchInv
<1>3. forestContainsMatch(roots, ident, filter) <=> forestContainsMatch(Startup[file], ident, filter)
  BY <1>1, FilterIsFound
<1>4. file \in listed <=> forestContainsMatch(Startup[file], ident, filter)
  BY <1>1 DEF filesFound
<1> QED
  BY <1>2, <1>3, <1>4

LEMMA FoldSaysTheSame ==
  ASSUME IInv, rows # <<>>, NEW b \in BOOLEAN, withFold(b)
  PROVE  saysTheSame(roots', roots)
<1> DEFINE r == selectedRow
           F == forestOf(r.source)
           n == [F[r.path] EXCEPT !.expanded = b]
<1>1. CASE foldable(r) /\ r.source = Document
  <2>1. r \in Range(rows) /\ r.source # Placeholder
    BY <1>1, SelectedHasARow DEF foldable, carriesNode, hasNode
  <2>2. F = roots /\ r.path \in DOMAIN roots
    BY <1>1, <2>1, RowOfForest DEF forestOf
  <2>3. roots' = put(roots, r.path, n)
    BY <1>1, <2>2 DEF withFold, nodeForRow
  <2>4. isNode(roots[r.path]) /\ roots = [p \in DOMAIN roots |-> roots[p]]
    BY <2>2, ForestIs DEF IInv, isDocument
  <2> DEFINE m == roots[r.path]
             z == r.path
  <2>5. n = [m EXCEPT !.expanded = b]
    BY <2>2
  <2> HIDE DEF m, n
  <2>6. n.says = m.says /\ n.constructed = m.constructed
    BY <2>4, <2>5 DEF isNode, m
  <2> HIDE DEF z
  <2>7. roots' = [p \in DOMAIN roots |-> IF p = z THEN n ELSE roots[p]]
    BY <2>3, <2>4 DEF put, z
  <2>8. m = roots[z]
    BY DEF m, z
  <2> QED
    BY <2>6, <2>7, <2>8 DEF saysTheSame
<1>2. CASE ~(foldable(r) /\ r.source = Document)
  <2>1. roots' = roots
    BY <1>2 DEF withFold
  <2> QED
    BY <2>1 DEF saysTheSame
<1> QED
  BY <1>1, <1>2

LEMMA UneditedFold ==
  ASSUME IInv, Unedited, rows # <<>>, NEW b \in BOOLEAN, Fold(b)
  PROVE  Unedited'
<1>1. withFold(b) /\ UNCHANGED <<file, ident, edits>>
  BY DEF Fold, noEdit
<1>2. saysTheSame(roots', roots)
  BY <1>1, FoldSaysTheSame
<1> SUFFICES ASSUME edits = 0, file # NoFile
             PROVE  Unedited'
  BY <1>1 DEF Unedited
<1>3. saysTheSame(roots, Startup[file]) /\ file \in Files /\ ident = Labels(Startup[file])
  BY DEF Unedited
<1>4. saysTheSame(roots', Startup[file])
  BY <1>2, <1>3 DEF saysTheSame
<1> QED
  BY <1>1, <1>3, <1>4 DEF Unedited

LEMMA UneditedKeys ==
  ASSUME IInv, Unedited, Keys
  PROVE  Unedited'
<1> DEFINE still == UNCHANGED <<file, roots, ident, edits>>
<1>0. still => Unedited'
  BY DEF Unedited
<1>1. \A i : Select(i) => still
  BY DEF Select, doc, noEdit
<1>2. StartFilter \/ StartBrowserSearch => still
  BY DEF StartFilter, StartBrowserSearch, doc, noEdit
<1>3. CASE ToggleExpand
  <2> DEFINE b == foldState(selectedRow) = "closed"
  <2>1. rows # <<>> /\ Fold(b) /\ b \in BOOLEAN
    BY <1>3 DEF ToggleExpand, inTree
  <2> HIDE DEF b
  <2> QED
    BY <2>1, UneditedFold
<1>4. CASE CollapseOrParent
  <2> DEFINE b == FALSE
  <2>1. rows # <<>> /\ b \in BOOLEAN /\ (Fold(b) \/ Select(parentRow(selected)))
    BY <1>4 DEF CollapseOrParent, inTree
  <2> HIDE DEF b, still
  <2> QED
    BY <1>0, <1>1, <2>1, UneditedFold
<1>5. CASE ExpandOrChild
  <2> DEFINE b == TRUE
  <2>1. rows # <<>> /\ b \in BOOLEAN /\ (Fold(b) \/ Select(clamped(selected + 1, rows)))
    BY <1>5 DEF ExpandOrChild, inTree
  <2> HIDE DEF b, still
  <2> QED
    BY <1>0, <1>1, <2>1, UneditedFold
<1> QED
  BY <1>0, <1>1, <1>2, <1>3, <1>4, <1>5 DEF Keys

LEMMA EditIsCounted ==
  ASSUME Edit
  PROVE  edits' = edits + 1 /\ UNCHANGED search
<1>1. \A whose, forest, path, id : Rebuild(whose, forest, path, id) => edits' = edits + 1 /\ UNCHANGED search
  BY DEF Rebuild
<1>2. \A word : CommitEdit(word) => edits' = edits + 1 /\ UNCHANGED search
  BY <1>1 DEF CommitEdit
<1>3. \A whose, parent, index, n : Insert(whose, parent, index, n) => edits' = edits + 1 /\ UNCHANGED search
  BY <1>1 DEF Insert
<1>4. \A asChild, n : CommitInsert(asChild, n) => edits' = edits + 1 /\ UNCHANGED search
  BY <1>3 DEF CommitInsert
<1>5. \A to : MoveSelected(to) => edits' = edits + 1 /\ UNCHANGED search
  BY <1>1 DEF MoveSelected
<1>6. DeleteSelected => edits' = edits + 1 /\ UNCHANGED search
  BY <1>1 DEF DeleteSelected
<1> QED
  BY <1>2, <1>4, <1>5, <1>6 DEF Edit

LEMMA UneditedKept ==
  ASSUME OutlineAssumption, IInv, Unedited, [Next]_vars
  PROVE  Unedited'
<1> DEFINE still == UNCHANGED <<file, roots, ident, edits>>
<1>0. still => Unedited'
  BY DEF Unedited
<1>1. ASSUME NEW f \in Files, OpenFile(f)
      PROVE  Unedited'
  BY <1>1 DEF OpenFile, Unedited, saysTheSame
<1>2. Unlock \/ UnlockFails => still
  BY DEF Unlock, UnlockFails, noEdit
<1>3. FilterKeys => still
  <2>1. \A sought, cursor : Refilter(sought, cursor) => still
    BY DEF Refilter, doc, noEdit
  <2>2. \A to : FilterMoveCursor(to) => still
    BY DEF FilterMoveCursor, doc, noEdit
  <2>3. FilterAccept \/ FilterClear => still
    BY DEF FilterAccept, FilterClear, doc, noEdit
  <2> HIDE DEF still
  <2> QED
    BY <2>1, <2>2, <2>3 DEF FilterKeys, FilterInsertChar, FilterBackspace, FilterDelete
<1>4. ASSUME Edit
      PROVE  Unedited'
  <2>1. edits' = edits + 1 /\ edits \in Nat
    BY <1>4, EditIsCounted DEF IInv, OutlineAssumption
  <2>2. edits' # 0
    BY <2>1
  <2> QED
    BY <2>2 DEF Unedited
<1>5. UNCHANGED vars => still
  BY DEF vars, doc
<1> HIDE DEF still
<1> QED
  BY <1>0, <1>1, <1>2, <1>3, <1>4, <1>5, UneditedKeys DEF Next

LEMMA NarrowedKept ==
  ASSUME Narrowed, [Next]_vars
  PROVE  Narrowed'
<1> DEFINE still == UNCHANGED search
<1>0. still \/ UNCHANGED <<filter, filterGlobal, listed>> => Narrowed'
  BY DEF Narrowed, search, filesFound
<1>1. narrowed => Narrowed'
  BY DEF narrowed, Narrowed, filesFound
<1>2. \A f : OpenFile(f) => still
  BY DEF OpenFile
<1>3. Unlock \/ UnlockFails => still
  BY DEF Unlock, UnlockFails
<1>4. \A i : Select(i) => still
  BY DEF Select
<1>5. \A b : Fold(b) => still
  BY DEF Fold
<1>6. Keys => still \/ narrowed
  <2>1. StartFilter \/ StartBrowserSearch => narrowed
    BY DEF StartFilter, StartBrowserSearch
  <2> HIDE DEF still
  <2> QED
    BY <1>4, <1>5, <2>1 DEF Keys, ToggleExpand, CollapseOrParent, ExpandOrChild
<1>7. FilterKeys => narrowed \/ UNCHANGED <<filter, filterGlobal, listed>> \/ filter' = <<>>
  <2>1. \A sought, cursor : Refilter(sought, cursor) => narrowed
    BY DEF Refilter
  <2>2. \A to : FilterMoveCursor(to) => UNCHANGED <<filter, filterGlobal, listed>>
    BY DEF FilterMoveCursor
  <2>3. FilterAccept => UNCHANGED <<filter, filterGlobal, listed>>
    BY DEF FilterAccept, search
  <2>4. FilterClear => filter' = <<>>
    BY DEF FilterClear
  <2> HIDE DEF still
  <2> QED
    BY <2>1, <2>2, <2>3, <2>4 DEF FilterKeys, FilterInsertChar, FilterBackspace, FilterDelete
<1>8. filter' = <<>> => Narrowed'
  BY DEF Narrowed
<1>9. UNCHANGED vars => still
  BY DEF vars, search
<1>10. Edit => still
  BY EditIsCounted
<1> HIDE DEF still
<1> QED
  BY <1>0, <1>1, <1>2, <1>3, <1>6, <1>7, <1>8, <1>9, <1>10 DEF Next

(* What the search lists is what the tree shows a match of, at every       *)
(* keystroke, as long as the document is labelled as its rows are          *)
(* (App::apply_browser_filter and rebuild_rows).                           *)
THEOREM SearchFindsWhatIsShown == Spec => []SearchAgreesWhenTyped
<1>1. Init => SearchInv
  <2>1. Init => IInv
    BY OutlineAssumption, InitKeeps
  <2>2. Init => Unedited /\ Narrowed
    BY DEF Init, Unedited, Narrowed
  <2> QED
    BY <2>1, <2>2 DEF SearchInv
<1>2. SearchInv /\ [Next]_vars => SearchInv'
  BY OutlineAssumption, IInvKept, UneditedKept, NarrowedKept DEF SearchInv
<1>3. SearchInv => SearchAgreesWhenTyped
  BY SearchInvAgrees
<1> QED
  BY <1>1, <1>2, <1>3, PTL DEF Spec

-----------------------------------------------------------------------------
(* No two nodes are the same: neither of the document, where "l" is <<>>,  *)
(* nor of its plaintexts, where it is the path of the ciphertext.          *)
named(F, l, x, n) ==
  \/ l = <<>> /\ x \in DOMAIN F /\ F[x].id = n
  \/ l \in DOMAIN F /\ x \in DOMAIN F[l].secret /\ F[l].secret[x].id = n

distinct(F, m) ==
  \A l, x, n : named(F, l, x, n) => /\ n \in 1 .. m - 1
                                     /\ \A k, y : named(F, k, y, n) => l = k /\ x = y

(* A forest lost some nodes of another, or none.                           *)
isPart(F, W) == DOMAIN F \subseteq DOMAIN W /\ \A p \in DOMAIN F : F[p].id = W[p].id

arePart(F, regions, W) ==
  /\ isPart(F, W)
  /\ \A p \in DOMAIN F : isPart(F[p].secret, W[p].secret)
  /\ \A k \in DOMAIN regions : isPart(regions[k].roots, W[regions[k].at].secret)

(* The regions are all the ciphertexts of one kind, in order.              *)
inNumber(F, regions) ==
  regions # <<>> =>
    LET P == ofKind(F, regions[1].of)
    IN /\ DOMAIN regions = 1 .. Cardinality(P)
       /\ \A k \in DOMAIN regions : /\ regions[k].of = regions[1].of
                                    /\ regions[k].at = inOrder(P)[k]

LEMMA PartOfPart ==
  ASSUME NEW F, NEW G, NEW W, isPart(F, G), isPart(G, W)
  PROVE  isPart(F, W)
BY DEF isPart

LEMMA PartIsNamed ==
  ASSUME NEW F, NEW regions, NEW W, arePart(F, regions, W), NEW n
  PROVE  /\ \A l, x : named(F, l, x, n) => named(W, l, x, n)
         /\ \A k \in DOMAIN regions : regions[k].at \in DOMAIN F =>
              \A x \in DOMAIN regions[k].roots :
                regions[k].roots[x].id = n => named(W, regions[k].at, x, n)
<1>1. ASSUME NEW l, NEW x, named(F, l, x, n)
      PROVE  named(W, l, x, n)
  <2>1. CASE l = <<>> /\ x \in DOMAIN F /\ F[x].id = n
    BY <2>1 DEF arePart, isPart, named
  <2>2. CASE l \in DOMAIN F /\ x \in DOMAIN F[l].secret /\ F[l].secret[x].id = n
    BY <2>2 DEF arePart, isPart, named
  <2> QED
    BY <1>1, <2>1, <2>2 DEF named
<1>2. ASSUME NEW k \in DOMAIN regions, regions[k].at \in DOMAIN F,
             NEW x \in DOMAIN regions[k].roots, regions[k].roots[x].id = n
      PROVE  named(W, regions[k].at, x, n)
  BY <1>2 DEF arePart, isPart, named
<1> QED
  BY <1>1, <1>2

LEMMA SameKinds ==
  ASSUME NEW F, NEW G, DOMAIN F = DOMAIN G, \A p \in DOMAIN F : F[p].cipher = G[p].cipher, NEW of
  PROVE  ofKind(F, of) = ofKind(G, of)
<1>1. \A p : arity(F, p) = arity(G, p)
  BY DEF arity
<1>2. \A p \in DOMAIN F : inFrame(F, p) <=> inFrame(G, p)
  BY <1>1 DEF inFrame
<1>3. ciphertexts(F) = ciphertexts(G)
  BY <1>2 DEF ciphertexts
<1>4. ciphertexts(F) \subseteq DOMAIN F
  BY DEF ciphertexts
<1> QED
  BY <1>3, <1>4 DEF ofKind

LEMMA SameNumber ==
  ASSUME NEW F, NEW G, DOMAIN F = DOMAIN G, \A p \in DOMAIN F : F[p].cipher = G[p].cipher,
         NEW old, NEW new, inNumber(F, old), areRegions(F, old), areRegions(G, new),
         DOMAIN old = DOMAIN new,
         \A k \in DOMAIN old : new[k].of = old[k].of /\ new[k].at = old[k].at
  PROVE  inNumber(G, new)
<1> SUFFICES ASSUME new # <<>>
             PROVE  inNumber(G, new)
  BY DEF inNumber
<1>1. PICK n \in Nat : DOMAIN new = 1 .. n /\ (new = <<>> <=> n = 0)
  BY RegionListIs
<1>2. PICK m \in Nat : DOMAIN old = 1 .. m /\ (old = <<>> <=> m = 0)
  BY RegionListIs
<1>3. 1 \in DOMAIN new /\ 1 \in DOMAIN old /\ old # <<>>
  BY <1>1, <1>2
<1>4. new[1].of = old[1].of /\ ofKind(F, old[1].of) = ofKind(G, old[1].of)
  BY <1>3, SameKinds
<1> QED
  BY <1>3, <1>4 DEF inNumber

LEMMA KindIs ==
  ASSUME NEW F, NEW of, isForest(F)
  PROVE  /\ ofKind(F, of) \in SUBSET ciphertexts(F)
         /\ ofKind(F, of) \in SUBSET Places /\ IsFiniteSet(ofKind(F, of))
         /\ \A p \in ofKind(F, of) : p \in DOMAIN F /\ sourceOf[F[p].cipher] = of
         /\ of = "Decrypted" => ofKind(F, of) \subseteq {<<1, 2>>}
<1>1. ofKind(F, of) \in SUBSET ciphertexts(F) /\ \A p \in ofKind(F, of) : sourceOf[F[p].cipher] = of
  BY DEF ofKind
<1>2. /\ ofKind(F, of) \subseteq DOMAIN F /\ ofKind(F, of) \in SUBSET Places
      /\ IsFiniteSet(ofKind(F, of))
  BY <1>1, CiphertextsAre
<1>3. ASSUME of = "Decrypted", NEW p \in ofKind(F, of)
      PROVE  p = <<1, 2>>
  <2>1. p \in DOMAIN F /\ inFrame(F, p) /\ sourceOf[F[p].cipher] = "Decrypted"
    BY <1>1, <1>2, <1>3 DEF ciphertexts
  <2>2. F[p].cipher \in {"none", "pkcs8", "pkcs12", "cms"}
    <3>1. isNode(F[p])
      BY <2>1, ForestIs
    <3> QED
      BY <3>1, NodeIs
  <2>3. F[p].cipher # "none"
    BY <2>1 DEF inFrame
  <2>4. F[p].cipher = "pkcs8"
    BY <2>1, <2>2, <2>3 DEF sourceOf
  <2> QED
    BY <2>1, <2>4 DEF inFrame
<1> QED
  BY <1>1, <1>2, <1>3

LEMMA DecryptedInNumber ==
  ASSUME NEW F, isDocument(F), NEW of
  PROVE  LET d == decrypted(F, ofKind(F, of))
             P == ofKind(F, of)
         IN /\ DOMAIN d = 1 .. Cardinality(P) /\ Cardinality(P) \in Nat
            /\ \A k \in DOMAIN d : /\ d[k].of = of /\ d[k].at = inOrder(P)[k] /\ d[k].at \in P
                                   /\ d[k].roots = F[d[k].at].secret
            /\ inNumber(F, d)
<1> DEFINE P == ofKind(F, of)
           d == decrypted(F, P)
<1>1. isForest(F)
  BY DEF isDocument
<1>2. P \in SUBSET ciphertexts(F) /\ \A p \in P : p \in DOMAIN F /\ sourceOf[F[p].cipher] = of
  BY <1>1, KindIs
<1> HIDE DEF P
<1>3. /\ areRegions(F, d) /\ Cardinality(P) \in Nat /\ DOMAIN d = 1 .. Cardinality(P)
      /\ \A k \in 1 .. Cardinality(P) : inOrder(P)[k] \in P /\ d[k] = region(F, inOrder(P)[k])
  BY <1>2, DecryptedIs
<1> HIDE DEF d
<1>4. \A k \in DOMAIN d : /\ d[k].of = of /\ d[k].at = inOrder(P)[k] /\ d[k].at \in P
                          /\ d[k].roots = F[d[k].at].secret
  BY <1>2, <1>3 DEF region
<1>5. d # <<>> => 1 \in DOMAIN d
  <2>1. PICK n \in Nat : DOMAIN d = 1 .. n /\ (d = <<>> <=> n = 0)
    BY <1>3, RegionListIs
  <2> QED
    BY <2>1
<1>6. inNumber(F, d)
  <2>1. d # <<>> => d[1].of = of
    BY <1>4, <1>5
  <2> QED
    BY <1>3, <1>4, <2>1 DEF inNumber, P
<1> QED
  BY <1>3, <1>4, <1>6 DEF P, d

LEMMA NothingIsInNumber ==
  ASSUME NEW F
  PROVE  inNumber(F, <<>>)
BY DEF inNumber

LEMMA CopiedPart ==
  ASSUME NEW F, isForest(F), NEW old, isForest(old)
  PROVE  LET G == copyExpanded(old, F)
         IN /\ DOMAIN G = DOMAIN F /\ isPart(G, F)
            /\ \A p \in DOMAIN F : p \in DOMAIN old => G[p].expanded = old[p].expanded
<1> DEFINE G == copyExpanded(old, F)
           S == {F[p].secret : p \in DOMAIN F}
<1>1. isForestOf(F, S) /\ \A p \in DOMAIN F : isNode(F[p])
  BY ForestIs DEF isForestOf, holding
<1>2. \A p \in DOMAIN old : isNode(old[p])
  BY ForestIs
<1> HIDE DEF S
<1>3. /\ DOMAIN G = DOMAIN F
      /\ \A p \in DOMAIN F :
           G[p] = IF p \in DOMAIN old THEN [F[p] EXCEPT !.expanded = old[p].expanded] ELSE F[p]
  BY <1>1, CopyExpandedIs
<1> HIDE DEF G
<1>4. ASSUME NEW p \in DOMAIN F
      PROVE  G[p].id = F[p].id /\ (p \in DOMAIN old => G[p].expanded = old[p].expanded)
  <2>1. CASE p \in DOMAIN old
    <3> DEFINE n == F[p]
               x == old[p].expanded
    <3>1. isNode(n) /\ x \in BOOLEAN /\ G[p] = [n EXCEPT !.expanded = x]
      BY <1>1, <1>2, <1>3, <2>1, NodeIs
    <3> HIDE DEF n, x
    <3>2. n = [id |-> n.id, says |-> n.says, constructed |-> n.constructed,
               encapsulates |-> n.encapsulates, expanded |-> n.expanded, cipher |-> n.cipher,
               secret |-> n.secret]
      BY <3>1, NodeIs
    <3>3. G[p] = [id |-> n.id, says |-> n.says, constructed |-> n.constructed,
               encapsulates |-> n.encapsulates, expanded |-> x, cipher |-> n.cipher,
               secret |-> n.secret]
      BY <3>1, <3>2
    <3>4. G[p].id = n.id /\ G[p].expanded = x
      BY <3>3
    <3> QED
      BY <3>4 DEF n, x
  <2>2. CASE p \notin DOMAIN old
    BY <1>3, <2>2
  <2> QED
    BY <2>1, <2>2
<1> QED
  BY <1>3, <1>4 DEF G, isPart

LEMMA ParsedPart ==
  ASSUME NEW F, isForest(F)
  PROVE  isPart(parsed(F), F)
<1> DEFINE S == {F[p].secret : p \in DOMAIN F}
<1>1. isForestOf(F, S)
  BY ForestIs DEF isForestOf, holding
<1> HIDE DEF S
<1>2. /\ DOMAIN reparsed(F) = DOMAIN parsed(F) /\ DOMAIN parsed(F) \subseteq DOMAIN F
      /\ \A p \in DOMAIN reparsed(F) : reparsed(F)[p].id = F[p].id
      /\ isForestOf(parsed(F), S) /\ isForestOf(reparsed(F), S)
  BY <1>1, ReparsedNodes, ParsedIs, ReparsedIs
<1>3. isPart(reparsed(F), parsed(F)) /\ DOMAIN reparsed(F) = DOMAIN parsed(F)
  BY <1>1, <1>2, CopiedPart DEF isForestOf, reparsed
<1> QED
  BY <1>2, <1>3 DEF isPart

LEMMA RefreshedIs ==
  ASSUME NEW F, isDocument(F), NEW G, NEW old, areRegions(G, old)
  PROVE  LET new == refreshed(F, old)
             P == ofKind(F, old[1].of)
         IN /\ inNumber(F, new)
            /\ new # <<>> =>
                 /\ old # <<>> /\ DOMAIN new = 1 .. Cardinality(P)
                 /\ \A k \in DOMAIN new :
                      /\ new[k].of = old[1].of /\ new[k].at = inOrder(P)[k] /\ new[k].at \in P
                      /\ isPart(new[k].roots, F[new[k].at].secret)
                      /\ k \in DOMAIN old =>
                           \A p \in DOMAIN new[k].roots :
                             p \in DOMAIN old[k].roots
                               => new[k].roots[p].expanded = old[k].roots[p].expanded
<1> DEFINE new == refreshed(F, old)
           P == ofKind(F, old[1].of)
           d == decrypted(F, P)
<1>1. CASE old = <<>> \/ old[1].of = "CmsRevealed"
  BY <1>1, NothingIsInNumber DEF refreshed
<1>2. CASE ~(old = <<>> \/ old[1].of = "CmsRevealed")
  <2>1. new = [k \in DOMAIN d |-> IF k \in DOMAIN old
                                  THEN [d[k] EXCEPT !.roots = copyExpanded(old[k].roots, @)]
                                  ELSE d[k]]
    BY <1>2 DEF refreshed
  <2>2. /\ DOMAIN d = 1 .. Cardinality(P) /\ inNumber(F, d)
        /\ \A k \in DOMAIN d : /\ d[k].of = old[1].of /\ d[k].at = inOrder(P)[k] /\ d[k].at \in P
                               /\ d[k].roots = F[d[k].at].secret
    BY DecryptedInNumber
  <2>3. areRegions(F, d)
    <3>1. P \in SUBSET ciphertexts(F)
      BY DEF ofKind
    <3> HIDE DEF P
    <3> QED
      BY <3>1, DecryptedIs
  <2> HIDE DEF P, d
  <2>4. DOMAIN new = DOMAIN d
        /\ \A k \in DOMAIN d : new[k] = IF k \in DOMAIN old
                                        THEN [d[k] EXCEPT !.roots = copyExpanded(old[k].roots, d[k].roots)]
                                        ELSE d[k]
    BY <2>1
  <2> HIDE DEF new
  <2>5. ASSUME NEW k \in DOMAIN d
        PROVE  /\ new[k].of = d[k].of /\ new[k].at = d[k].at
               /\ isPart(new[k].roots, d[k].roots)
               /\ k \in DOMAIN old =>
                    \A p \in DOMAIN new[k].roots :
                      p \in DOMAIN old[k].roots
                        => new[k].roots[p].expanded = old[k].roots[p].expanded
    <3>1. isRegion(F, d[k])
      BY <2>3 DEF areRegions
    <3>2. CASE k \in DOMAIN old
      <4> DEFINE h == d[k]
                 R == h.roots
                 O == old[k].roots
                 C == copyExpanded(O, R)
      <4>1. isForest(R) /\ isForest(O)
        BY <3>1, <3>2 DEF areRegions, isRegion
      <4>2. new[k] = [h EXCEPT !.roots = C]
        BY <2>4, <3>2
      <4> HIDE DEF R, O
      <4>3. /\ DOMAIN C = DOMAIN R /\ isPart(C, R)
            /\ \A p \in DOMAIN R : p \in DOMAIN O => C[p].expanded = O[p].expanded
        BY <4>1, CopiedPart
      <4>4. h = [of |-> h.of, at |-> h.at, roots |-> h.roots, ident |-> h.ident]
        BY <3>1 DEF isRegion
      <4> HIDE DEF h, C
      <4>5. new[k] = [of |-> h.of, at |-> h.at, roots |-> C, ident |-> h.ident]
        BY <4>2, <4>4
      <4>6. new[k].of = h.of /\ new[k].at = h.at /\ new[k].roots = C
        BY <4>5
      <4> QED
        BY <4>3, <4>6 DEF h, R, O
    <3>3. CASE k \notin DOMAIN old
      <4>1. new[k] = d[k]
        BY <2>4, <3>3
      <4> QED
        BY <3>3, <4>1 DEF isPart
    <3> QED
      BY <3>2, <3>3
  <2>6. inNumber(F, new)
    <3>1. areRegions(F, new)
      BY RefreshedAre DEF new
    <3> QED
      BY <2>2, <2>3, <2>4, <2>5, <3>1, SameNumber
  <2>7. \A k \in DOMAIN new :
          /\ new[k].of = old[1].of /\ new[k].at = inOrder(P)[k] /\ new[k].at \in P
          /\ isPart(new[k].roots, F[new[k].at].secret)
          /\ k \in DOMAIN old =>
               \A p \in DOMAIN new[k].roots :
                 p \in DOMAIN old[k].roots
                   => new[k].roots[p].expanded = old[k].roots[p].expanded
    BY <2>2, <2>4, <2>5
  <2> QED
    BY <1>2, <2>2, <2>4, <2>6, <2>7 DEF new, P
<1> QED
  BY <1>1, <1>2

(* No two nodes are the same, and what is revealed belongs to the          *)
(* ciphertexts of its kind.  After an edit "W" is the forest as it was     *)
(* handed over: the new parse may cut nodes off, but adds none.            *)
AllDiffer ==
  /\ inNumber(roots, revealed)
  /\ \E W : distinct(W, FreeId + edits) /\ arePart(roots, revealed, W)

LEMMA NamedPlace ==
  ASSUME NEW F, isForest(F), NEW l, NEW x, NEW n, named(F, l, x, n)
  PROVE  <<l, x>> \in placesOf(F) /\ idAt(F, <<l, x>>) = n
<1>1. <<>> \notin DOMAIN F
  BY ForestIs
<1>2. CASE l = <<>> /\ x \in DOMAIN F /\ F[x].id = n
  BY <1>2 DEF placesOf, idAt
<1>3. CASE l \in DOMAIN F /\ x \in DOMAIN F[l].secret /\ F[l].secret[x].id = n
  BY <1>1, <1>3 DEF placesOf, idAt
<1> QED
  BY <1>2, <1>3 DEF named

LEMMA FileIsDistinct ==
  ASSUME OutlineAssumption, NEW f \in Files
  PROVE  distinct(Startup[f], FreeId + 0) /\ arePart(Startup[f], <<>>, Startup[f])
<1> DEFINE F == Startup[f]
<1>1. isForest(F) /\ hasIdentities(F) /\ FreeId \in Nat
  BY DEF OutlineAssumption, isDocument
<1> HIDE DEF F
<1>2. FreeId + 0 = FreeId
  BY <1>1
<1>3. ASSUME NEW l, NEW x, NEW n, named(F, l, x, n)
      PROVE  /\ n \in 1 .. FreeId - 1
             /\ \A k, y : named(F, k, y, n) => l = k /\ x = y
  <2>1. <<l, x>> \in placesOf(F) /\ idAt(F, <<l, x>>) = n
    BY <1>1, <1>3, NamedPlace
  <2>2. n \in 1 .. FreeId - 1
    BY <1>1, <2>1 DEF hasIdentities
  <2>3. ASSUME NEW k, NEW y, named(F, k, y, n)
        PROVE  l = k /\ x = y
    <3>1. <<k, y>> \in placesOf(F) /\ idAt(F, <<k, y>>) = n
      BY <1>1, <2>3, NamedPlace
    <3>2. <<l, x>> = <<k, y>>
      BY <1>1, <2>1, <3>1 DEF hasIdentities
    <3> QED
      BY <3>2
  <2> QED
    BY <2>2, <2>3
<1>4. distinct(F, FreeId)
  BY <1>3 DEF distinct
<1>5. arePart(F, <<>>, F)
  BY DEF arePart, isPart
<1> QED
  BY <1>2, <1>4, <1>5 DEF F

LEMMA InitDiffers ==
  ASSUME Init
  PROVE  AllDiffer
<1> DEFINE W == <<>>
<1>1. roots = W /\ revealed = <<>> /\ DOMAIN W = {}
  BY DEF Init
<1> HIDE DEF W
<1>2. distinct(W, FreeId + edits)
  BY <1>1 DEF distinct, named
<1>3. arePart(roots, revealed, W)
  BY <1>1 DEF arePart, isPart
<1> QED
  BY <1>1, <1>2, <1>3, NothingIsInNumber DEF AllDiffer

LEMMA OpenFileDiffers ==
  ASSUME OutlineAssumption, NEW f \in Files, OpenFile(f)
  PROVE  AllDiffer'
<1>1. roots' = Startup[f] /\ revealed' = <<>> /\ edits' = 0
  BY DEF OpenFile
<1> DEFINE F == Startup[f]
<1>2. distinct(F, FreeId + edits') /\ arePart(roots', revealed', F)
  BY <1>1, FileIsDistinct
<1>3. inNumber(roots', revealed')
  BY <1>1, NothingIsInNumber
<1> HIDE DEF F
<1> QED
  BY <1>2, <1>3 DEF AllDiffer

LEMMA UnlockDiffers ==
  ASSUME IInv, AllDiffer, Unlock
  PROVE  AllDiffer'
<1>1. /\ \E of : revealed' = decrypted(roots, ofKind(roots, of))
      /\ UNCHANGED <<roots, edits>>
  BY DEF Unlock, noEdit
<1>2. PICK of : revealed' = decrypted(roots, ofKind(roots, of))
  BY <1>1
<1>3. PICK W : distinct(W, FreeId + edits) /\ arePart(roots, revealed, W)
  BY DEF AllDiffer
<1>4. isDocument(roots)
  BY DEF IInv
<1> DEFINE P == ofKind(roots, of)
<1>5. /\ inNumber(roots, revealed')
      /\ \A k \in DOMAIN revealed' : revealed'[k].at \in P /\ revealed'[k].roots = roots[revealed'[k].at].secret
  BY <1>2, <1>4, DecryptedInNumber
<1>6. \A p \in P : p \in DOMAIN roots
  BY <1>4, KindIs DEF isDocument
<1> HIDE DEF P
<1>7. arePart(roots, revealed', W)
  BY <1>3, <1>5, <1>6 DEF arePart
<1> QED
  BY <1>1, <1>3, <1>5, <1>7 DEF AllDiffer

LEMMA UnlockFailsDiffers ==
  ASSUME AllDiffer, UnlockFails
  PROVE  AllDiffer'
<1>1. revealed' = <<>> /\ UNCHANGED <<roots, edits>>
  BY DEF UnlockFails, noEdit
<1>2. PICK W : distinct(W, FreeId + edits) /\ arePart(roots, revealed, W)
  BY DEF AllDiffer
<1>3. arePart(roots, revealed', W)
  BY <1>1, <1>2 DEF arePart
<1>4. inNumber(roots, revealed')
  BY <1>1, NothingIsInNumber
<1> QED
  BY <1>1, <1>2, <1>3, <1>4 DEF AllDiffer

(* A step that changes folds only.                                         *)
LEMMA FoldedDiffers ==
  ASSUME IInv, IInv', AllDiffer, edits' = edits,
         DOMAIN roots' = DOMAIN roots,
         \A p \in DOMAIN roots : /\ roots'[p].id = roots[p].id /\ roots'[p].cipher = roots[p].cipher
                                 /\ roots'[p].secret = roots[p].secret,
         DOMAIN revealed' = DOMAIN revealed,
         \A k \in DOMAIN revealed :
           /\ revealed'[k].of = revealed[k].of /\ revealed'[k].at = revealed[k].at
           /\ isPart(revealed'[k].roots, revealed[k].roots)
  PROVE  AllDiffer'
<1>1. PICK W : distinct(W, FreeId + edits) /\ arePart(roots, revealed, W)
  BY DEF AllDiffer
<1>2. areRegions(roots, revealed) /\ areRegions(roots', revealed') /\ inNumber(roots, revealed)
  BY DEF IInv, AllDiffer
<1>3. inNumber(roots', revealed')
  <2> DEFINE G == roots'
             new == revealed'
  <2>1. /\ DOMAIN roots = DOMAIN G /\ \A p \in DOMAIN roots : roots[p].cipher = G[p].cipher
        /\ DOMAIN revealed = DOMAIN new /\ areRegions(G, new)
        /\ \A k \in DOMAIN revealed : new[k].of = revealed[k].of /\ new[k].at = revealed[k].at
    BY <1>2
  <2> HIDE DEF G, new
  <2>2. inNumber(G, new)
    BY <1>2, <2>1, SameNumber
  <2> QED
    BY <2>2 DEF G, new
<1>4. isPart(roots', roots)
  BY DEF isPart
<1>5. arePart(roots', revealed', W)
  <2>1. isPart(roots, W) /\ (\A p \in DOMAIN roots : isPart(roots[p].secret, W[p].secret))
        /\ \A k \in DOMAIN revealed : isPart(revealed[k].roots, W[revealed[k].at].secret)
    BY <1>1 DEF arePart
  <2>2. isPart(roots', W)
    BY <1>4, <2>1, PartOfPart
  <2>3. \A p \in DOMAIN roots' : isPart(roots'[p].secret, W[p].secret)
    BY <2>1
  <2>4. \A k \in DOMAIN revealed' : isPart(revealed'[k].roots, W[revealed'[k].at].secret)
    BY <2>1, PartOfPart
  <2> QED
    BY <2>2, <2>3, <2>4 DEF arePart
<1> QED
  BY <1>1, <1>3, <1>5 DEF AllDiffer

LEMMA FoldDiffers ==
  ASSUME IInv, IInv', AllDiffer, rows # <<>>, NEW b \in BOOLEAN, Fold(b)
  PROVE  AllDiffer'
<1>1. withFold(b) /\ edits' = edits
  BY DEF Fold, noEdit
<1>2. CASE ~foldable(selectedRow)
  <2>1. roots' = roots /\ revealed' = revealed
    BY <1>1, <1>2 DEF withFold
  <2>2. \A k \in DOMAIN revealed : isPart(revealed[k].roots, revealed[k].roots)
    BY DEF isPart
  <2> QED
    BY <1>1, <2>1, <2>2, FoldedDiffers
<1>3. CASE foldable(selectedRow)
  <2> DEFINE r == selectedRow
             F == forestOf(r.source)
             m == F[r.path]
             n == [m EXCEPT !.expanded = b]
             G == put(F, r.path, n)
             z == r.path
  <2>1. /\ r.source # Placeholder /\ r \in Range(rows)
        /\ r.source = Document \/ r.source.region \in DOMAIN revealed
    BY <1>3, SelectedHasARow DEF foldable, carriesNode, hasNode
  <2>2. /\ z \in DOMAIN F
        /\ \E S : isForestOf(F, S) /\ (r.source = Document => \A s \in S : isForest(s))
        /\ r.source # Document => r.source.region \in DOMAIN revealed
    BY <2>1, RowOfForest
  <2>3. PICK S : isForestOf(F, S)
    BY <2>2
  <2>4. /\ r.source = Document => roots' = G /\ revealed' = revealed
        /\ r.source # Document => /\ revealed' = [revealed EXCEPT ![r.source.region].roots = G]
                                  /\ roots' = roots
    BY <1>1, <1>3 DEF withFold, nodeForRow
  <2>5. isNode(m) /\ m.secret \in S
    BY <2>2, <2>3 DEF isForestOf, holding
  <2>m. m = F[z] /\ G = put(F, z, n) /\ (r.source = Document => F = roots)
        /\ (r.source # Document => F = revealed[r.source.region].roots)
    BY DEF forestOf
  <2> HIDE DEF m
  <2>6. isNode(n) /\ n.secret = m.secret /\ n.id = m.id /\ n.cipher = m.cipher
    <3>1. isNode(n) /\ n.secret = m.secret
      BY <2>5, FoldedNode
    <3>2. n.id = m.id /\ n.cipher = m.cipher
      BY <2>5 DEF isNode
    <3> QED
      BY <3>1, <3>2
  <2> HIDE DEF n, G, F, z
  <2>7. isForestOf(G, S) /\ DOMAIN G = DOMAIN F /\ G = [p \in DOMAIN F |-> IF p = z THEN n ELSE F[p]]
    BY <2>2, <2>3, <2>5, <2>6, <2>m, PutIs
  <2>8. \A p \in DOMAIN F : /\ G[p].id = F[p].id /\ G[p].cipher = F[p].cipher
                            /\ G[p].secret = F[p].secret
    BY <2>6, <2>7, <2>m
  <2>9. CASE r.source = Document
    <3>1. F = roots /\ roots' = G /\ revealed' = revealed
      BY <2>4, <2>9, <2>m
    <3>2. \A k \in DOMAIN revealed : isPart(revealed[k].roots, revealed[k].roots)
      BY DEF isPart
    <3> QED
      BY <1>1, <2>7, <2>8, <3>1, <3>2, FoldedDiffers
  <2>10. CASE r.source # Document
    <3> DEFINE k == r.source.region
    <3>1. k \in DOMAIN revealed /\ F = revealed[k].roots /\ roots' = roots
          /\ revealed' = [revealed EXCEPT ![k].roots = G]
      BY <2>2, <2>4, <2>10, <2>m
    <3>2. isForest(G) /\ areRegions(roots, revealed)
      BY <2>7 DEF isForestOf, IInv
    <3> HIDE DEF k
    <3>3. /\ DOMAIN revealed' = DOMAIN revealed /\ revealed'[k].roots = G
          /\ \A j \in DOMAIN revealed : /\ revealed'[j].at = revealed[j].at
                                        /\ revealed'[j].of = revealed[j].of
                                        /\ j # k => revealed'[j] = revealed[j]
      BY <3>1, <3>2, RegionReplaced
    <3>4. isPart(G, F)
      BY <2>7, <2>8 DEF isPart
    <3>5. \A j \in DOMAIN revealed : isPart(revealed'[j].roots, revealed[j].roots)
      <4>1. \A j \in DOMAIN revealed : isPart(revealed[j].roots, revealed[j].roots)
        BY DEF isPart
      <4> QED
        BY <3>1, <3>3, <3>4, <4>1
    <3> QED
      BY <1>1, <3>1, <3>3, <3>5, FoldedDiffers
  <2> QED
    BY <2>9, <2>10
<1> QED
  BY <1>2, <1>3

-----------------------------------------------------------------------------
(* What an edit makes of the nodes: of the document, of which a region     *)
(* keeps what it is, or of a region, whose ciphertext then holds it.       *)
LEMMA SecretReplaced ==
  ASSUME NEW F, isDocument(F), NEW p \in DOMAIN F, NEW X, isForest(X)
  PROVE  LET U == put(F, p, [F[p] EXCEPT !.secret = X])
         IN /\ isDocument(U) /\ DOMAIN U = DOMAIN F
            /\ \A q \in DOMAIN F :
                 /\ U[q].id = F[q].id /\ U[q].cipher = F[q].cipher
                 /\ U[q].encapsulates = F[q].encapsulates /\ U[q].expanded = F[q].expanded
                 /\ U[q].secret = IF q = p THEN X ELSE F[q].secret
<1> DEFINE m == F[p]
           n == [m EXCEPT !.secret = X]
           U == put(F, p, n)
<1>1. PICK S : isForestOf(F, S) /\ \A s \in S : isForest(s)
  BY DocumentIs
<1> DEFINE T == S \cup {X}
<1>2. isForestOf(F, T) /\ (\A s \in T : isForest(s)) /\ X \in T
  BY <1>1 DEF isForestOf, holding
<1>3. isNode(m)
  BY <1>1 DEF isForestOf, holding
<1>m. m = F[p]
  OBVIOUS
<1> HIDE DEF m, T
<1>4. /\ isNode(n) /\ n.secret = X /\ n.id = m.id /\ n.cipher = m.cipher
      /\ n.encapsulates = m.encapsulates /\ n.expanded = m.expanded
  BY <1>3 DEF isNode
<1> HIDE DEF n
<1>5. /\ isForestOf(U, T) /\ DOMAIN U = DOMAIN F
      /\ U = [q \in DOMAIN F |-> IF q = p THEN n ELSE F[q]]
  BY <1>2, <1>4, PutIs
<1> HIDE DEF U
<1>6. isDocument(U)
  BY <1>2, <1>5, DocumentIs
<1>7. \A q \in DOMAIN F : U[q] = IF q = p THEN n ELSE F[q]
  BY <1>5
<1>8. \A q \in DOMAIN F :
        /\ U[q].id = F[q].id /\ U[q].cipher = F[q].cipher
        /\ U[q].encapsulates = F[q].encapsulates /\ U[q].expanded = F[q].expanded
        /\ U[q].secret = IF q = p THEN X ELSE F[q].secret
  BY <1>4, <1>7, <1>m
<1> QED
  BY <1>5, <1>6, <1>8 DEF U, n, m

LEMMA PartOfItself ==
  ASSUME NEW F
  PROVE  isPart(F, F)
BY DEF isPart

(* The nodes of an edited document.                                        *)
namesOfDocument(W, G, o, path, m) ==
  \A l, x, n : named(G, l, x, n) =>
    \/ n = m /\ l = <<>> /\ x = path
    \/ l = <<>> /\ x \in DOMAIN G /\ o[x] # <<>> /\ named(W, <<>>, o[x], n)
    \/ l \in DOMAIN G /\ l # <<>> /\ o[l] # <<>> /\ named(W, o[l], x, n)

LEMMA EditedDocumentIsDistinct ==
  ASSUME NEW F, NEW regions, NEW W, NEW m \in Nat, m > 0, distinct(W, m), arePart(F, regions, W),
         NEW G, isForest(G), NEW o, NEW path, comesFrom(F, G, o, path, m)
  PROVE  distinct(G, m + 1) /\ namesOfDocument(W, G, o, path, m)
<1>1. ASSUME NEW l, NEW x, NEW n, named(G, l, x, n)
      PROVE  \/ n = m /\ l = <<>> /\ x = path
             \/ l = <<>> /\ x \in DOMAIN G /\ o[x] # <<>> /\ named(W, <<>>, o[x], n)
             \/ l \in DOMAIN G /\ l # <<>> /\ o[l] # <<>> /\ named(W, o[l], x, n)
  <2>1. CASE l = <<>> /\ x \in DOMAIN G /\ G[x].id = n
    <3>1. CASE o[x] = <<>>
      BY <2>1, <3>1 DEF comesFrom
    <3>2. CASE o[x] # <<>>
      <4>1. o[x] \in DOMAIN F /\ F[o[x]].id = n
        BY <2>1, <3>2 DEF comesFrom
      <4>2. named(F, <<>>, o[x], n)
        BY <4>1 DEF named
      <4> QED
        BY <2>1, <3>2, <4>2, PartIsNamed
    <3> QED
      BY <3>1, <3>2
  <2>2. CASE l \in DOMAIN G /\ x \in DOMAIN G[l].secret /\ G[l].secret[x].id = n
    <3>1. l # <<>>
      BY <2>2, ForestIs
    <3>2. o[l] # <<>>
      <4> SUFFICES ASSUME o[l] = <<>>
                   PROVE  FALSE
        OBVIOUS
      <4>1. G[l].secret = <<>>
        BY <2>2 DEF comesFrom
      <4> QED
        BY <2>2, <4>1
    <3>3. o[l] \in DOMAIN F /\ F[o[l]].secret = G[l].secret
      BY <2>2, <3>2 DEF comesFrom
    <3>4. named(F, o[l], x, n)
      BY <2>2, <3>3 DEF named
    <3> QED
      BY <2>2, <3>1, <3>2, <3>4, PartIsNamed
  <2> QED
    BY <1>1, <2>1, <2>2 DEF named
<1>2. \A l, x, n : named(W, l, x, n) => n \in 1 .. m - 1
  BY DEF distinct
<1>3. \A l, x, k, y, n : named(W, l, x, n) /\ named(W, k, y, n) => l = k /\ x = y
  BY DEF distinct
<1>4. \A x, y \in DOMAIN G : o[x] = o[y] => x = y
  BY DEF comesFrom
<1>5. ASSUME NEW l, NEW x, NEW n, named(G, l, x, n)
      PROVE  /\ n \in 1 .. (m + 1) - 1
             /\ \A k, y : named(G, k, y, n) => l = k /\ x = y
  <2>1. n = m \/ n \in 1 .. m - 1
    BY <1>1, <1>2, <1>5
  <2>2. ASSUME NEW k, NEW y, named(G, k, y, n)
        PROVE  l = k /\ x = y
    <3>1. CASE n = m
      <4>1. \A u, v : ~named(W, u, v, n)
        BY <1>2, <3>1
      <4> QED
        BY <1>1, <1>5, <2>2, <4>1
    <3>2. CASE n # m
      <4>1. CASE l = <<>>
        <5>1. x \in DOMAIN G /\ o[x] # <<>> /\ named(W, <<>>, o[x], n)
          BY <1>1, <1>5, <3>2, <4>1
        <5>2. CASE k = <<>>
          <6>1. y \in DOMAIN G /\ named(W, <<>>, o[y], n)
            BY <1>1, <2>2, <3>2, <5>2
          <6> QED
            BY <1>3, <1>4, <4>1, <5>1, <5>2, <6>1
        <5>3. CASE k # <<>>
          <6>1. o[k] # <<>> /\ named(W, o[k], y, n)
            BY <1>1, <2>2, <3>2, <5>3
          <6> QED
            BY <1>3, <5>1, <6>1
        <5> QED
          BY <5>2, <5>3
      <4>2. CASE l # <<>>
        <5>1. l \in DOMAIN G /\ o[l] # <<>> /\ named(W, o[l], x, n)
          BY <1>1, <1>5, <3>2, <4>2
        <5>2. CASE k = <<>>
          <6>1. named(W, <<>>, o[y], n)
            BY <1>1, <2>2, <3>2, <5>2
          <6> QED
            BY <1>3, <5>1, <6>1
        <5>3. CASE k # <<>>
          <6>1. k \in DOMAIN G /\ named(W, o[k], y, n)
            BY <1>1, <2>2, <3>2, <5>3
          <6> QED
            BY <1>3, <1>4, <5>1, <6>1
        <5> QED
          BY <5>2, <5>3
      <4> QED
        BY <4>1, <4>2
    <3> QED
      BY <3>1, <3>2
  <2> QED
    BY <2>1, <2>2
<1>6. distinct(G, m + 1)
  BY <1>5 DEF distinct
<1> QED
  BY <1>1, <1>6 DEF namesOfDocument

(* The nodes of the document whose ciphertext at "p" holds an edited       *)
(* region.                                                                 *)
namesOfRegion(W, U, p, G, o, path, m) ==
  \A l, x, n : named(U, l, x, n) =>
    IF l # p THEN named(W, l, x, n)
    ELSE x \in DOMAIN G /\ IF o[x] = <<>> THEN n = m /\ x = path ELSE named(W, p, o[x], n)

holdsRegion(F, U, p, G) ==
  /\ DOMAIN U = DOMAIN F
  /\ \A q \in DOMAIN F : U[q].id = F[q].id /\ U[q].secret = IF q = p THEN G ELSE F[q].secret

LEMMA EditedRegionIsDistinct ==
  ASSUME NEW F, isForest(F), NEW regions, NEW W, NEW m \in Nat, m > 0, distinct(W, m),
         arePart(F, regions, W), NEW k \in DOMAIN regions, NEW p, p = regions[k].at, p \in DOMAIN F,
         NEW G, NEW o, NEW path, comesFrom(regions[k].roots, G, o, path, m),
         NEW U, holdsRegion(F, U, p, G)
  PROVE  distinct(U, m + 1) /\ namesOfRegion(W, U, p, G, o, path, m)
<1>u. /\ DOMAIN U = DOMAIN F
      /\ \A q \in DOMAIN F : U[q].id = F[q].id /\ U[q].secret = IF q = p THEN G ELSE F[q].secret
  BY DEF holdsRegion
<1>p. p # <<>>
  BY ForestIs
<1>1. ASSUME NEW l, NEW x, NEW n, named(U, l, x, n)
      PROVE  \/ l = p /\ x \in DOMAIN G /\ (IF o[x] = <<>> THEN n = m /\ x = path
                                            ELSE named(W, p, o[x], n))
             \/ l # p /\ named(W, l, x, n)
  <2>1. CASE l = p
    <3>1. x \in DOMAIN G /\ G[x].id = n
      BY <1>1, <1>p, <1>u, <2>1 DEF named
    <3>2. CASE o[x] = <<>>
      BY <2>1, <3>1, <3>2 DEF comesFrom
    <3>3. CASE o[x] # <<>>
      <4>1. o[x] \in DOMAIN regions[k].roots /\ regions[k].roots[o[x]].id = n
        BY <3>1, <3>3 DEF comesFrom
      <4>2. named(W, p, o[x], n)
        BY <4>1, PartIsNamed
      <4> QED
        BY <2>1, <3>1, <3>3, <4>2
    <3> QED
      BY <3>2, <3>3
  <2>2. CASE l # p
    <3>1. named(F, l, x, n)
      BY <1>1, <1>u, <2>2 DEF named
    <3> QED
      BY <2>2, <3>1, PartIsNamed
  <2> QED
    BY <2>1, <2>2
<1>2. \A l, x, n : named(W, l, x, n) => n \in 1 .. m - 1
  BY DEF distinct
<1>3. \A l, x, j, y, n : named(W, l, x, n) /\ named(W, j, y, n) => l = j /\ x = y
  BY DEF distinct
<1>4. \A x, y \in DOMAIN G : o[x] = o[y] => x = y
  BY DEF comesFrom
<1>5. ASSUME NEW l, NEW x, NEW n, named(U, l, x, n)
      PROVE  /\ n \in 1 .. (m + 1) - 1
             /\ \A j, y : named(U, j, y, n) => l = j /\ x = y
  <2>1. n = m \/ n \in 1 .. m - 1
    BY <1>1, <1>2, <1>5
  <2>2. ASSUME NEW j, NEW y, named(U, j, y, n)
        PROVE  l = j /\ x = y
    <3>1. CASE n = m
      <4>1. \A u, v : ~named(W, u, v, n)
        BY <1>2, <3>1
      <4> QED
        BY <1>1, <1>5, <2>2, <4>1
    <3>2. CASE n # m
      <4>1. CASE l = p
        <5>1. x \in DOMAIN G /\ named(W, p, o[x], n)
          BY <1>1, <1>5, <3>2, <4>1
        <5>2. CASE j = p
          <6>1. y \in DOMAIN G /\ named(W, p, o[y], n)
            BY <1>1, <2>2, <3>2, <5>2
          <6> QED
            BY <1>3, <1>4, <4>1, <5>1, <5>2, <6>1
        <5>3. CASE j # p
          <6>1. named(W, j, y, n)
            BY <1>1, <2>2, <5>3
          <6> QED
            BY <1>3, <5>1, <5>3, <6>1
        <5> QED
          BY <5>2, <5>3
      <4>2. CASE l # p
        <5>1. named(W, l, x, n)
          BY <1>1, <1>5, <4>2
        <5>2. CASE j = p
          <6>1. named(W, p, o[y], n)
            BY <1>1, <2>2, <3>2, <5>2
          <6> QED
            BY <1>3, <4>2, <5>1, <6>1
        <5>3. CASE j # p
          <6>1. named(W, j, y, n)
            BY <1>1, <2>2, <5>3
          <6> QED
            BY <1>3, <5>1, <6>1
        <5> QED
          BY <5>2, <5>3
      <4> QED
        BY <4>1, <4>2
    <3> QED
      BY <3>1, <3>2
  <2> QED
    BY <2>1, <2>2
<1>6. distinct(U, m + 1)
  BY <1>5 DEF distinct
<1> QED
  BY <1>1, <1>6 DEF namesOfRegion

LEMMA DocumentEdited ==
  ASSUME IInv, NEW G, isDocument(G), NEW path, NEW id, Rebuild(Document, G, path, id)
  PROVE  /\ DOMAIN roots' \subseteq DOMAIN G /\ isDocument(roots')
         /\ \A q \in DOMAIN roots' : /\ roots'[q].id = G[q].id /\ roots'[q].secret = G[q].secret
                                     /\ roots'[q].expanded = G[q].expanded
         /\ revealed' = refreshed(roots', revealed)
         /\ inNumber(roots', revealed') /\ arePart(roots', revealed', G)
<1>1. roots' = reparsed(G) /\ revealed' = refreshed(roots', revealed)
  BY DEF Rebuild, Document, source
<1>2. PICK S : isForestOf(G, S) /\ \A s \in S : isForest(s)
  BY DocumentIs
<1>3. isDocument(roots')
  BY <1>1, <1>2, ReparsedIs, DocumentIs
<1>4. /\ DOMAIN roots' \subseteq DOMAIN G
      /\ \A q \in DOMAIN roots' : /\ roots'[q].id = G[q].id /\ roots'[q].secret = G[q].secret
                                  /\ roots'[q].expanded = G[q].expanded
  BY <1>1, <1>2, ReparsedNodes
<1>5. areRegions(roots, revealed)
  BY DEF IInv
<1> DEFINE H == roots'
           new == refreshed(H, revealed)
<1>6. /\ inNumber(H, new)
      /\ new # <<>> => \A k \in DOMAIN new : /\ isPart(new[k].roots, H[new[k].at].secret)
                                             /\ new[k].at \in DOMAIN H
  <2>1. isDocument(H)
    BY <1>3
  <2>2. areRegions(H, new)
    BY <1>5, <2>1, RefreshedAre
  <2> HIDE DEF H
  <2>3. new # <<>> => \A k \in DOMAIN new : isPart(new[k].roots, H[new[k].at].secret)
    BY <1>5, <2>1, RefreshedIs
  <2>4. inNumber(H, new)
    BY <1>5, <2>1, RefreshedIs
  <2> QED
    BY <2>2, <2>3, <2>4 DEF areRegions, isRegion
<1>7. revealed' = new
  BY <1>1
<1> HIDE DEF new
<1>8. \A k \in DOMAIN new : isPart(new[k].roots, G[new[k].at].secret)
  <2>1. ASSUME NEW k \in DOMAIN new
        PROVE  isPart(new[k].roots, G[new[k].at].secret)
    <3>1. new # <<>>
      BY <2>1
    <3> QED
      BY <1>4, <1>6, <2>1, <3>1
  <2> QED
    BY <2>1
<1>9. isPart(H, G) /\ \A q \in DOMAIN H : isPart(H[q].secret, G[q].secret)
  BY <1>4, PartOfItself DEF isPart
<1>10. arePart(H, new, G)
  BY <1>8, <1>9 DEF arePart
<1> QED
  BY <1>1, <1>3, <1>4, <1>6, <1>7, <1>10

LEMMA OnlyKey ==
  ASSUME NEW F, isForest(F), NEW regions, areRegions(F, regions), inNumber(F, regions),
         NEW k \in DOMAIN regions, regions[k].of = "Decrypted"
  PROVE  /\ \A j \in DOMAIN regions : j = k
         /\ regions[k].at = <<1, 2>> /\ k = 1
<1> DEFINE P == ofKind(F, regions[1].of)
<1>1. regions # <<>>
  BY RegionListIs
<1>2. PICK n \in Nat : DOMAIN regions = 1 .. n
  BY DEF areRegions
<1>3. 1 \in DOMAIN regions
  BY <1>2
<1>4. /\ DOMAIN regions = 1 .. Cardinality(P)
      /\ \A j \in DOMAIN regions : regions[j].of = regions[1].of /\ regions[j].at = inOrder(P)[j]
  BY <1>1 DEF inNumber
<1>5. regions[1].of = "Decrypted"
  BY <1>4
<1>6. P \in SUBSET Places /\ IsFiniteSet(P) /\ P \subseteq {<<1, 2>>}
  BY <1>5, KindIs
<1> HIDE DEF P
<1>7. inOrder(P) \in [1 .. Cardinality(P) -> P]
  BY <1>6, InOrderIs
<1>8. \A j \in DOMAIN regions : regions[j].at = <<1, 2>>
  BY <1>4, <1>6, <1>7
<1>9. \A j \in DOMAIN regions : j = k
  BY <1>8 DEF areRegions
<1> QED
  BY <1>3, <1>8, <1>9

LEMMA RegionEdited ==
  ASSUME IInv, IInv', inNumber(roots, revealed), NEW k \in DOMAIN revealed, NEW G, isForest(G),
         NEW path, NEW id, Rebuild(source(revealed[k].of, k), G, path, id)
  PROVE  LET p == revealed[k].at
         IN /\ DOMAIN roots' = DOMAIN roots /\ p \in DOMAIN roots
            /\ \A q \in DOMAIN roots :
                 /\ roots'[q].id = roots[q].id /\ roots'[q].expanded = roots[q].expanded
                 /\ roots'[q].secret = IF q = p THEN parsed(G) ELSE roots[q].secret
            /\ inNumber(roots', revealed')
            /\ \A j \in DOMAIN revealed' : /\ j \in DOMAIN revealed /\ revealed'[j].of = revealed[j].of
                                           /\ revealed'[j].at = revealed[j].at
            /\ IF revealed[k].of = "Decrypted"
               THEN DOMAIN revealed' = DOMAIN revealed /\ revealed'[k].roots = G
               ELSE \A j \in DOMAIN revealed' :
                      isPart(revealed'[j].roots, roots'[revealed'[j].at].secret)
<1> DEFINE p == revealed[k].at
           whose == source(revealed[k].of, k)
           X == parsed(G)
           n == [roots[p] EXCEPT !.secret = X]
           U == put(roots, p, n)
           inner == [revealed EXCEPT ![k].roots = G]
<1>1. areRegions(roots, revealed) /\ isDocument(roots) /\ isWhole(roots) /\ isForest(roots)
      /\ areRegions(roots', revealed') /\ isDocument(roots')
  BY DEF IInv, isDocument
<1>2. p \in DOMAIN roots /\ revealed[k].of \in Kinds
  BY <1>1 DEF areRegions, isRegion
<1>3. whose # Document /\ whose.of = revealed[k].of /\ whose.region = k
  BY <1>2, SourcesDiffer
<1>4. encrypted(whose, G) = U
  BY <1>3 DEF encrypted
<1> HIDE DEF whose
<1>5. /\ roots' = reparsed(encrypted(whose, G))
      /\ revealed' = IF whose.of # "Decrypted" THEN refreshed(roots', inner)
                     ELSE [inner EXCEPT ![k].ident = Labels(G)]
  BY <1>3 DEF Rebuild, whose
<1>6. isForest(X)
  <2> DEFINE T == {G[q].secret : q \in DOMAIN G}
  <2>1. isForestOf(G, T)
    BY ForestIs DEF isForestOf, holding
  <2> HIDE DEF T
  <2> QED
    BY <2>1, ParsedIs DEF isForestOf
<1>p. p = revealed[k].at
  OBVIOUS
<1> HIDE DEF X, p
<1>7. /\ isDocument(U) /\ DOMAIN U = DOMAIN roots
      /\ \A q \in DOMAIN roots :
           /\ U[q].id = roots[q].id /\ U[q].cipher = roots[q].cipher
           /\ U[q].encapsulates = roots[q].encapsulates /\ U[q].expanded = roots[q].expanded
           /\ U[q].secret = IF q = p THEN X ELSE roots[q].secret
  BY <1>1, <1>2, <1>6, <1>p, SecretReplaced
<1> HIDE DEF U
<1>8. isWhole(U) /\ isForest(U)
  BY <1>1, <1>7, SameWhole DEF isDocument
<1>9. PICK S : isForestOf(U, S)
  BY <1>7, DocumentIs
<1>10. /\ DOMAIN roots' = DOMAIN U
       /\ \A q \in DOMAIN roots' :
            /\ roots'[q].id = U[q].id /\ roots'[q].cipher = U[q].cipher
            /\ roots'[q].secret = U[q].secret /\ roots'[q].expanded = U[q].expanded
  BY <1>4, <1>5, <1>8, <1>9, ReparsedNodes, WholeParsed
<1>11. /\ DOMAIN roots' = DOMAIN roots
       /\ \A q \in DOMAIN roots :
            /\ roots'[q].id = roots[q].id /\ roots'[q].cipher = roots[q].cipher
            /\ roots'[q].expanded = roots[q].expanded
            /\ roots'[q].secret = IF q = p THEN X ELSE roots[q].secret
  BY <1>7, <1>10
<1>12. /\ areRegions(roots, inner) /\ DOMAIN inner = DOMAIN revealed /\ inner[k].roots = G
       /\ \A j \in DOMAIN revealed : inner[j].at = revealed[j].at /\ inner[j].of = revealed[j].of
  BY <1>1, RegionReplaced
<1> HIDE DEF inner
<1> DEFINE H == roots'
           new == revealed'
<1>13. DOMAIN H = DOMAIN roots /\ isDocument(H) /\ areRegions(H, new)
       /\ \A q \in DOMAIN roots : roots[q].cipher = H[q].cipher
  BY <1>1, <1>11
<1>14. CASE revealed[k].of = "Decrypted"
  <2>1. new = [inner EXCEPT ![k].ident = Labels(G)] /\ k \in DOMAIN inner
    BY <1>3, <1>5, <1>12, <1>14
  <2> HIDE DEF H, new
  <2>2. /\ DOMAIN new = DOMAIN inner
        /\ \A j \in DOMAIN inner : /\ new[j].at = inner[j].at /\ new[j].of = inner[j].of
                                   /\ new[j].roots = inner[j].roots
    BY <1>12, <2>1, RegionRelabelled
  <2>3. /\ DOMAIN revealed = DOMAIN new /\ new[k].roots = G
        /\ \A j \in DOMAIN revealed : new[j].of = revealed[j].of /\ new[j].at = revealed[j].at
    BY <1>12, <2>2
  <2>4. inNumber(H, new)
    BY <1>1, <1>13, <2>3, SameNumber
  <2> QED
    BY <1>2, <1>11, <1>14, <2>3, <2>4, <1>p DEF H, new, X
<1>15. CASE revealed[k].of # "Decrypted"
  <2>1. new = refreshed(H, inner)
    BY <1>3, <1>5, <1>15
  <2> HIDE DEF H, new
  <2>2. inNumber(H, new)
    BY <1>12, <1>13, <2>1, RefreshedIs
  <2> DEFINE P == ofKind(H, inner[1].of)
  <2>3. new # <<>> =>
          /\ DOMAIN new = 1 .. Cardinality(P)
          /\ \A j \in DOMAIN new : /\ new[j].of = inner[1].of /\ new[j].at = inOrder(P)[j]
                                   /\ isPart(new[j].roots, H[new[j].at].secret)
    BY <1>12, <1>13, <2>1, RefreshedIs
  <2>4. revealed # <<>> /\ 1 \in DOMAIN revealed
    <3>1. PICK l \in Nat : DOMAIN revealed = 1 .. l /\ (revealed = <<>> <=> l = 0)
      BY <1>1, RegionListIs
    <3> QED
      BY <3>1
  <2>5. inner[1].of = revealed[1].of /\ P = ofKind(roots, revealed[1].of)
    <3>1. inner[1].of = revealed[1].of
      BY <1>12, <2>4
    <3>2. \A of : ofKind(roots, of) = ofKind(H, of)
      BY <1>13, SameKinds
    <3> QED
      BY <3>1, <3>2
  <2> HIDE DEF P
  <2>6. /\ DOMAIN revealed = 1 .. Cardinality(P)
        /\ \A j \in DOMAIN revealed : revealed[j].of = revealed[1].of /\ revealed[j].at = inOrder(P)[j]
    BY <2>4, <2>5 DEF inNumber
  <2>7. ASSUME NEW j \in DOMAIN new
        PROVE  /\ j \in DOMAIN revealed /\ new[j].of = revealed[j].of /\ new[j].at = revealed[j].at
               /\ isPart(new[j].roots, H[new[j].at].secret)
    <3>1. new # <<>>
      OBVIOUS
    <3> QED
      BY <2>3, <2>5, <2>6, <3>1
  <2> QED
    BY <1>2, <1>11, <1>15, <2>2, <2>7, <1>p DEF H, new, X
<1> QED
  BY <1>14, <1>15

LEMMA InsertedIs ==
  ASSUME OutlineAssumption, IInv
  PROVE  /\ FreeId + edits \in Nat /\ FreeId + edits > 0 /\ inserted = FreeId + edits
         /\ FreeId + (edits + 1) = (FreeId + edits) + 1
<1>1. FreeId \in Nat /\ FreeId > 0 /\ edits \in Nat
  BY DEF OutlineAssumption, IInv, NoId
<1> QED
  BY <1>1 DEF inserted

(* How the nodes after an edit, of "G" and of "U", go back to the ones     *)
(* before it, of "W".                                                      *)
documentNodes(W, o, G, path) ==
  /\ distinct(W, inserted) /\ arePart(roots, revealed, W)
  /\ comesFrom(roots, G, o, path, inserted) /\ namesOfDocument(W, G, o, path, inserted)
  /\ distinct(G, inserted') /\ arePart(roots', revealed', G)

regionNodes(W, o, U, k, G, path) ==
  /\ distinct(W, inserted) /\ arePart(roots, revealed, W)
  /\ comesFrom(revealed[k].roots, G, o, path, inserted)
  /\ holdsRegion(roots, U, revealed[k].at, G)
  /\ namesOfRegion(W, U, revealed[k].at, G, o, path, inserted)
  /\ distinct(U, inserted') /\ arePart(roots', revealed', U)

LEMMA DocumentEditDiffers ==
  ASSUME OutlineAssumption, IInv, AllDiffer, NEW G, NEW path, NEW id,
         isEdit(Document, G, path, id), Rebuild(Document, G, path, id)
  PROVE  AllDiffer' /\ \E W, o : documentNodes(W, o, G, path)
<1> DEFINE m == FreeId + edits
<1>2. edits' = edits + 1
  BY DEF Rebuild
<1>1. m \in Nat /\ m > 0 /\ inserted = m /\ FreeId + (edits + 1) = m + 1 /\ inserted' = m + 1
  BY <1>2, InsertedIs DEF inserted
<1>3. PICK S : isForestOf(G, S) /\ \A s \in S : isForest(s)
  BY DEF isEdit
<1>4. isDocument(G) /\ isForest(G)
  BY <1>3, DocumentIs DEF isForestOf
<1>5. PICK o : comesFrom(roots, G, o, path, m)
  BY <1>1 DEF isEdit, forestOf
<1>6. PICK W : distinct(W, m) /\ arePart(roots, revealed, W)
  BY DEF AllDiffer
<1>7. inNumber(roots', revealed') /\ arePart(roots', revealed', G)
  BY <1>4, DocumentEdited
<1> HIDE DEF m
<1>8. distinct(G, m + 1) /\ namesOfDocument(W, G, o, path, m)
  BY <1>1, <1>4, <1>5, <1>6, EditedDocumentIsDistinct
<1>9. distinct(G, FreeId + edits')
  BY <1>1, <1>2, <1>8
<1>10. documentNodes(W, o, G, path)
  BY <1>1, <1>5, <1>6, <1>7, <1>8 DEF documentNodes
<1> QED
  BY <1>7, <1>9, <1>10 DEF AllDiffer

LEMMA RegionEditDiffers ==
  ASSUME OutlineAssumption, IInv, IInv', AllDiffer, NEW k \in DOMAIN revealed, NEW G, NEW path, NEW id,
         isEdit(source(revealed[k].of, k), G, path, id), Rebuild(source(revealed[k].of, k), G, path, id)
  PROVE  AllDiffer' /\ \E W, o, U : regionNodes(W, o, U, k, G, path)
<1> DEFINE m == FreeId + edits
           p == revealed[k].at
           U == put(roots, p, [roots[p] EXCEPT !.secret = G])
<1>2. edits' = edits + 1
  BY DEF Rebuild
<1>1. m \in Nat /\ m > 0 /\ inserted = m /\ FreeId + (edits + 1) = m + 1 /\ inserted' = m + 1
  BY <1>2, InsertedIs DEF inserted
<1>3. isForest(G)
  BY DEF isEdit, isForestOf
<1>s. /\ areRegions(roots, revealed) /\ isDocument(roots) /\ isForest(roots) /\ inNumber(roots, revealed)
      /\ areRegions(roots', revealed')
  BY DEF IInv, isDocument, AllDiffer
<1>4. p \in DOMAIN roots /\ forestOf(source(revealed[k].of, k)) = revealed[k].roots
  <2>1. p \in DOMAIN roots /\ revealed[k].of \in Kinds
    BY <1>s DEF areRegions, isRegion
  <2> QED
    BY <2>1, SourcesDiffer DEF forestOf
<1>5. PICK o : comesFrom(revealed[k].roots, G, o, path, m)
  BY <1>1, <1>4 DEF isEdit
<1>6. PICK W : distinct(W, m) /\ arePart(roots, revealed, W)
  BY DEF AllDiffer
<1>7. /\ DOMAIN roots' = DOMAIN roots
      /\ \A q \in DOMAIN roots :
           /\ roots'[q].id = roots[q].id
           /\ roots'[q].secret = IF q = p THEN parsed(G) ELSE roots[q].secret
      /\ inNumber(roots', revealed')
      /\ \A j \in DOMAIN revealed' : j \in DOMAIN revealed /\ revealed'[j].at = revealed[j].at
      /\ IF revealed[k].of = "Decrypted"
         THEN revealed'[k].roots = G
         ELSE \A j \in DOMAIN revealed' : isPart(revealed'[j].roots, roots'[revealed'[j].at].secret)
  BY <1>3, <1>s, RegionEdited
<1>p. p = revealed[k].at
  OBVIOUS
<1> HIDE DEF m, p
<1>8. /\ DOMAIN U = DOMAIN roots
      /\ \A q \in DOMAIN roots : /\ U[q].id = roots[q].id
                                 /\ U[q].secret = IF q = p THEN G ELSE roots[q].secret
  BY <1>3, <1>4, <1>s, SecretReplaced
<1> HIDE DEF U
<1>9. distinct(U, m + 1) /\ namesOfRegion(W, U, p, G, o, path, m) /\ holdsRegion(roots, U, p, G)
  <2>1. isForest(roots) /\ p = revealed[k].at /\ p \in DOMAIN roots
    BY <1>4, <1>s, <1>p
  <2>2. holdsRegion(roots, U, p, G)
    BY <1>8 DEF holdsRegion
  <2> QED
    BY <1>1, <1>5, <1>6, <2>1, <2>2, EditedRegionIsDistinct
<1>10. isPart(roots', U) /\ \A q \in DOMAIN roots' : isPart(roots'[q].secret, U[q].secret)
  <2>1. isPart(parsed(G), G)
    BY <1>3, ParsedPart
  <2>2. \A q \in DOMAIN roots' : isPart(roots'[q].secret, U[q].secret)
    BY <1>7, <1>8, <2>1, PartOfItself
  <2>3. isPart(roots', U)
    BY <1>7, <1>8 DEF isPart
  <2> QED
    BY <2>2, <2>3
<1>11. \A j \in DOMAIN revealed' : isPart(revealed'[j].roots, U[revealed'[j].at].secret)
  <2>1. CASE revealed[k].of = "Decrypted"
    <3>1. \A j \in DOMAIN revealed : j = k
      BY <1>s, <2>1, OnlyKey
    <3>2. \A j \in DOMAIN revealed' : j = k /\ revealed'[j].at = p /\ revealed'[j].roots = G
      BY <1>7, <2>1, <3>1, <1>p
    <3> QED
      BY <1>4, <1>8, <3>2, PartOfItself
  <2>2. CASE revealed[k].of # "Decrypted"
    <3>1. \A j \in DOMAIN revealed' : isPart(revealed'[j].roots, roots'[revealed'[j].at].secret)
      BY <1>7, <2>2
    <3>2. \A j \in DOMAIN revealed' : revealed'[j].at \in DOMAIN roots'
      BY <1>s DEF areRegions, isRegion
    <3> QED
      BY <1>10, <3>1, <3>2, PartOfPart
  <2> QED
    BY <2>1, <2>2
<1>12. arePart(roots', revealed', U)
  BY <1>10, <1>11 DEF arePart
<1>13. distinct(U, FreeId + edits')
  BY <1>1, <1>2, <1>9
<1>14. regionNodes(W, o, U, k, G, path)
  BY <1>1, <1>5, <1>6, <1>9, <1>12, <1>p DEF regionNodes
<1> QED
  BY <1>7, <1>12, <1>13, <1>14 DEF AllDiffer

LEMMA EditDiffers ==
  ASSUME OutlineAssumption, IInv, IInv', AllDiffer, Edit
  PROVE  AllDiffer'
<1>1. PICK whose, G, path, id : isEdit(whose, G, path, id) /\ Rebuild(whose, G, path, id)
  BY EditIs DEF edit
<1>2. CASE whose = Document
  BY <1>1, <1>2, DocumentEditDiffers
<1>3. CASE whose # Document
  <2>1. whose.region \in DOMAIN revealed /\ whose = source(revealed[whose.region].of, whose.region)
    BY <1>1, <1>3 DEF isEdit, isSource
  <2> DEFINE k == whose.region
  <2>2. k \in DOMAIN revealed /\ isEdit(source(revealed[k].of, k), G, path, id)
        /\ Rebuild(source(revealed[k].of, k), G, path, id)
    BY <1>1, <2>1
  <2> HIDE DEF k
  <2> QED
    BY <2>2, RegionEditDiffers
<1> QED
  BY <1>2, <1>3

LEMMA KeysDiffer ==
  ASSUME IInv, IInv', AllDiffer, Keys
  PROVE  AllDiffer'
<1> DEFINE still == UNCHANGED <<roots, revealed, edits>>
<1>0. still => AllDiffer'
  BY DEF AllDiffer
<1>1. \A i : Select(i) => still
  BY DEF Select, doc, noEdit
<1>2. StartFilter \/ StartBrowserSearch => still
  BY DEF StartFilter, StartBrowserSearch, doc, noEdit
<1>3. CASE ToggleExpand
  <2> DEFINE b == foldState(selectedRow) = "closed"
  <2>1. rows # <<>> /\ Fold(b) /\ b \in BOOLEAN
    BY <1>3 DEF ToggleExpand, inTree
  <2> HIDE DEF b
  <2> QED
    BY <2>1, FoldDiffers
<1>4. CASE CollapseOrParent
  <2> DEFINE b == FALSE
  <2>1. rows # <<>> /\ b \in BOOLEAN /\ (Fold(b) \/ Select(parentRow(selected)))
    BY <1>4 DEF CollapseOrParent, inTree
  <2> HIDE DEF b, still
  <2> QED
    BY <1>0, <1>1, <2>1, FoldDiffers
<1>5. CASE ExpandOrChild
  <2> DEFINE b == TRUE
  <2>1. rows # <<>> /\ b \in BOOLEAN /\ (Fold(b) \/ Select(clamped(selected + 1, rows)))
    BY <1>5 DEF ExpandOrChild, inTree
  <2> HIDE DEF b, still
  <2> QED
    BY <1>0, <1>1, <2>1, FoldDiffers
<1> QED
  BY <1>0, <1>1, <1>2, <1>3, <1>4, <1>5 DEF Keys

LEMMA FilterKeysDiffer ==
  ASSUME AllDiffer, FilterKeys
  PROVE  AllDiffer'
<1>1. UNCHANGED <<roots, revealed, edits>>
  BY DEF FilterKeys, FilterInsertChar, FilterBackspace, FilterDelete, FilterMoveCursor, FilterAccept,
         FilterClear, Refilter, doc, noEdit
<1> QED
  BY <1>1 DEF AllDiffer

LEMMA AllDifferKept ==
  ASSUME OutlineAssumption, IInv, IInv', AllDiffer, [Next]_vars
  PROVE  AllDiffer'
<1>1. CASE UNCHANGED vars
  BY <1>1 DEF vars, doc, AllDiffer
<1>2. CASE Next
  BY <1>2, OpenFileDiffers, UnlockDiffers, UnlockFailsDiffers, KeysDiffer, FilterKeysDiffer, EditDiffers DEF Next
<1> QED
  BY <1>1, <1>2

-----------------------------------------------------------------------------
(* Without a filter: a node has a row if all that encloses it is open.     *)
open(F, x) == \A n \in 1 .. Len(x) - 1 : F[SubSeq(x, 1, n)].expanded

LEMMA OpenIsRowed ==
  ASSUME NEW F, NEW c, c.filter = <<>>, NEW q
  PROVE  /\ q \in rowed(F, c) <=> q \in DOMAIN F /\ open(F, q)
         /\ q \in rowed(F, c) => unseen(F, c)[q] = FALSE
<1>1. seen(F, c, q) <=> open(F, q)
  BY DEF seen, open
<1>2. q \in rowed(F, c) <=> q \in DOMAIN F /\ open(F, q)
  BY <1>1 DEF rowed
<1>3. q \in DOMAIN F => unseen(F, c)[q] = ~seen(F, c, q)
  BY DEF unseen
<1> QED
  BY <1>1, <1>2, <1>3

LEMMA OutlinedIsOpen ==
  ASSUME NEW F, NEW c, c.filter = <<>>, NEW r \in outlined(F, c)
  PROVE  r.path \in DOMAIN F /\ open(F, r.path)
<1>1. PICK q \in rowed(F, c) : r = row(c, q, unseen(F, c)[q])
  BY DEF outlined
<1>2. r.path = q
  BY <1>1 DEF row
<1> QED
  BY <1>2, OpenIsRowed

LEMMA RowIsOpen ==
  ASSUME IInv, filter = <<>>, NEW r \in Range(rows), carriesNode(r)
  PROVE  \/ r.source = Document /\ r.path \in DOMAIN roots /\ open(roots, r.path)
         \/ LET k == r.source.region
            IN /\ k \in DOMAIN revealed /\ r.source # Document
               /\ revealed[k].at \in DOMAIN roots /\ open(roots, revealed[k].at)
               /\ r.path \in DOMAIN revealed[k].roots /\ open(revealed[k].roots, r.path)
<1>s. Shown
  BY InvIsShown
<1> DEFINE c == ownContext(rowsIdent, filter)
<1>1. \A d \in ownRows : d.path \in DOMAIN roots /\ open(roots, d.path)
  <2>1. c.filter = <<>>
    BY DEF ownContext, context
  <2> HIDE DEF c
  <2> QED
    BY <2>1, OutlinedIsOpen DEF ownRows, c
<1>2. CASE ofDocument(r)
  BY <1>1, <1>2 DEF ofDocument
<1>3. ~ofLock(r)
  BY DEF ofLock, carriesNode, hasNode
<1>4. CASE \E k \in DOMAIN rowsRevealed : ofRegion(r, k)
  <2>1. PICK k \in DOMAIN rowsRevealed : ofRegion(r, k)
    BY <1>4
  <2>2. PICK d \in ownRows : /\ d.path = rowsRevealed[k].at
                             /\ r \in outlined(rowsRevealed[k].roots, contextOf(rowsRevealed, k, d, filter))
    BY <2>1 DEF ofRegion
  <2> DEFINE e == contextOf(rowsRevealed, k, d, filter)
  <2>3. e.filter = <<>>
    BY DEF contextOf, context
  <2>4. r.path \in DOMAIN rowsRevealed[k].roots /\ open(rowsRevealed[k].roots, r.path)
    <3> HIDE DEF e
    <3> QED
      BY <2>2, <2>3, OutlinedIsOpen DEF e
  <2>5. r.source.region = k /\ r.source # Document
    BY <1>s, <2>1, PositionIs
  <2>6. revealed = rowsRevealed
    BY <2>5, RevealedAsShown DEF carriesNode, hasNode
  <2>7. rowsRevealed[k].at \in DOMAIN roots /\ open(roots, rowsRevealed[k].at)
    BY <1>1, <2>2
  <2> QED
    BY <2>1, <2>4, <2>5, <2>6, <2>7 DEF ofRegion
<1> QED
  BY <1>s, <1>2, <1>3, <1>4, RowsAre

LEMMA OpenIsShown ==
  ASSUME NEW F, isForest(F), NEW labels, NEW regions, areRegions(F, regions)
  PROVE  LET s == rowsOf(F, labels, regions, <<>>)
         IN /\ \A x \in DOMAIN F : open(F, x) => F[x].id \in Ids(s, regions, F)
            /\ \A k \in DOMAIN regions : open(F, regions[k].at) =>
                 \A x \in DOMAIN regions[k].roots :
                   open(regions[k].roots, x) => regions[k].roots[x].id \in Ids(s, regions, F)
<1> DEFINE none == <<>>
           s == rowsOf(F, labels, regions, none)
           c == ownContext(labels, none)
<1>1. s \in Seq(Rows) /\ Range(s) = outlineIn(F, labels, regions, none)
  <2> HIDE DEF none
  <2> QED
    BY RowsOfAre
<1>2. isContext(c) /\ c.filter = none /\ c.source = Document
  BY DEF isContext, ownContext, context, Sources, Document
<1>3. ASSUME NEW x \in DOMAIN F, open(F, x)
      PROVE  LET r == row(c, x, FALSE)
             IN /\ r \in Rows /\ r.path = x /\ ~r.elided /\ r.source = Document
                /\ r \in outlined(F, c)
  <2> DEFINE shut == FALSE
             r == row(c, x, shut)
  <2>1. x \in Paths /\ x # <<>>
    BY ForestIs
  <2>2. x \in rowed(F, c) /\ unseen(F, c)[x] = shut
    BY <1>2, <1>3, OpenIsRowed
  <2>3. r \in outlined(F, c)
    BY <2>2 DEF outlined
  <2>4. shut \in BOOLEAN /\ ~shut
    OBVIOUS
  <2> HIDE DEF shut, c
  <2>5. r \in Rows /\ r.path = x /\ r.elided = shut /\ r.source = Document
    BY <1>2, <2>1, <2>4, RowIs
  <2> QED
    BY <2>3, <2>4, <2>5 DEF shut
<1>4. \A r \in Range(s) : \E i \in DOMAIN s : s[i] = r
  BY DEF Range
<1>5. ASSUME NEW x \in DOMAIN F, open(F, x)
      PROVE  F[x].id \in Ids(s, regions, F)
  <2> DEFINE r == row(c, x, FALSE)
  <2>1. r \in outlined(F, c) /\ r.path = x /\ ~r.elided /\ r.source = Document
    BY <1>3, <1>5
  <2> HIDE DEF r
  <2>2. r \in Range(s)
    BY <1>1, <2>1 DEF outlineIn
  <2>3. PICK i \in DOMAIN s : s[i] = r
    BY <1>4, <2>2
  <2>4. hasNode(s[i], regions)
    BY <2>1, <2>3 DEF hasNode, Document, Placeholder, source
  <2> HIDE DEF s
  <2> QED
    BY <2>1, <2>3, <2>4 DEF Ids
<1>6. ASSUME NEW k \in DOMAIN regions, open(F, regions[k].at),
             NEW x \in DOMAIN regions[k].roots, open(regions[k].roots, x)
      PROVE  regions[k].roots[x].id \in Ids(s, regions, F)
  <2> DEFINE p == regions[k].at
             R == regions[k].roots
             d == row(c, p, FALSE)
             e == contextOf(regions, k, d, none)
             shut == FALSE
             r == row(e, x, shut)
  <2>1. p \in DOMAIN F /\ isForest(R) /\ regions[k].of \in Kinds /\ regions # <<>>
    BY RegionListIs DEF areRegions, isRegion
  <2>2. d \in outlined(F, c) /\ d \in Rows /\ d.path = p
    BY <1>3, <1>6, <2>1
  <2>3. x \in Paths /\ x # <<>>
    BY <2>1, ForestIs
  <2> HIDE DEF p, R, c
  <2>4. isContext(e) /\ e.filter = none /\ e.source = source(regions[k].of, k)
    <3>1. k \in Nat
      <4>1. PICK n \in Nat : DOMAIN regions = 1 .. n
        BY DEF areRegions
      <4> QED
        BY <4>1
    <3>2. source(regions[k].of, k) \in Sources
      BY <2>1, <3>1 DEF Sources
    <3> HIDE DEF d
    <3>3. d.depth + 1 \in Nat
      <4>1. d.depth \in Nat
        BY <2>2 DEF Rows
      <4> QED
        BY <4>1
    <3> QED
      BY <3>2, <3>3 DEF isContext, contextOf, context
  <2>5. x \in rowed(R, e) /\ unseen(R, e)[x] = shut
    <3>1. x \in DOMAIN R /\ open(R, x)
      BY <1>6 DEF R
    <3> HIDE DEF e
    <3> QED
      BY <2>4, <3>1, OpenIsRowed
  <2>6. r \in outlined(R, e)
    BY <2>5 DEF outlined
  <2>7. r \in belowIn(F, regions, none, d)
    <3>1. regions[k].at = d.path
      BY <2>2 DEF p
    <3> HIDE DEF d, r
    <3> QED
      BY <2>1, <2>6, <3>1 DEF belowIn, R
  <2>8. r \in Range(s)
    <3> HIDE DEF d, r
    <3> QED
      BY <1>1, <2>2, <2>7 DEF outlineIn, c
  <2>9. shut \in BOOLEAN /\ ~shut
    OBVIOUS
  <2> HIDE DEF shut, e
  <2>10. r.path = x /\ r.elided = shut /\ r.source = source(regions[k].of, k)
    BY <2>3, <2>4, <2>9, RowIs
  <2> HIDE DEF r
  <2>11. PICK i \in DOMAIN s : s[i] = r
    BY <1>4, <2>8
  <2>12. r.source # Document /\ r.source # Placeholder /\ r.source.region = k
    BY <2>1, <2>10, SourcesDiffer
  <2>13. hasNode(s[i], regions)
    BY <2>9, <2>10, <2>11, <2>12 DEF hasNode
  <2> HIDE DEF s
  <2> QED
    BY <2>10, <2>11, <2>12, <2>13 DEF Ids
<1> QED
  BY <1>5, <1>6

LEMMA HeadsAre ==
  ASSUME NEW F, isForest(F), NEW x \in DOMAIN F
  PROVE  /\ x \in Paths /\ x # <<>> /\ Len(x) \in Nat
         /\ \A n \in 1 .. Len(x) - 1 :
              LET y == SubSeq(x, 1, n)
              IN y \in DOMAIN F /\ y \in Paths /\ IsPrefix(y, x) /\ y # x /\ Len(y) = n
<1>1. x \in Paths /\ x # <<>> /\ Len(x) \in Nat
  BY ForestIs, PathIs
<1>2. ASSUME NEW n \in 1 .. Len(x) - 1
      PROVE  LET y == SubSeq(x, 1, n)
             IN y \in DOMAIN F /\ y \in Paths /\ IsPrefix(y, x) /\ y # x /\ Len(y) = n
  <2> DEFINE y == SubSeq(x, 1, n)
  <2>1. n \in 0 .. Len(x) /\ n > 0 /\ n # Len(x)
    BY <1>1
  <2>2. y \in Paths /\ Len(y) = n /\ IsPrefix(y, x)
    BY <1>1, <2>1, HeadIs, HeadIsPrefix
  <2>3. y # x
    BY <2>1, <2>2
  <2>4. y # <<>>
    BY <2>1, <2>2, PathIs
  <2>5. y \in DOMAIN F
    BY <2>2, <2>4, Enclosing
  <2> QED
    BY <2>2, <2>3, <2>5
<1> QED
  BY <1>1, <1>2

LEMMA OpenAbove ==
  ASSUME NEW F, isForest(F), NEW x \in DOMAIN F, open(F, x),
         NEW y \in Paths, y # <<>>, IsPrefix(y, x), y # x
  PROVE  F[y].expanded
<1>1. x \in Paths /\ Len(x) \in Nat /\ Len(y) \in Nat /\ Len(y) > 0
  BY HeadsAre, PathIs
<1>2. Len(y) < Len(x) /\ y = SubSeq(x, 1, Len(y))
  BY <1>1, ShorterPrefix, PrefixIsHead
<1> DEFINE n == Len(y)
<1>3. n \in 1 .. Len(x) - 1
  BY <1>1, <1>2
<1>4. F[SubSeq(x, 1, n)].expanded
  BY <1>3, Zenon DEF open
<1> QED
  BY <1>2, <1>4, Zenon

LEMMA StaysOpen ==
  ASSUME NEW F, isForest(F), NEW G, isForest(G), NEW o, NEW path, NEW m, comesFrom(F, G, o, path, m),
         NEW x \in DOMAIN G, o[x] # <<>>, open(F, o[x])
  PROVE  open(G, x)
<1>1. o[x] \in DOMAIN F
  BY DEF comesFrom
<1>2. ASSUME NEW n \in 1 .. Len(x) - 1
      PROVE  G[SubSeq(x, 1, n)].expanded
  <2> DEFINE y == SubSeq(x, 1, n)
  <2>1. y \in DOMAIN G /\ IsPrefix(y, x) /\ y # x
    BY HeadsAre
  <2> HIDE DEF y
  <2>2. o[y] # <<>> /\ IsPrefix(o[y], o[x]) /\ o[y] # o[x]
    BY <2>1 DEF comesFrom
  <2>3. o[y] \in DOMAIN F /\ (F[o[y]].expanded => G[y].expanded)
    BY <2>1, <2>2, Zenon DEF comesFrom
  <2>4. o[y] \in Paths
    BY <2>3, ForestIs
  <2>5. F[o[y]].expanded
    BY <1>1, <2>2, <2>4, OpenAbove
  <2> QED
    BY <2>3, <2>5, Zenon DEF y
<1> QED
  BY <1>2 DEF open

LEMMA SameFoldsStayOpen ==
  ASSUME NEW F, isForest(F), NEW G, isForest(G),
         \A q \in DOMAIN G : q \in DOMAIN F => G[q].expanded = F[q].expanded,
         NEW x \in DOMAIN G, x \in DOMAIN F, open(F, x)
  PROVE  open(G, x)
<1>1. ASSUME NEW n \in 1 .. Len(x) - 1
      PROVE  G[SubSeq(x, 1, n)].expanded
  <2>1. SubSeq(x, 1, n) \in DOMAIN G /\ SubSeq(x, 1, n) \in DOMAIN F
    BY HeadsAre
  <2>2. F[SubSeq(x, 1, n)].expanded
    BY Zenon DEF open
  <2>3. G[SubSeq(x, 1, n)].expanded = F[SubSeq(x, 1, n)].expanded
    BY <2>1
  <2> QED
    BY <2>2, <2>3
<1> QED
  BY <1>1 DEF open

-----------------------------------------------------------------------------
(* The cursor after an edit.                                               *)
rowsDiffer ==
  \A i, j \in DOMAIN rows : rows[i].source = rows[j].source /\ rows[i].path = rows[j].path => i = j

rowsStand ==
  \A i \in DOMAIN rows : carriesNode(rows[i]) =>
    IF rows[i].source = Document THEN rows[i].path \in DOMAIN roots
    ELSE LET k == rows[i].source.region
         IN /\ k \in DOMAIN revealed /\ rows[i].source = source(revealed[k].of, k)
            /\ revealed[k].at \in DOMAIN roots /\ rows[i].path \in DOMAIN revealed[k].roots

LEMMA RowsDiffer == IInv => rowsDiffer /\ rowsStand
<1> SUFFICES ASSUME IInv
             PROVE  rowsDiffer /\ rowsStand
  OBVIOUS
<1>1. Shown
  BY InvIsShown
<1>2. \A i, j \in DOMAIN rows : i < j => lexBefore(position(rows[i]), position(rows[j]))
  BY <1>1, ShownRows
<1>3. \A i \in DOMAIN rows : i \in Nat
  <2>1. rows \in Seq(Rows)
    BY <1>1, ShownRows
  <2> QED
    BY <2>1
<1>4. ASSUME NEW i \in DOMAIN rows, NEW j \in DOMAIN rows, i < j,
             rows[i].source = rows[j].source, rows[i].path = rows[j].path
      PROVE  FALSE
  <2>1. position(rows[i]) = position(rows[j])
    BY <1>4 DEF position
  <2>2. rows[i] \in Range(rows)
    BY DEF Range
  <2> DEFINE p == position(rows[i])
  <2>3. p \in Places
    BY <1>1, <2>2, PositionIs
  <2>4. lexBefore(p, p)
    BY <1>2, <1>4, <2>1
  <2> HIDE DEF p
  <2> QED
    BY <2>3, <2>4, BeforeIsStrict
<1>5. rowsDiffer
  <2>1. ASSUME NEW i \in DOMAIN rows, NEW j \in DOMAIN rows,
               rows[i].source = rows[j].source, rows[i].path = rows[j].path
        PROVE  i = j
    <3>1. i < j \/ j < i \/ i = j
      BY <1>3
    <3> QED
      BY <1>4, <2>1, <3>1
  <2> QED
    BY <2>1 DEF rowsDiffer
<1>6. rowsStand
  <2>1. ASSUME NEW i \in DOMAIN rows, carriesNode(rows[i])
        PROVE  IF rows[i].source = Document THEN rows[i].path \in DOMAIN roots
               ELSE LET k == rows[i].source.region
                    IN /\ k \in DOMAIN revealed /\ rows[i].source = source(revealed[k].of, k)
                       /\ revealed[k].at \in DOMAIN roots /\ rows[i].path \in DOMAIN revealed[k].roots
    <3> DEFINE r == rows[i]
               k == r.source.region
    <3>1. /\ r \in Range(rows) /\ r.source # Placeholder
          /\ r.source = Document \/ k \in DOMAIN revealed
      BY <2>1 DEF Range, carriesNode, hasNode
    <3> HIDE DEF r
    <3>2. /\ r.path \in DOMAIN forestOf(r.source)
          /\ r.source # Document => k \in DOMAIN revealed /\ r.source = source(revealed[k].of, k)
      BY <3>1, RowOfForest
    <3>3. k \in DOMAIN revealed => revealed[k].at \in DOMAIN roots
      BY DEF IInv, areRegions, isRegion
    <3> QED
      BY <3>2, <3>3 DEF forestOf, r
  <2> QED
    BY <2>1 DEF rowsStand
<1> QED
  BY <1>5, <1>6

LEMMA RowsDifferNext == IInv' => rowsDiffer' /\ rowsStand'
BY RowsDiffer, PTL

(* The node of a row by its name.                                          *)
placeOf(regions, r) == IF r.source = Document THEN <<>> ELSE regions[r.source.region].at

nodeOf(forest, regions, r) ==
  (IF r.source = Document THEN forest ELSE regions[r.source.region].roots)[r.path]

rowsNamed ==
  \A W : arePart(roots, revealed, W) =>
    \A i \in DOMAIN rows : carriesNode(rows[i]) =>
      named(W, placeOf(revealed, rows[i]), rows[i].path, nodeOf(roots, revealed, rows[i]).id)

LEMMA RowsNamed == IInv => rowsNamed
<1> SUFFICES ASSUME IInv, NEW W, arePart(roots, revealed, W), NEW i \in DOMAIN rows,
                    carriesNode(rows[i])
             PROVE  named(W, placeOf(revealed, rows[i]), rows[i].path,
                          nodeOf(roots, revealed, rows[i]).id)
  BY DEF rowsNamed
<1> DEFINE r == rows[i]
           k == r.source.region
           n == nodeOf(roots, revealed, r).id
<1>r. rowsStand
  BY RowsDiffer
<1>1. CASE r.source = Document
  <2>1. r.path \in DOMAIN roots /\ roots[r.path].id = n
    BY <1>r, <1>1 DEF rowsStand, nodeOf
  <2> HIDE DEF n
  <2>2. named(roots, <<>>, r.path, n)
    BY <2>1 DEF named
  <2>3. named(W, <<>>, r.path, n)
    BY <2>2, PartIsNamed
  <2> QED
    BY <1>1, <2>3 DEF placeOf, n
<1>2. CASE r.source # Document
  <2>1. /\ k \in DOMAIN revealed /\ revealed[k].at \in DOMAIN roots
        /\ r.path \in DOMAIN revealed[k].roots /\ revealed[k].roots[r.path].id = n
    BY <1>r, <1>2 DEF rowsStand, nodeOf
  <2> HIDE DEF n
  <2>2. named(W, revealed[k].at, r.path, n)
    BY <2>1, PartIsNamed
  <2> QED
    BY <1>2, <2>2 DEF placeOf, n
<1> QED
  BY <1>1, <1>2

LEMMA RowsNamedNext == IInv' => rowsNamed'
BY RowsNamed, PTL

LEMMA FoundAnyway ==
  ASSUME NEW X, NEW shown \in Seq(X), NEW whose, NEW path, NEW otherwise, at(shown, whose, path) # {}
  PROVE  find(shown, whose, path, otherwise) \in at(shown, whose, path)
<1> DEFINE i == clamped(1, shown)
<1>1. fits(i, shown)
  <2>1. 1 \in Nat /\ 1 >= 1
    OBVIOUS
  <2> QED
    BY <2>1, ClampedFits
<1> HIDE DEF i
<1>2. find(shown, whose, path, i) \in at(shown, whose, path)
  BY <1>1, FoundFits
<1>3. find(shown, whose, path, i) = find(shown, whose, path, otherwise)
  BY DEF find
<1> QED
  BY <1>2, <1>3

LEMMA SelectedWhereEdited ==
  ASSUME IInv', NEW whose, NEW G, NEW path, NEW id, Rebuild(whose, G, path, id),
         NEW i \in DOMAIN rows', rows'[i].source = whose, rows'[i].path = path
  PROVE  selected' = i
<1> DEFINE o == IF rows = <<>> THEN clamped(selected, rows')
                ELSE find(rows', selectedRow.source, selectedRow.path, clamped(selected, rows'))
           s == rows'
<1>1. selected' = find(s, whose, path, o)
  BY DEF Rebuild, reselected
<1>2. s \in Seq(Rows)
  <2>1. isDocument(roots') /\ areRegions(roots', rowsRevealed')
        /\ rows' = rowsOf(roots', rowsIdent', rowsRevealed', filter')
    BY DEF IInv, rowsOK
  <2> QED
    BY <2>1, RowsAreASequence
<1>3. i \in at(s, whose, path)
  BY DEF at
<1>4. rowsDiffer'
  BY RowsDifferNext
<1> HIDE DEF o
<1>5. selected' \in at(s, whose, path)
  BY <1>1, <1>2, <1>3, FoundAnyway
<1>6. selected' \in DOMAIN rows' /\ rows'[selected'].source = whose /\ rows'[selected'].path = path
  BY <1>5 DEF at
<1> QED
  BY <1>4, <1>6 DEF rowsDiffer

LEMMA IdIsNamed ==
  ASSUME NEW U, NEW m, distinct(U, m), NEW l, NEW x, NEW id, named(U, l, x, id),
         NEW k, NEW y, id = NoId \/ named(U, k, y, id)
  PROVE  l = k /\ x = y
<1>1. id # NoId
  BY DEF distinct, NoId
<1> QED
  BY <1>1 DEF distinct

LEMMA SelectionAfter ==
  ASSUME IInv', NEW whose, NEW G, NEW path, NEW id, Rebuild(whose, G, path, id),
         \A i \in DOMAIN rows' :
           hasNode(rows'[i], revealed') /\ nodeOf(roots', revealed', rows'[i]).id = id
             => rows'[i].source = whose /\ rows'[i].path = path
  PROVE  SelectionFollows'
<1> SUFFICES ASSUME held' \in Ids(rows', revealed', roots')
             PROVE  hasNode(rows'[selected'], revealed')
                    /\ nodeOf(roots', revealed', rows'[selected']).id = held'
  BY DEF SelectionFollows, selectedRow, nodeForRow, forestOf, nodeOf, carriesNode
<1>1. PICK i \in DOMAIN rows' : hasNode(rows'[i], revealed')
                                /\ nodeOf(roots', revealed', rows'[i]).id = held'
  BY DEF Ids, nodeOf
<1>2. held' = id
  BY DEF Rebuild
<1>3. selected' = i
  BY <1>1, <1>2, SelectedWhereEdited
<1> QED
  BY <1>1, <1>3

LEMMA DocumentSelection ==
  ASSUME IInv', NEW G, NEW path, NEW id, isEdit(Document, G, path, id), Rebuild(Document, G, path, id),
         NEW W, NEW o, documentNodes(W, o, G, path)
  PROVE  SelectionFollows'
<1>1. distinct(G, inserted') /\ arePart(roots', revealed', G)
  BY DEF documentNodes
<1>2. id = NoId \/ named(G, <<>>, path, id)
  BY DEF isEdit, named
<1>3. ASSUME NEW i \in DOMAIN rows', hasNode(rows'[i], revealed'),
             nodeOf(roots', revealed', rows'[i]).id = id
      PROVE  rows'[i].source = Document /\ rows'[i].path = path
  <2> DEFINE r == rows'[i]
             l == placeOf(revealed', r)
             none == <<>>
             m == inserted'
  <2>1. named(G, l, r.path, id)
    BY <1>1, <1>3, RowsNamedNext DEF rowsNamed, carriesNode
  <2>2. rowsStand'
    BY RowsDifferNext
  <2>3. l = <<>> => r.source = Document
    <3>1. <<>> \notin DOMAIN roots'
      <4>1. isForest(roots')
        BY DEF IInv, isDocument
      <4> QED
        BY <4>1, ForestIs
    <3> QED
      BY <1>3, <2>2, <3>1 DEF placeOf, rowsStand, carriesNode
  <2>4. distinct(G, m) /\ (id = NoId \/ named(G, none, path, id))
    BY <1>1, <1>2
  <2> HIDE DEF r, l, none, m
  <2>5. l = none /\ r.path = path
    BY <2>1, <2>4, IdIsNamed
  <2> QED
    BY <2>3, <2>5 DEF none, r
<1> QED
  BY <1>3, SelectionAfter

LEMMA RegionSelection ==
  ASSUME IInv, IInv', AllDiffer, NEW k \in DOMAIN revealed, NEW G, NEW path, NEW id,
         isEdit(source(revealed[k].of, k), G, path, id), Rebuild(source(revealed[k].of, k), G, path, id),
         NEW W, NEW o, NEW U, regionNodes(W, o, U, k, G, path)
  PROVE  SelectionFollows'
<1> DEFINE p == revealed[k].at
           whose == source(revealed[k].of, k)
<1>1. distinct(U, inserted') /\ arePart(roots', revealed', U) /\ holdsRegion(roots, U, p, G)
  BY DEF regionNodes
<1>2. p \in DOMAIN roots
  BY DEF IInv, areRegions, isRegion
<1>3. id = NoId \/ named(U, p, path, id)
  BY <1>1, <1>2 DEF isEdit, named, holdsRegion
<1>4. /\ \A j \in DOMAIN revealed' : /\ j \in DOMAIN revealed /\ revealed'[j].of = revealed[j].of
                                     /\ revealed'[j].at = revealed[j].at
  <2>1. isForest(G) /\ inNumber(roots, revealed)
    BY DEF isEdit, isForestOf, AllDiffer
  <2> QED
    BY <2>1, RegionEdited
<1>5. ASSUME NEW i \in DOMAIN rows', hasNode(rows'[i], revealed'),
             nodeOf(roots', revealed', rows'[i]).id = id
      PROVE  rows'[i].source = whose /\ rows'[i].path = path
  <2> DEFINE r == rows'[i]
             l == placeOf(revealed', r)
             m == inserted'
             j == r.source.region
  <2>1. named(U, l, r.path, id)
    BY <1>1, <1>5, RowsNamedNext DEF rowsNamed, carriesNode
  <2>2. rowsStand'
    BY RowsDifferNext
  <2>3. l = p /\ r.path = path
    <3>1. distinct(U, m)
      BY <1>1
    <3> HIDE DEF l, m, p, r
    <3> QED
      BY <1>3, <2>1, <3>1, IdIsNamed
  <2>4. r.source # Document
    <3>1. <<>> \notin DOMAIN roots
      <4>1. isForest(roots)
        BY DEF IInv, isDocument
      <4> QED
        BY <4>1, ForestIs
    <3> QED
      BY <1>2, <2>3, <3>1 DEF placeOf
  <2>5. j \in DOMAIN revealed' /\ r.source = source(revealed'[j].of, j)
    BY <1>5, <2>2, <2>4 DEF rowsStand, carriesNode
  <2>6. l = revealed'[j].at
    BY <2>4 DEF placeOf
  <2>7. j = k
    <3>1. j \in DOMAIN revealed /\ revealed[j].at = revealed[k].at
      BY <1>4, <2>3, <2>5, <2>6
    <3> QED
      BY <3>1 DEF IInv, areRegions
  <2> QED
    BY <1>4, <2>3, <2>5, <2>7
<1> HIDE DEF whose
<1>6. Rebuild(whose, G, path, id)
  BY DEF whose
<1> QED
  BY <1>5, <1>6, SelectionAfter

-----------------------------------------------------------------------------
(* The folds after an edit.                                                *)
wasOpen(l, x) ==
  \/ l = <<>> /\ x \in DOMAIN roots /\ open(roots, x)
  \/ \E k \in DOMAIN revealed :
       /\ l = revealed[k].at /\ l \in DOMAIN roots /\ open(roots, l)
       /\ x \in DOMAIN revealed[k].roots /\ open(revealed[k].roots, x)

LEMMA BeforeWasOpen ==
  ASSUME IInv, NEW whose, NEW G, NEW path, NEW id, Rebuild(whose, G, path, id),
         NEW W, arePart(roots, revealed, W), NEW n \in before'
  PROVE  filter = <<>> /\ filter' = <<>> /\ \E l, x : wasOpen(l, x) /\ named(W, l, x, n)
<1>1. before' = IF filter = <<>> THEN Ids(rows, revealed, roots) ELSE {}
  BY DEF Rebuild
<1>2. filter = <<>> /\ filter' = filter
  BY <1>1 DEF Rebuild, search
<1>3. PICK i \in DOMAIN rows : carriesNode(rows[i]) /\ nodeOf(roots, revealed, rows[i]).id = n
  BY <1>1, <1>2 DEF Ids, nodeOf, carriesNode
<1> DEFINE r == rows[i]
           l == placeOf(revealed, r)
<1>4. named(W, l, r.path, n)
  BY <1>3, RowsNamed DEF rowsNamed
<1>5. wasOpen(l, r.path)
  <2>1. r \in Range(rows) /\ carriesNode(r)
    BY <1>3 DEF Range
  <2> HIDE DEF r
  <2>2. \/ r.source = Document /\ r.path \in DOMAIN roots /\ open(roots, r.path)
        \/ LET k == r.source.region
           IN /\ k \in DOMAIN revealed /\ r.source # Document
              /\ revealed[k].at \in DOMAIN roots /\ open(roots, revealed[k].at)
              /\ r.path \in DOMAIN revealed[k].roots /\ open(revealed[k].roots, r.path)
    BY <1>2, <2>1, RowIsOpen
  <2> QED
    BY <2>2 DEF wasOpen, placeOf
<1> QED
  BY <1>2, <1>4, <1>5

LEMMA OpenIsShownNext ==
  ASSUME IInv', rowsRevealed' = revealed', filter' = <<>>
  PROVE  /\ \A x \in DOMAIN roots' : open(roots', x) => roots'[x].id \in Ids(rows', revealed', roots')
         /\ \A k \in DOMAIN revealed' : open(roots', revealed'[k].at) =>
              \A x \in DOMAIN revealed'[k].roots :
                open(revealed'[k].roots, x)
                  => revealed'[k].roots[x].id \in Ids(rows', revealed', roots')
<1> DEFINE F == roots'
           R == revealed'
           labels == rowsIdent'
           s == rowsOf(F, labels, R, <<>>)
<1>1. isForest(F) /\ areRegions(F, R) /\ rows' = s
  BY DEF IInv, rowsOK, isDocument
<1> HIDE DEF F, R, labels
<1>2. /\ \A x \in DOMAIN F : open(F, x) => F[x].id \in Ids(s, R, F)
      /\ \A k \in DOMAIN R : open(F, R[k].at) =>
           \A x \in DOMAIN R[k].roots : open(R[k].roots, x) => R[k].roots[x].id \in Ids(s, R, F)
  BY <1>1, OpenIsShown
<1> HIDE DEF s
<1> QED
  BY <1>1, <1>2 DEF F, R

LEMMA StaysIs ==
  ASSUME IInv', NEW whose, NEW G, NEW path, NEW id, Rebuild(whose, G, path, id),
         \A n \in before' : \A x \in DOMAIN roots' : roots'[x].id = n => open(roots', x),
         \A n \in before' : \A k \in DOMAIN revealed' : revealed'[k].of = "Decrypted" =>
           \A x \in DOMAIN revealed'[k].roots : revealed'[k].roots[x].id = n
             => open(roots', revealed'[k].at) /\ open(revealed'[k].roots, x)
  PROVE  NothingFoldsAway'
<1> DEFINE shown == Ids(rows', revealed', roots')
<1>0. rowsRevealed' = revealed'
  BY DEF Rebuild
<1>1. ASSUME filter' = <<>>, NEW n \in before', NEW x \in DOMAIN roots', roots'[x].id = n
      PROVE  n \in shown
  BY <1>0, <1>1, OpenIsShownNext
<1>2. ASSUME filter' = <<>>, NEW n \in before', NEW k \in DOMAIN revealed',
             revealed'[k].of = "Decrypted",
             NEW x \in DOMAIN revealed'[k].roots, revealed'[k].roots[x].id = n
      PROVE  n \in shown
  BY <1>0, <1>2, OpenIsShownNext
<1> HIDE DEF shown
<1>3. ASSUME filter' = <<>>, NEW n \in before',
             n \in idsOf(roots') \cup
                   UNION {idsOf(revealed'[k].roots) :
                            k \in {k \in DOMAIN revealed' : revealed'[k].of = "Decrypted"}}
      PROVE  n \in shown
  BY <1>1, <1>2, <1>3 DEF idsOf
<1> QED
  BY <1>3 DEF NothingFoldsAway, stays, shown

LEMMA NotInserted ==
  ASSUME OutlineAssumption, IInv, NEW W, distinct(W, inserted), NEW l, NEW x, NEW n, named(W, l, x, n)
  PROVE  n # inserted /\ \A k, y : named(W, k, y, n) => k = l /\ y = x
<1>1. inserted \in Nat
  BY InsertedIs
<1>2. n \in 1 .. inserted - 1
  BY DEF distinct
<1> QED
  BY <1>1, <1>2 DEF distinct

LEMMA DocumentFolds ==
  ASSUME OutlineAssumption, IInv, IInv', AllDiffer, NEW G, NEW path, NEW id,
         isEdit(Document, G, path, id), Rebuild(Document, G, path, id),
         NEW W, NEW o, documentNodes(W, o, G, path)
  PROVE  NothingFoldsAway'
<1> DEFINE H == roots'
           new == revealed'
<1>1. /\ isForest(roots) /\ areRegions(roots, revealed) /\ inNumber(roots, revealed)
      /\ isForest(H) /\ areRegions(H, new)
  BY DEF IInv, isDocument, AllDiffer
<1>2. isDocument(G) /\ isForest(G)
  <2>1. PICK S : isForestOf(G, S) /\ \A s \in S : isForest(s)
    BY DEF isEdit
  <2> QED
    BY <2>1, DocumentIs DEF isForestOf
<1>3. /\ DOMAIN H \subseteq DOMAIN G /\ isDocument(H)
      /\ \A q \in DOMAIN H : H[q].id = G[q].id /\ H[q].expanded = G[q].expanded
      /\ new = refreshed(H, revealed) /\ inNumber(H, new)
  BY <1>2, DocumentEdited
<1>4. /\ distinct(W, inserted) /\ arePart(roots, revealed, W)
      /\ comesFrom(roots, G, o, path, inserted) /\ namesOfDocument(W, G, o, path, inserted)
      /\ arePart(H, new, G)
  BY DEF documentNodes
<1> HIDE DEF H, new
<1>5. ASSUME NEW x \in DOMAIN H, o[x] # <<>>, open(roots, o[x])
      PROVE  open(H, x)
  <2> DEFINE m == inserted
  <2>1. comesFrom(roots, G, o, path, m) /\ x \in DOMAIN G
    BY <1>3, <1>4
  <2> HIDE DEF m
  <2>2. open(G, x)
    BY <1>1, <1>2, <1>5, <2>1, StaysOpen
  <2> QED
    BY <1>1, <1>2, <1>3, <2>1, <2>2, SameFoldsStayOpen
<1>6. ASSUME NEW n \in before', NEW x \in DOMAIN H, H[x].id = n
      PROVE  open(H, x)
  <2>1. PICK l, y : wasOpen(l, y) /\ named(W, l, y, n)
    BY <1>4, BeforeWasOpen
  <2>2. named(G, <<>>, x, n)
    BY <1>3, <1>6 DEF named
  <2>3. n # inserted /\ \A k, z : named(W, k, z, n) => k = l /\ z = y
    BY <1>4, <2>1, NotInserted
  <2>4. o[x] # <<>> /\ named(W, <<>>, o[x], n)
    BY <1>4, <2>2, <2>3 DEF namesOfDocument
  <2>5. l = <<>> /\ y = o[x]
    BY <2>3, <2>4
  <2>6. <<>> \notin DOMAIN roots
    BY <1>1, ForestIs
  <2>7. open(roots, o[x])
    BY <2>1, <2>5, <2>6 DEF wasOpen
  <2> QED
    BY <1>5, <2>4, <2>7
<1>7. ASSUME NEW n \in before', NEW k \in DOMAIN new, new[k].of = "Decrypted",
             NEW x \in DOMAIN new[k].roots, new[k].roots[x].id = n
      PROVE  open(H, new[k].at) /\ open(new[k].roots, x)
  <2> DEFINE p == new[k].at
  <2>1. PICK l, y : wasOpen(l, y) /\ named(W, l, y, n)
    BY <1>4, BeforeWasOpen
  <2>2. p \in DOMAIN H /\ isForest(new[k].roots) /\ p # <<>>
    <3>1. p \in DOMAIN H /\ isForest(new[k].roots)
      BY <1>1 DEF areRegions, isRegion
    <3> QED
      BY <1>1, <3>1, ForestIs
  <2>3. named(G, p, x, n)
    BY <1>4, <1>7, <2>2, PartIsNamed
  <2>4. n # inserted /\ \A j, z : named(W, j, z, n) => j = l /\ z = y
    BY <1>4, <2>1, NotInserted
  <2>5. o[p] # <<>> /\ named(W, o[p], x, n)
    BY <1>4, <2>2, <2>3, <2>4 DEF namesOfDocument
  <2>6. l = o[p] /\ y = x
    BY <2>4, <2>5
  <2>7. PICK j \in DOMAIN revealed :
          /\ l = revealed[j].at /\ open(roots, l)
          /\ x \in DOMAIN revealed[j].roots /\ open(revealed[j].roots, x)
    BY <2>1, <2>5, <2>6 DEF wasOpen
  <2>8. open(H, p)
    BY <1>5, <2>2, <2>5, <2>6, <2>7
  <2>9. k = 1 /\ j = 1
    <3>1. k = 1
      BY <1>1, <1>3, <1>7, OnlyKey
    <3>2. new # <<>>
      BY <1>1, RegionListIs
    <3>3. new[k].of = revealed[1].of
      BY <1>1, <1>3, <3>2, RefreshedIs
    <3>4. revealed # <<>>
      BY <1>1, RegionListIs
    <3>5. revealed[j].of = revealed[1].of
      BY <1>1, <3>4 DEF inNumber
    <3>6. revealed[j].of = "Decrypted"
      BY <1>7, <3>3, <3>5
    <3> QED
      BY <1>1, <3>1, <3>6, OnlyKey
  <2>10. \A q \in DOMAIN new[k].roots :
           q \in DOMAIN revealed[j].roots => new[k].roots[q].expanded = revealed[j].roots[q].expanded
    <3>1. new # <<>>
      BY <1>1, RegionListIs
    <3>2. \A i \in DOMAIN new : i \in DOMAIN revealed =>
            \A q \in DOMAIN new[i].roots :
              q \in DOMAIN revealed[i].roots
                => new[i].roots[q].expanded = revealed[i].roots[q].expanded
      BY <1>1, <1>3, <3>1, RefreshedIs
    <3> QED
      BY <2>9, <3>2
  <2> DEFINE A == revealed[j].roots
             B == new[k].roots
  <2>11. /\ isForest(A) /\ isForest(B) /\ x \in DOMAIN A /\ x \in DOMAIN B /\ open(A, x)
         /\ \A q \in DOMAIN B : q \in DOMAIN A => B[q].expanded = A[q].expanded
    BY <1>1, <2>2, <2>7, <2>10 DEF areRegions, isRegion
  <2> HIDE DEF A, B
  <2>12. open(B, x)
    BY <2>11, SameFoldsStayOpen
  <2> QED
    BY <2>8, <2>12 DEF B
<1> QED
  BY <1>6, <1>7, StaysIs DEF H, new

LEMMA RegionFolds ==
  ASSUME OutlineAssumption, IInv, IInv', AllDiffer, NEW k \in DOMAIN revealed,
         NEW G, NEW path, NEW id, isEdit(source(revealed[k].of, k), G, path, id),
         Rebuild(source(revealed[k].of, k), G, path, id),
         NEW W, NEW o, NEW U, regionNodes(W, o, U, k, G, path)
  PROVE  NothingFoldsAway'
<1> DEFINE H == roots'
           new == revealed'
           R == revealed[k].roots
           p == revealed[k].at
<1>1. /\ isForest(roots) /\ areRegions(roots, revealed) /\ inNumber(roots, revealed)
      /\ isForest(H) /\ areRegions(H, new)
  BY DEF IInv, isDocument, AllDiffer
<1>2. isForest(G) /\ isForest(R) /\ p \in DOMAIN roots /\ p # <<>>
  <2>1. isForest(G) /\ isForest(R) /\ p \in DOMAIN roots
    BY <1>1 DEF isEdit, isForestOf, areRegions, isRegion
  <2> QED
    BY <1>1, <2>1, ForestIs
<1>3. /\ DOMAIN H = DOMAIN roots
      /\ \A q \in DOMAIN roots : H[q].id = roots[q].id /\ H[q].expanded = roots[q].expanded
      /\ \A j \in DOMAIN new : /\ j \in DOMAIN revealed /\ new[j].of = revealed[j].of
                               /\ new[j].at = revealed[j].at
      /\ revealed[k].of = "Decrypted" => new[k].roots = G
  BY <1>1, <1>2, RegionEdited
<1>4. /\ distinct(W, inserted) /\ arePart(roots, revealed, W)
      /\ comesFrom(R, G, o, path, inserted) /\ namesOfRegion(W, U, p, G, o, path, inserted)
      /\ arePart(H, new, U) /\ holdsRegion(roots, U, p, G)
  BY DEF regionNodes
<1> HIDE DEF H, new
<1>w. Rebuild(source(revealed[k].of, k), G, path, id)
  OBVIOUS
<1>5. ASSUME NEW x \in DOMAIN H, open(roots, x)
      PROVE  open(H, x)
  BY <1>1, <1>3, <1>5, SameFoldsStayOpen
<1>6. ASSUME NEW n \in before', NEW x \in DOMAIN H, H[x].id = n
      PROVE  open(H, x)
  <2>1. PICK l, y : wasOpen(l, y) /\ named(W, l, y, n)
    BY <1>4, <1>w, BeforeWasOpen
  <2>2. named(U, <<>>, x, n)
    BY <1>3, <1>4, <1>6 DEF named, holdsRegion
  <2>3. \A j, z : named(W, j, z, n) => j = l /\ z = y
    BY <1>4, <2>1, NotInserted
  <2>4. named(W, <<>>, x, n)
    BY <1>2, <1>4, <2>2 DEF namesOfRegion
  <2>5. l = <<>> /\ y = x
    BY <2>3, <2>4
  <2>6. <<>> \notin DOMAIN roots
    BY <1>1, ForestIs
  <2>7. open(roots, x)
    BY <2>1, <2>5, <2>6 DEF wasOpen
  <2> QED
    BY <1>5, <2>7
<1>7. ASSUME NEW n \in before', NEW j \in DOMAIN new, new[j].of = "Decrypted",
             NEW x \in DOMAIN new[j].roots, new[j].roots[x].id = n
      PROVE  open(H, new[j].at) /\ open(new[j].roots, x)
  <2>1. PICK l, y : wasOpen(l, y) /\ named(W, l, y, n)
    BY <1>4, <1>w, BeforeWasOpen
  <2>2. j \in DOMAIN revealed /\ revealed[j].of = "Decrypted" /\ new[j].at = revealed[j].at
    BY <1>3, <1>7
  <2>3. j = k
    BY <1>1, <2>2, OnlyKey
  <2>4. new[j].at = p /\ new[j].roots = G
    BY <1>3, <2>2, <2>3
  <2>5. x \in DOMAIN G /\ G[x].id = n
    BY <1>7, <2>4
  <2>6. named(U, p, x, n)
    BY <1>2, <1>4, <2>5 DEF named, holdsRegion
  <2>7. n # inserted /\ \A i, z : named(W, i, z, n) => i = l /\ z = y
    BY <1>4, <2>1, NotInserted
  <2>8. o[x] # <<>> /\ named(W, p, o[x], n)
    BY <1>4, <2>6, <2>7 DEF namesOfRegion
  <2>9. l = p /\ y = o[x]
    BY <2>7, <2>8
  <2>10. PICK i \in DOMAIN revealed :
           /\ p = revealed[i].at /\ open(roots, p) /\ open(revealed[i].roots, o[x])
    BY <1>2, <2>1, <2>9 DEF wasOpen
  <2>11. i = k
    BY <1>1, <2>10 DEF areRegions
  <2>12. open(H, p)
    BY <1>2, <1>3, <1>5, <2>10
  <2>13. open(R, o[x])
    BY <2>10, <2>11
  <2>14. open(G, x)
    <3> DEFINE m == inserted
    <3>1. comesFrom(R, G, o, path, m)
      BY <1>4
    <3> HIDE DEF m, R
    <3> QED
      BY <1>2, <2>5, <2>8, <2>13, <3>1, StaysOpen
  <2> QED
    BY <2>4, <2>12, <2>14
<1> DEFINE whose == source(revealed[k].of, k)
<1>8. Rebuild(whose, G, path, id)
  BY <1>w
<1> HIDE DEF whose
<1> QED
  BY <1>6, <1>7, <1>8, StaysIs DEF H, new

LEMMA EditLeavesTheView ==
  ASSUME OutlineAssumption, IInv, IInv', AllDiffer, Edit
  PROVE  EditsKeepTheView'
<1>1. PICK whose, G, path, id : isEdit(whose, G, path, id) /\ Rebuild(whose, G, path, id)
  BY EditIs DEF edit
<1>2. CASE whose = Document
  <2>1. PICK W, o : documentNodes(W, o, G, path)
    BY <1>1, <1>2, DocumentEditDiffers
  <2>2. SelectionFollows' /\ NothingFoldsAway'
    BY <1>1, <1>2, <2>1, DocumentSelection, DocumentFolds
  <2> QED
    BY <2>2 DEF EditsKeepTheView
<1>3. CASE whose # Document
  <2> DEFINE k == whose.region
  <2>1. k \in DOMAIN revealed /\ whose = source(revealed[k].of, k)
    BY <1>1, <1>3 DEF isEdit, isSource
  <2>2. isEdit(source(revealed[k].of, k), G, path, id) /\ Rebuild(source(revealed[k].of, k), G, path, id)
    BY <1>1, <2>1
  <2> HIDE DEF k
  <2>3. PICK W, o, U : regionNodes(W, o, U, k, G, path)
    BY <2>1, <2>2, RegionEditDiffers
  <2>4. SelectionFollows'
    BY <2>1, <2>2, <2>3, RegionSelection
  <2>5. NothingFoldsAway'
    BY <2>1, <2>2, <2>3, RegionFolds
  <2> QED
    BY <2>4, <2>5 DEF EditsKeepTheView
<1> QED
  BY <1>2, <1>3

(* Where there was no edit, there is nothing to keep.                      *)
LEMMA NothingToKeep ==
  ASSUME IInv', AllDiffer', held' = NoId, before' = {}
  PROVE  EditsKeepTheView'
<1>1. PICK W : distinct(W, FreeId + edits') /\ arePart(roots', revealed', W)
  BY DEF AllDiffer
<1>2. NoId \notin Ids(rows', revealed', roots')
  <2> SUFFICES ASSUME NoId \in Ids(rows', revealed', roots')
               PROVE  FALSE
    OBVIOUS
  <2>1. PICK i \in DOMAIN rows' : hasNode(rows'[i], revealed')
                                  /\ nodeOf(roots', revealed', rows'[i]).id = NoId
    BY DEF Ids, nodeOf
  <2> DEFINE l == placeOf(revealed', rows'[i])
             x == rows'[i].path
             m == FreeId + edits'
  <2>2. named(W, l, x, NoId)
    BY <1>1, <2>1, RowsNamedNext DEF rowsNamed, carriesNode
  <2>3. distinct(W, m)
    BY <1>1
  <2> HIDE DEF l, x, m
  <2>4. NoId \in 1 .. m - 1
    BY <2>2, <2>3 DEF distinct
  <2> QED
    BY <2>4 DEF NoId
<1>3. SelectionFollows'
  BY <1>2 DEF SelectionFollows
<1>4. NothingFoldsAway'
  BY DEF NothingFoldsAway, stays
<1> QED
  BY <1>3, <1>4 DEF EditsKeepTheView

LEMMA EditOrNothing ==
  ASSUME Next
  PROVE  Edit \/ (held' = NoId /\ before' = {})
<1>1. \A f \in Files : OpenFile(f) => held' = NoId /\ before' = {}
  BY DEF OpenFile
<1>2. Unlock \/ UnlockFails => held' = NoId /\ before' = {}
  BY DEF Unlock, UnlockFails, noEdit
<1>3. Keys => held' = NoId /\ before' = {}
  BY DEF Keys, Select, ToggleExpand, CollapseOrParent, ExpandOrChild, Fold, StartFilter,
         StartBrowserSearch, noEdit
<1>4. FilterKeys => held' = NoId /\ before' = {}
  BY DEF FilterKeys, FilterInsertChar, FilterBackspace, FilterDelete, FilterMoveCursor, FilterAccept,
         FilterClear, Refilter, noEdit
<1> QED
  BY <1>1, <1>2, <1>3, <1>4 DEF Next

ViewInv == IInv /\ AllDiffer /\ EditsKeepTheView

LEMMA ViewKept ==
  ASSUME OutlineAssumption, ViewInv, [Next]_vars
  PROVE  ViewInv'
<1>1. IInv /\ AllDiffer /\ IInv' /\ AllDiffer'
  BY IInvKept, AllDifferKept DEF ViewInv
<1>2. CASE UNCHANGED vars
  <2>1. EditsKeepTheView'
    BY <1>2 DEF ViewInv, vars, doc, view, search, lastEdit, EditsKeepTheView, SelectionFollows,
                NothingFoldsAway, stays, selectedRow, nodeForRow, forestOf, carriesNode
  <2> QED
    BY <1>1, <2>1 DEF ViewInv
<1>3. CASE Next
  BY <1>1, <1>3, EditOrNothing, EditLeavesTheView, NothingToKeep DEF ViewInv
<1> QED
  BY <1>2, <1>3

LEMMA InitialView ==
  ASSUME OutlineAssumption, Init
  PROVE  ViewInv
<1>1. IInv /\ AllDiffer
  BY InitKeeps, InitDiffers
<1>2. rows = <<>> /\ before = {}
  BY DEF Init
<1>3. Ids(rows, revealed, roots) = {}
  <2>1. DOMAIN rows = {}
    BY <1>2
  <2> QED
    BY <2>1 DEF Ids
<1>4. EditsKeepTheView
  BY <1>2, <1>3 DEF EditsKeepTheView, SelectionFollows, NothingFoldsAway, stays
<1> QED
  BY <1>1, <1>4 DEF ViewInv

(* After every edit the cursor is on what the edit put in place or moved,  *)
(* and what was on a row and is still there, in the document or in the     *)
(* plaintext of an encrypted key, is on a row: App::rebuild encodes and    *)
(* parses everything again, and no fold is lost or taken over by another   *)
(* element.                                                                *)
THEOREM EditsLeaveTheView == Spec => []EditsKeepTheView
<1>1. Init => ViewInv
  BY OutlineAssumption, InitialView
<1>2. ViewInv /\ [Next]_vars => ViewInv'
  BY OutlineAssumption, ViewKept
<1>3. ViewInv => EditsKeepTheView
  BY DEF ViewInv
<1> QED
  BY <1>1, <1>2, <1>3, PTL DEF Spec
=============================================================================
