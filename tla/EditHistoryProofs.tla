-------------------------- MODULE EditHistoryProofs --------------------------
(***************************************************************************)
(* Proofs about module EditHistory, for every initial value, every undo    *)
(* depth, both selection units and every bound.                            *)
(***************************************************************************)
EXTENDS EditHistory, Integers, FiniteSetTheorems, WellFoundedInduction,
        SequenceTheorems, TLAPS

(* Every nonempty set of naturals has a least element.                     *)
LEMMA LeastNatural ==
  ASSUME NEW S \in SUBSET Nat, S # {}
  PROVE  \E m \in S : \A n \in S : m <= n
<1> DEFINE R == OpToRel(<, Nat)
<1>1. IsWellFoundedOn(R, Nat)
  BY NatLessThanWellFounded
<1>2. R = {ss \in Nat \X Nat : ss[1] < ss[2]}
  BY DEF OpToRel
<1> HIDE DEF R
<1>3. PICK m \in S : \A y \in S : ~(<<y, m>> \in R)
  BY <1>1, WFMin
<1>4. \A y \in S : ~(y < m)
  BY <1>2, <1>3
<1> QED
  BY <1>4

(***************************************************************************)
(* restored_range: the shared head and tail exist and do not overlap.      *)
(***************************************************************************)
LEMMA SharedHead ==
  ASSUME NEW S, NEW s \in Seq(S), NEW t \in Seq(S)
  PROVE  /\ sharedHead(s, t) \in 0 .. Len(s)
         /\ \A i \in 1 .. sharedHead(s, t) : s[i] = t[i]
<1> DEFINE D == {n \in 0 .. Len(s) : n = Len(s) \/ s[n + 1] # t[n + 1]}
<1>1. Len(s) \in D /\ D \in SUBSET Nat
  OBVIOUS
<1>2. PICK m \in D : \A n \in D : m <= n
  BY <1>1, LeastNatural
<1>3. m \in 0 .. Len(s) /\ (m = Len(s) \/ s[m + 1] # t[m + 1])
  BY <1>2
<1>4. ASSUME NEW i \in 1 .. m PROVE s[i] = t[i]
  <2>1. i - 1 \notin D /\ i - 1 \in 0 .. Len(s) /\ i - 1 + 1 = i
    BY <1>2, <1>3
  <2> QED
    BY <2>1
<1> QED
  BY <1>3, <1>4 DEF sharedHead

LEMMA SharedTail ==
  ASSUME NEW S, NEW s \in Seq(S), NEW t \in Seq(S), NEW h \in 0 .. Len(s)
  PROVE  /\ sharedTail(s, t, h) \in 0 .. Len(s) - h
         /\ \A i \in Len(s) - sharedTail(s, t, h) + 1 .. Len(s) : s[i] = t[i + (Len(t) - Len(s))]
<1> DEFINE N == Len(s) - h
           D == {n \in 0 .. N : n = N \/ s[Len(s) - n] # t[Len(t) - n]}
           shift == Len(t) - Len(s)
<1>1. N \in D /\ D \in SUBSET Nat
  OBVIOUS
<1>2. PICK m \in D : \A n \in D : m <= n
  BY <1>1, LeastNatural
<1>3. m \in 0 .. N /\ (m = N \/ s[Len(s) - m] # t[Len(t) - m])
  BY <1>2
<1>4. ASSUME NEW i \in Len(s) - m + 1 .. Len(s) PROVE s[i] = t[i + shift]
  <2>1. Len(s) - i \in 0 .. N /\ Len(s) - i < m
    BY <1>3
  <2>2. Len(s) - i \notin D
    <3> HIDE DEF D
    <3> QED
      BY <1>2, <1>3, <2>1
  <2>3. Len(s) - (Len(s) - i) = i /\ Len(t) - (Len(s) - i) = i + shift
    BY <1>3
  <2> QED
    BY <2>1, <2>2, <2>3
<1> QED
  BY <1>3, <1>4 DEF sharedTail

LEMMA RestoredRange ==
  ASSUME NEW S, NEW s \in Seq(S), NEW t \in Seq(S)
  PROVE  /\ restoredRange(s, t) \in Nat \X Nat
         /\ restoredRange(s, t)[1] <= restoredRange(s, t)[2]
         /\ restoredRange(s, t)[2] <= Len(t)
<1> DEFINE h == sharedHead(s, t)
           b == sharedTail(s, t, h)
<1>1. h \in 0 .. Len(s)
  BY SharedHead
<1>2. b \in 0 .. Len(s) - h
  BY <1>1, SharedTail
<1> HIDE DEF h, b
<1>3. CASE Len(t) <= Len(s)
  BY <1>3 DEF restoredRange, None
<1>4. CASE Len(t) > Len(s)
  <2>1. restoredRange(s, t) = <<h, Len(t) - b>>
    BY <1>4 DEF restoredRange, h, b
  <2> QED
    BY <1>1, <1>2, <1>4, <2>1
<1> QED
  BY <1>3, <1>4

(***************************************************************************)
(* The selection and the pieces of the buffer a change is made of.         *)
(***************************************************************************)
LEMMA Rounding ==
  ASSUME NEW i \in Nat
  PROVE  roundDown(i) \in 0 .. i /\ roundUp(i) \in Nat /\ i <= roundUp(i)
<1>1. CASE Unit = 1
  BY <1>1 DEF roundDown, roundUp
<1>2. CASE Unit = 2
  BY <1>2 DEF roundDown, roundUp
<1> QED
  BY <1>1, <1>2, UnitAssumption

LEMMA SelectionRange ==
  ASSUME buf \in Buffers, cursor \in Nat, cursor <= Len(buf), anchor \in Nat \cup {NoAnchor}
  PROVE  /\ cutStart \in Nat /\ cutEnd \in Nat
         /\ cutStart <= cutEnd /\ cutEnd <= Len(buf)
         /\ cutStart <= cursor
<1>1. CASE anchor \in {NoAnchor, cursor}
  BY <1>1 DEF selection, None, cutStart, cutEnd, least, Buffers
<1>2. CASE anchor \notin {NoAnchor, cursor}
  <2> DEFINE lo == least(anchor, cursor)
             hi == most(anchor, cursor)
  <2>1. lo \in Nat /\ hi \in Nat /\ lo <= cursor /\ cursor <= hi
    BY <1>2 DEF least, most
  <2> HIDE DEF lo, hi
  <2>2. roundDown(lo) \in 0 .. lo /\ roundUp(hi) \in Nat /\ hi <= roundUp(hi)
    BY <2>1, Rounding
  <2>3. cutStart = roundDown(lo) /\ cutEnd = least(roundUp(hi), Len(buf))
    BY <1>2 DEF selection, cutStart, cutEnd, lo, hi
  <2>4. Len(buf) \in Nat
    BY DEF Buffers
  <2> QED
    BY <2>1, <2>2, <2>3, <2>4 DEF least
<1> QED
  BY <1>1, <1>2

\* Taking a range out of a buffer.
LEMMA TakenOut ==
  ASSUME NEW s \in Buffers, NEW i \in Nat, NEW j \in Nat, i <= j, j <= Len(s)
  PROVE  /\ SubSeq(s, 1, i) \o SubSeq(s, j + 1, Len(s)) \in Buffers
         /\ Len(SubSeq(s, 1, i) \o SubSeq(s, j + 1, Len(s))) = Len(s) - (j - i)
<1> DEFINE front == SubSeq(s, 1, i)
           back == SubSeq(s, j + 1, Len(s))
<1>1. s \in Seq(Items) /\ Len(s) \in Nat /\ Len(s) <= MaxLen /\ MaxLen \in Nat
  BY BoundsAssumption DEF Buffers
<1>2. front \in Seq(Items) /\ Len(front) = i
  BY <1>1
<1>3. back \in Seq(Items) /\ Len(back) = Len(s) - j
  BY <1>1
<1> HIDE DEF front, back
<1>4. front \o back \in Seq(Items) /\ Len(front \o back) = Len(s) - (j - i)
  BY <1>1, <1>2, <1>3
<1>5. Len(front \o back) <= MaxLen
  BY <1>1, <1>4
<1>6. front \o back \in Buffers
  BY <1>4, <1>5 DEF Buffers
<1> QED
  BY <1>4, <1>6 DEF front, back

\* Putting items into a buffer.
LEMMA PutIn ==
  ASSUME NEW s \in Buffers, NEW items \in Seq(Items), NEW at \in 0 .. Len(s),
         Len(s) + Len(items) <= MaxLen
  PROVE  /\ SubSeq(s, 1, at) \o items \o SubSeq(s, at + 1, Len(s)) \in Buffers
         /\ Len(SubSeq(s, 1, at) \o items \o SubSeq(s, at + 1, Len(s))) = Len(s) + Len(items)
<1> DEFINE front == SubSeq(s, 1, at)
           back == SubSeq(s, at + 1, Len(s))
           head == front \o items
<1>1. s \in Seq(Items) /\ Len(s) \in Nat /\ MaxLen \in Nat /\ Len(items) \in Nat
  BY BoundsAssumption DEF Buffers
<1>2. front \in Seq(Items) /\ Len(front) = at
  BY <1>1
<1>3. back \in Seq(Items) /\ Len(back) = Len(s) - at
  BY <1>1
<1> HIDE DEF front, back
<1>4. head \in Seq(Items) /\ Len(head) = at + Len(items)
  BY <1>1, <1>2
<1> HIDE DEF head
<1>5. head \o back \in Seq(Items) /\ Len(head \o back) = Len(head) + Len(back)
  BY <1>3, <1>4
<1>6. Len(head \o back) = Len(s) + Len(items)
  BY <1>1, <1>3, <1>4, <1>5
<1>7. head \o back \in Buffers
  BY <1>5, <1>6 DEF Buffers
<1> QED
  BY <1>6, <1>7 DEF head, front, back

(***************************************************************************)
(* Pasting: what is taken of a text is the items at some of its positions. *)
(***************************************************************************)
(* The positions of a sequence are finitely many naturals.                 *)
LEMMA PositionsAreFinite ==
  ASSUME NEW n \in Nat, NEW I \in SUBSET (1 .. n)
  PROVE  IsFiniteSet(I) /\ I \in SUBSET Nat /\ Cardinality(I) \in Nat
<1>1. IsFiniteSet(1 .. n)
  <2>1. n \in Int
    OBVIOUS
  <2> QED
    BY <2>1, FS_Interval
<1>2. IsFiniteSet(I)
  BY <1>1, FS_Subset
<1> QED
  BY <1>2, FS_CardinalityType

(* How many positions there are up to one of them.                         *)
LEMMA CountToType ==
  ASSUME NEW I \in SUBSET Nat, IsFiniteSet(I), NEW i \in Int
  PROVE  countTo(I, i) \in Nat /\ countTo(I, i) <= Cardinality(I) /\ Cardinality(I) \in Nat
<1>1. {j \in I : j <= i} \in SUBSET I
  OBVIOUS
<1> QED
  BY <1>1, FS_Subset, FS_CardinalityType DEF countTo

LEMMA CountToGrows ==
  ASSUME NEW I \in SUBSET Nat, IsFiniteSet(I), NEW i \in Nat
  PROVE  countTo(I, i) = countTo(I, i - 1) + IF i \in I THEN 1 ELSE 0
<1> DEFINE low == {j \in I : j <= i - 1}
<1>1. IsFiniteSet(low)
  BY FS_Subset
<1>0. \A j \in I : j \in Nat /\ (j <= i <=> j <= i - 1 \/ j = i)
  OBVIOUS
<1>2. CASE i \in I
  <2>0. ~(i <= i - 1)
    OBVIOUS
  <2>3. i \notin low
    BY <2>0
  <2>1. {j \in I : j <= i} = low \cup {i}
    BY <1>0, <1>2, Zenon
  <2> QED
    BY <1>1, <1>2, <2>1, <2>3, FS_AddElement, CountToType DEF countTo
<1>3. CASE i \notin I
  <2>1. {j \in I : j <= i} = low
    BY <1>0, <1>3
  <2>2. Cardinality(low) \in Nat
    BY <1>1, FS_CardinalityType
  <2> QED
    BY <1>3, <2>1, <2>2 DEF countTo
<1> QED
  BY <1>2, <1>3

(* There is a k-th position.                                               *)
LEMMA NthExists ==
  ASSUME NEW n \in Nat, NEW I \in SUBSET (1 .. n), NEW k \in 1 .. Cardinality(I)
  PROVE  nth(I, k) \in I /\ countTo(I, nth(I, k)) = k
<1>1. IsFiniteSet(I) /\ I \in SUBSET Nat /\ Cardinality(I) \in Nat
  BY PositionsAreFinite
<1>2. Cardinality(I) \in Nat /\ k \in Nat /\ k > 0
  BY <1>1, FS_CardinalityType
<1> DEFINE D == {m \in 0 .. n : countTo(I, m) >= k}
<1>3. n \in D
  <2>0. \A j \in I : j <= n
    OBVIOUS
  <2>1. {j \in I : j <= n} = I
    BY <2>0
  <2> QED
    BY <1>2, <2>1 DEF countTo
<1>4. PICK m \in D : \A l \in D : m <= l
  <2>1. D \in SUBSET Nat /\ D # {}
    BY <1>3
  <2> HIDE DEF D
  <2> QED
    BY <2>1, LeastNatural
<1>5. m # 0
  <2>0. \A j \in I : ~(j <= 0)
    OBVIOUS
  <2>1. {j \in I : j <= 0} = {}
    BY <2>0
  <2>2. countTo(I, 0) = 0
    BY <2>1, FS_EmptySet DEF countTo
  <2> QED
    BY <1>2, <1>4, <2>2
<1>6. m - 1 \in 0 .. n /\ ~(countTo(I, m - 1) >= k)
  BY <1>4, <1>5
<1>7. countTo(I, m) = countTo(I, m - 1) + IF m \in I THEN 1 ELSE 0
  BY <1>1, <1>4, CountToGrows
<1>8. countTo(I, m) \in Nat /\ countTo(I, m - 1) \in Nat
  BY <1>1, <1>4, CountToType
<1>9. m \in I /\ countTo(I, m) = k
  BY <1>2, <1>4, <1>6, <1>7, <1>8
<1> QED
  BY <1>9 DEF nth

LEMMA TakenType ==
  ASSUME NEW text \in Seq(Items)
  PROVE  taken(text) \in Seq(Items)
<1> DEFINE stays == {k \in DOMAIN text : ~dropped(text[k])}
           item(k) == text[nth(stays, k)]
<1>1. stays \in SUBSET (1 .. Len(text)) /\ Len(text) \in Nat
  OBVIOUS
<1>2. Cardinality(stays) \in Nat
  BY <1>1, PositionsAreFinite
<1>3. ASSUME NEW k \in 1 .. Cardinality(stays) PROVE nth(stays, k) \in 1 .. Len(text)
  <2> HIDE DEF stays
  <2> QED
    BY <1>1, <1>3, NthExists
<1>4. KeepsNewlines => LineFeed \in Items
  BY DEF Items, newlines
<1> HIDE DEF stays
<1>5. \A k \in 1 .. Cardinality(stays) :
        (IF KeepsNewlines /\ item(k) = Return THEN LineFeed ELSE item(k)) \in Items
  BY <1>3, <1>4
<1>6. taken(text) = [k \in 1 .. Cardinality(stays) |->
                       IF KeepsNewlines /\ item(k) = Return THEN LineFeed ELSE item(k)]
  BY DEF taken, stays
<1> QED
  BY <1>2, <1>5, <1>6

(* A text without control characters is taken as it is.                    *)
LEMMA TakenWhole ==
  ASSUME NEW S, NEW text \in Seq(S), pastedWhole(text)
  PROVE  taken(text) = text
<1> DEFINE stays == {k \in DOMAIN text : ~dropped(text[k])}
           item(k) == text[nth(stays, k)]
<1>1. stays = 1 .. Len(text) /\ Len(text) \in Nat
  BY DEF pastedWhole
<1>2. Cardinality(1 .. Len(text)) = Len(text)
  <2>1. 1 \in Int /\ Len(text) \in Int
    BY <1>1
  <2>2. Cardinality(1 .. Len(text)) = IF 1 > Len(text) THEN 0 ELSE Len(text) - 1 + 1
    BY <2>1, FS_Interval
  <2> QED
    BY <1>1, <2>2
<1>3. ASSUME NEW k \in 1 .. Len(text) PROVE nth(1 .. Len(text), k) = k
  <2>1. k \in Nat /\ k \in 1 .. Cardinality(1 .. Len(text))
    BY <1>1, <1>2
  <2>2. nth(1 .. Len(text), k) \in 1 .. Len(text) /\ countTo(1 .. Len(text), nth(1 .. Len(text), k)) = k
    BY <1>1, <2>1, NthExists
  <2>3. ASSUME NEW i \in 1 .. Len(text) PROVE countTo(1 .. Len(text), i) = i
    <3>1. {j \in 1 .. Len(text) : j <= i} = 1 .. i
      BY <1>1
    <3>2. 1 \in Int /\ i \in Int
      BY <1>1
    <3>3. Cardinality(1 .. i) = IF 1 > i THEN 0 ELSE i - 1 + 1
      BY <3>2, FS_Interval
    <3>4. Cardinality(1 .. i) = i
      BY <1>1, <3>3
    <3> QED
      BY <3>1, <3>4 DEF countTo
  <2> QED
    BY <2>2, <2>3
<1>4. taken(text) = [k \in 1 .. Cardinality(stays) |->
                       IF KeepsNewlines /\ item(k) = Return THEN LineFeed ELSE item(k)]
  BY DEF taken
<1>5. taken(text) = [k \in 1 .. Len(text) |->
                       IF KeepsNewlines /\ text[nth(1 .. Len(text), k)] = Return THEN LineFeed
                       ELSE text[nth(1 .. Len(text), k)]]
  BY <1>1, <1>2, <1>4
<1>6. \A k \in 1 .. Len(text) : ~(KeepsNewlines /\ text[k] = Return)
  BY DEF pastedWhole
<1>7. taken(text) = [k \in 1 .. Len(text) |-> text[k]]
  <2> HIDE DEF stays, item
  <2> QED
    BY <1>3, <1>5, <1>6
<1> QED
  BY <1>1, <1>7

(***************************************************************************)
(* The inductive invariant: the types and the bounds.  That a selection    *)
(* starts before it ends follows from them.                                *)
(***************************************************************************)
Safe ==
  /\ TypeOK
  /\ cursor <= Len(buf)
  /\ fresh[1] <= fresh[2] /\ fresh[2] <= Len(buf)
  /\ Len(undo) <= UndoDepth
  /\ \A k \in DOMAIN undo : undo[k].cursor <= Len(undo[k].buf)

Snapshots == [buf : Buffers, cursor : Nat]

LEMMA SafeMeansInBounds == Safe => RangesInBounds
BY SelectionRange DEF Safe, TypeOK, RangesInBounds

LEMMA RestIsABuffer ==
  ASSUME Safe
  PROVE  /\ rest \in Buffers
         /\ Len(rest) = Len(buf) - (cutEnd - cutStart)
         /\ cutStart \in 0 .. Len(rest)
<1>1. /\ cutStart \in Nat /\ cutEnd \in Nat /\ cutStart <= cutEnd /\ cutEnd <= Len(buf)
      /\ buf \in Buffers /\ Len(buf) \in Nat
  BY SelectionRange DEF Safe, TypeOK, Buffers
<1>2. rest \in Buffers /\ Len(rest) = Len(buf) - (cutEnd - cutStart)
  BY <1>1, TakenOut DEF rest
<1> QED
  BY <1>1, <1>2

\* What is recorded is a state the editor was in, and no more are kept than
\* UNDO_DEPTH.
LEMMA RecordSafe ==
  ASSUME Safe, Record
  PROVE  /\ changes' \in 0 .. MaxChanges
         /\ undo' \in Seq(Snapshots)
         /\ Len(undo') <= UndoDepth
         /\ \A k \in DOMAIN undo' : undo'[k].cursor <= Len(undo'[k].buf)
<1> DEFINE kept == IF Len(undo) = UndoDepth THEN Tail(undo) ELSE undo
           now == [buf |-> buf, cursor |-> cursor]
<1>1. /\ undo \in Seq(Snapshots) /\ Len(undo) \in Nat /\ Len(undo) <= UndoDepth
      /\ \A k \in 1 .. Len(undo) : undo[k].cursor <= Len(undo[k].buf)
      /\ UndoDepth \in Nat \ {0}
  BY BoundsAssumption DEF Safe, TypeOK, Snapshots
<1>2. /\ kept \in Seq(Snapshots) /\ Len(kept) < UndoDepth
      /\ \A k \in 1 .. Len(kept) : kept[k].cursor <= Len(kept[k].buf)
  BY <1>1
<1>3. now \in Snapshots /\ now.cursor <= Len(now.buf)
  BY DEF Safe, TypeOK, Snapshots
<1>4. undo' = Append(kept, now)
  BY DEF Record
<1> HIDE DEF kept, now
<1>5. changes' \in 0 .. MaxChanges
  BY BoundsAssumption DEF Safe, TypeOK, Record
<1> QED
  BY <1>1, <1>2, <1>3, <1>4, <1>5

\* A change is safe if the buffer, the cursor and the marking it leaves are.
LEMMA ChangeSafe ==
  ASSUME Safe, Record,
         buf' \in Buffers, cursor' \in Nat, cursor' <= Len(buf'),
         anchor' \in Nat \cup {NoAnchor},
         fresh' \in Nat \X Nat, fresh'[1] <= fresh'[2], fresh'[2] <= Len(buf'),
         clipboard' \in Seq(Items)
  PROVE  Safe'
BY RecordSafe DEF Safe, TypeOK, Snapshots

LEMMA DeleteSelectionSafe ==
  ASSUME Safe, DeleteSelection, clipboard' \in Seq(Items)
  PROVE  Safe'
<1>1. buf' \in Buffers /\ cursor' \in Nat /\ cursor' <= Len(buf') /\ Len(buf') \in Nat
  BY RestIsABuffer DEF DeleteSelection, Buffers
<1>2. anchor' = NoAnchor /\ fresh' = <<0, 0>> /\ Record
  BY DEF DeleteSelection, None
<1> QED
  BY <1>1, <1>2, ChangeSafe

LEMMA InsertSafe ==
  ASSUME Safe, NEW items \in Seq(Items), Insert(items)
  PROVE  Safe'
<1> DEFINE at == IF selected THEN cutStart ELSE cursor
           old == IF selected THEN rest ELSE buf
           marked == IF selected THEN None ELSE fresh
           end == at + Len(items)
<1>1. /\ items # <<>> /\ Len(old) + Len(items) <= MaxLen /\ Record
      /\ buf' = SubSeq(old, 1, at) \o items \o SubSeq(old, at + 1, Len(old))
      /\ cursor' = end
      /\ anchor' = IF selected THEN NoAnchor ELSE anchor
      /\ fresh' = markFresh(marked, at, end)
      /\ clipboard' = clipboard
  BY DEF Insert
<1>2. old \in Buffers /\ at \in 0 .. Len(old)
  BY RestIsABuffer DEF Safe, TypeOK
<1>3. marked \in Nat \X Nat /\ marked[1] <= marked[2] /\ marked[2] <= Len(old)
  <2>1. CASE selected
    BY <1>2, <2>1 DEF None, Buffers
  <2>2. CASE ~selected
    BY <2>2 DEF Safe, TypeOK
  <2> QED
    BY <2>1, <2>2
<1> HIDE DEF old, at, marked
<1>4. buf' \in Buffers /\ Len(buf') = Len(old) + Len(items)
  BY <1>1, <1>2, PutIn
<1>5. Len(items) \in Nat /\ Len(old) \in Nat /\ at \in Nat /\ at <= Len(old)
  BY <1>2 DEF Buffers
<1>6. end \in Nat /\ at <= end /\ end <= Len(buf')
  BY <1>4, <1>5
<1>7. fresh' \in Nat \X Nat /\ fresh'[1] <= fresh'[2] /\ fresh'[2] <= Len(buf')
  <2>1. fresh' = markFresh(marked, at, end)
    BY <1>1
  <2>2. Len(old) <= Len(buf') /\ Len(buf') \in Nat
    BY <1>4, <1>5
  <2> HIDE DEF end
  <2> QED
    BY <1>3, <1>5, <1>6, <2>1, <2>2 DEF markFresh
<1>8. anchor' \in Nat \cup {NoAnchor} /\ clipboard' \in Seq(Items)
  BY <1>1 DEF Safe, TypeOK
<1>9. Record /\ cursor' \in Nat /\ cursor' <= Len(buf')
  BY <1>1, <1>6
<1> QED
  BY <1>4, <1>7, <1>8, <1>9, ChangeSafe

LEMMA RemoveOneSafe ==
  ASSUME Safe, RemoveOne
  PROVE  Safe'
<1>1. clipboard' \in Seq(Items)
  BY DEF Safe, TypeOK, RemoveOne
<1>2. CASE DeleteSelection
  BY <1>1, <1>2, DeleteSelectionSafe
<1>3. CASE ~DeleteSelection
  <2>1. PICK k \in removable : buf' = RemoveAt(buf, k) /\ cursor' = k - 1
    BY <1>3 DEF RemoveOne
  <2>2. fresh' = <<0, 0>> /\ anchor' = anchor /\ Record
    BY <1>3 DEF RemoveOne, None
  <2>3. k \in 1 .. Len(buf) /\ buf \in Buffers /\ Len(buf) \in Nat
    BY DEF removable, Safe, TypeOK, Buffers
  <2>4. k - 1 \in Nat /\ k \in Nat /\ k - 1 <= k /\ k <= Len(buf) /\ k - (k - 1) = 1
    BY <2>3
  <2>5. buf' \in Buffers /\ Len(buf') = Len(buf) - 1
    <3>1. buf' = SubSeq(buf, 1, k - 1) \o SubSeq(buf, k + 1, Len(buf))
      BY <2>1 DEF RemoveAt
    <3>2. buf' \in Buffers /\ Len(buf') = Len(buf) - (k - (k - 1))
      BY <2>3, <2>4, <3>1, TakenOut
    <3> QED
      BY <2>4, <3>2
  <2>6. anchor' \in Nat \cup {NoAnchor}
    BY <2>2 DEF Safe, TypeOK
  <2> QED
    BY <1>1, <2>1, <2>2, <2>3, <2>4, <2>5, <2>6, ChangeSafe
<1> QED
  BY <1>2, <1>3

LEMMA UndoSafe ==
  ASSUME Safe, Undo
  PROVE  Safe'
<1> DEFINE previous == undo[Len(undo)]
<1>1. undo \in Seq(Snapshots) /\ undo # <<>> /\ Len(undo) \in Nat \ {0} /\ Len(undo) <= UndoDepth
  BY DEF Safe, TypeOK, Undo, Snapshots
<1>2. previous \in Snapshots
  BY <1>1
<1>3. buf \in Seq(Items) /\ previous.buf \in Seq(Items) /\ previous.buf \in Buffers
  BY <1>2 DEF Safe, TypeOK, Buffers, Snapshots
<1>4. /\ buf' = previous.buf
      /\ cursor' = least(previous.cursor, Len(previous.buf))
      /\ fresh' = restoredRange(buf, previous.buf)
      /\ undo' = SubSeq(undo, 1, Len(undo) - 1)
      /\ anchor' = NoAnchor /\ clipboard' = clipboard /\ changes' = changes
  BY DEF Undo
<1>5. cursor' \in Nat /\ cursor' <= Len(buf')
  BY <1>2, <1>3, <1>4 DEF least, Snapshots
<1>6. fresh' \in Nat \X Nat /\ fresh'[1] <= fresh'[2] /\ fresh'[2] <= Len(buf')
  BY <1>3, <1>4, RestoredRange
<1> HIDE DEF previous
<1>7. /\ undo' \in Seq(Snapshots) /\ Len(undo') = Len(undo) - 1
      /\ \A k \in 1 .. Len(undo) - 1 : undo'[k] = undo[k]
  <2>1. undo' = SubSeq(undo, 1, Len(undo) - 1)
    BY <1>4
  <2>2. Len(undo) - 1 \in 0 .. Len(undo)
    BY <1>1
  <2>3. \A n \in 0 .. Len(undo) : SubSeq(undo, 1, n) \in Seq(Snapshots) /\ Len(SubSeq(undo, 1, n)) = n
    BY <1>1
  <2>4. \A n \in 0 .. Len(undo) : \A k \in 1 .. n : SubSeq(undo, 1, n)[k] = undo[k]
    BY <1>1
  <2> QED
    BY <2>1, <2>2, <2>3, <2>4
<1>8. Len(undo') <= UndoDepth /\ \A k \in DOMAIN undo' : undo'[k].cursor <= Len(undo'[k].buf)
  BY <1>1, <1>7, BoundsAssumption DEF Safe
<1> QED
  BY <1>3, <1>4, <1>5, <1>6, <1>7, <1>8 DEF Safe, TypeOK, Snapshots

\* Moving leaves the buffer and the history alone.
LEMMA MoveSafe ==
  ASSUME Safe, UNCHANGED <<buf, undo, clipboard, changes>>,
         cursor' \in 0 .. Len(buf), anchor' \in Nat \cup {NoAnchor}, fresh' \in {fresh, None}
  PROVE  Safe'
BY DEF Safe, TypeOK, None, Buffers

LEMMA StepSafe ==
  ASSUME Safe, NEW delta \in Int, NEW extend \in BOOLEAN, Step(delta, extend)
  PROVE  Safe'
<1>1. Len(buf) \in Nat /\ cursor \in Nat /\ anchor \in Nat \cup {NoAnchor}
  BY DEF Safe, TypeOK, Buffers
<1>2. ASSUME NEW i \in Int PROVE clampTo(i, Len(buf)) \in 0 .. Len(buf)
  BY <1>1 DEF clampTo, least
<1>3. ASSUME NEW i \in Int PROVE i * Unit \in Int
  BY UnitAssumption
<1> DEFINE snapped == least(IF delta >= 0 THEN roundDown(cursor) ELSE roundUp(cursor), Len(buf))
           base == IF anchor = NoAnchor THEN snapped ELSE cursor
<1>4. snapped \in Nat
  <2>1. roundDown(cursor) \in Nat /\ roundUp(cursor) \in Nat
    <3>1. cursor \in Nat
      BY <1>1
    <3>2. roundDown(cursor) \in 0 .. cursor /\ roundUp(cursor) \in Nat
      BY <3>1, Rounding
    <3> QED
      BY <3>1, <3>2
  <2> QED
    BY <1>1, <2>1 DEF least
<1> HIDE DEF snapped
<1>5. base + delta * Unit \in Int /\ cursor + delta \in Int
  BY <1>1, <1>3, <1>4, SMTT(30)
<1> HIDE DEF base
<1>6. CASE extend
  <2>1. /\ anchor' = IF anchor = NoAnchor THEN snapped ELSE anchor
        /\ cursor' = clampTo(base + delta * Unit, Len(buf))
        /\ fresh' = None
        /\ UNCHANGED <<buf, undo, clipboard, changes>>
    BY <1>6 DEF Step, snapped, base
  <2> QED
    BY <1>1, <1>2, <1>4, <1>5, <2>1, MoveSafe
<1>7. CASE ~extend
  <2>1. /\ anchor' = NoAnchor
        /\ cursor' = clampTo(cursor + delta, Len(buf))
        /\ fresh' = fresh
        /\ UNCHANGED <<buf, undo, clipboard, changes>>
    BY <1>7 DEF Step
  <2> QED
    BY <1>2, <1>5, <2>1, MoveSafe
<1> QED
  BY <1>6, <1>7

LEMMA SafeStep == Safe /\ [Next]_vars => Safe'
<1> SUFFICES ASSUME Safe, [Next]_vars PROVE Safe'
  OBVIOUS
<1>0. /\ Len(buf) \in Nat /\ cursor \in Nat /\ anchor \in Nat \cup {NoAnchor}
      /\ cursor <= Len(buf) /\ clipboard \in Seq(Items)
  BY DEF Safe, TypeOK, Buffers
<1>1. CASE UNCHANGED vars
  BY <1>1 DEF vars, Safe, TypeOK
<1>2. CASE MoveHorizontal
  BY <1>2, StepSafe DEF MoveHorizontal
<1>3. CASE MoveVertical
  <2>1. PICK d \in {-1, 1}, extend \in BOOLEAN :
          Step(IF extend THEN d * Row ELSE d * Row * Unit, extend)
    BY <1>3 DEF MoveVertical
  <2>2. d * Row \in Int /\ d * Row * Unit \in Int
    BY UnitAssumption
  <2> QED
    BY <2>1, <2>2, StepSafe
<1>4. CASE Jump
  BY <1>0, <1>4, MoveSafe DEF Jump
<1>5. CASE SelectAll
  BY <1>0, <1>5, MoveSafe DEF SelectAll
<1>6. CASE InsertChar
  <2>1. PICK c \in Typed : Insert(<<c>>)
    BY <1>6 DEF InsertChar
  <2>2. <<c>> \in Seq(Items)
    BY DEF Items
  <2> QED
    BY <2>1, <2>2, InsertSafe
<1>7. CASE Paste
  BY <1>0, <1>7, TakenType, InsertSafe DEF Paste
<1>8. CASE RemoveOne
  BY <1>8, RemoveOneSafe
<1>9. CASE Undo
  BY <1>9, UndoSafe
<1>10. selectedText \in Seq(Items)
  BY SelectionRange DEF selectedText, Safe, TypeOK, Buffers
<1>11. CASE Copy
  BY <1>10, <1>11 DEF Copy, Safe, TypeOK
<1>12. CASE Cut
  BY <1>10, <1>12, DeleteSelectionSafe DEF Cut
<1>13. CASE OtherProgramCopies
  BY <1>13, PastesAssumption DEF OtherProgramCopies, Safe, TypeOK
<1> QED
  BY <1>1, <1>2, <1>3, <1>4, <1>5, <1>6, <1>7, <1>8, <1>9, <1>11, <1>12, <1>13 DEF Next

LEMMA SafeInit == Init => Safe
BY InitialAssumption, BoundsAssumption DEF Init, Safe, TypeOK, None, Buffers

\* No reachable state of an editor has an index outside its buffer: slices,
\* drains and inserts are in range, whatever was typed, pasted, cut or undone.
THEOREM IndicesInBounds == Spec => []RangesInBounds
BY SafeInit, SafeStep, SafeMeansInBounds, PTL DEF Spec

\* The editor's variables have their types in every reachable state; the
\* cursor and the history's positions never go below zero.
THEOREM TypeCorrect == Spec => []TypeOK
<1>1. Safe => TypeOK
  BY DEF Safe
<1> QED
  BY <1>1, SafeInit, SafeStep, PTL DEF Spec

(***************************************************************************)
(* The editor implements UndoLog.                                          *)
(***************************************************************************)
valuesOf(u, b) == Append([k \in DOMAIN u |-> u[k].buf], b)

LEMMA ValuesOf ==
  ASSUME NEW u \in Seq(Snapshots), NEW b \in Buffers
  PROVE  /\ valuesOf(u, b) \in Seq(Buffers)
         /\ Len(valuesOf(u, b)) = Len(u) + 1
         /\ \A k \in 1 .. Len(u) : valuesOf(u, b)[k] = u[k].buf
         /\ valuesOf(u, b)[Len(u) + 1] = b
<1> DEFINE bufs == [k \in DOMAIN u |-> u[k].buf]
<1>1. \A k \in 1 .. Len(u) : u[k].buf \in Buffers
  <2> TAKE k \in 1 .. Len(u)
  <2>1. u[k] \in Snapshots
    BY ElementOfSeq
  <2> QED
    BY <2>1 DEF Snapshots
<1>2. bufs \in Seq(Buffers) /\ Len(bufs) = Len(u) /\ \A k \in 1 .. Len(u) : bufs[k] = u[k].buf
  BY <1>1
<1>3. valuesOf(u, b) = Append(bufs, b)
  BY DEF valuesOf
<1> HIDE DEF bufs
<1> QED
  BY <1>2, <1>3

LEMMA AppendIs ==
  ASSUME NEW S, NEW s \in Seq(S), NEW e \in S, NEW t \in Seq(S),
         Len(t) = Len(s) + 1, \A k \in 1 .. Len(s) : t[k] = s[k], t[Len(s) + 1] = e
  PROVE  t = Append(s, e)
<1> DEFINE r == Append(s, e)
<1>1. r \in Seq(S) /\ Len(r) = Len(s) + 1 /\ r[Len(s) + 1] = e
        /\ \A k \in 1 .. Len(s) : r[k] = s[k]
  OBVIOUS
<1>2. Len(s) \in Nat
  OBVIOUS
<1> HIDE DEF r
<1>3. \A k \in 1 .. Len(t) : t[k] = r[k]
  BY <1>1, <1>2
<1>4. t = r
  BY <1>1, <1>3, SeqEqual
<1> QED
  BY <1>4 DEF r

\* Recording a change appends to the log, and forgets the oldest value when
\* the log is full.
LEMMA RecordAppends ==
  ASSUME NEW u \in Seq(Snapshots), NEW b \in Buffers, NEW c \in Nat, NEW b2 \in Buffers,
         NEW depth \in Nat \ {0}, Len(u) <= depth
  PROVE  valuesOf(Append(IF Len(u) = depth THEN Tail(u) ELSE u, [buf |-> b, cursor |-> c]), b2)
           = Append(IF Len(valuesOf(u, b)) > depth THEN Tail(valuesOf(u, b)) ELSE valuesOf(u, b), b2)
<1> DEFINE v == valuesOf(u, b)
           now == [buf |-> b, cursor |-> c]
           kept == IF Len(u) = depth THEN Tail(u) ELSE u
           older == IF Len(v) > depth THEN Tail(v) ELSE v
           w == valuesOf(Append(kept, now), b2)
<1>1. /\ v \in Seq(Buffers) /\ Len(v) = Len(u) + 1
      /\ \A k \in 1 .. Len(u) : v[k] = u[k].buf
      /\ v[Len(u) + 1] = b
  BY ValuesOf
<1>2. now \in Snapshots /\ now.buf = b
  BY DEF Snapshots
<1> HIDE DEF v, now
<1>3. kept \in Seq(Snapshots) /\ Len(kept) \in Nat
  BY <1>1
<1>4. Append(kept, now) \in Seq(Snapshots) /\ Len(Append(kept, now)) = Len(kept) + 1
        /\ (\A k \in 1 .. Len(kept) : Append(kept, now)[k] = kept[k])
        /\ Append(kept, now)[Len(kept) + 1] = now
  BY <1>2, <1>3
<1>5. /\ w \in Seq(Buffers) /\ Len(w) = Len(kept) + 2
      /\ \A k \in 1 .. Len(kept) + 1 : w[k] = Append(kept, now)[k].buf
      /\ w[Len(kept) + 2] = b2
  <2> DEFINE log == Append(kept, now)
  <2>1. /\ log \in Seq(Snapshots) /\ Len(log) = Len(kept) + 1 /\ w = valuesOf(log, b2)
    BY <1>4
  <2> HIDE DEF w, kept, log
  <2>2. /\ w \in Seq(Buffers) /\ Len(w) = Len(log) + 1
        /\ \A k \in 1 .. Len(log) : w[k] = log[k].buf
        /\ w[Len(log) + 1] = b2
    BY <2>1, ValuesOf
  <2>3. Len(log) + 1 = Len(kept) + 2
    BY <1>3, <2>1
  <2>4. \A k \in 1 .. Len(kept) + 1 : w[k] = log[k].buf
    BY <2>1, <2>2
  <2> QED
    BY <2>2, <2>3, <2>4 DEF log
<1> HIDE DEF w
<1>6. w = Append(older, b2)
  <2>1. CASE Len(u) = depth
    <3>1. kept = Tail(u) /\ older = Tail(v) /\ Len(kept) = Len(u) - 1 /\ Len(u) \in Nat \ {0}
      BY <1>1, <2>1
    <3>2. \A k \in 1 .. Len(kept) : kept[k] = u[k + 1] /\ older[k] = v[k + 1]
      BY <1>1, <3>1
    <3>3. older \in Seq(Buffers) /\ Len(older) = Len(u) /\ older[Len(u)] = b
      BY <1>1, <3>1
    <3>4. \A k \in 1 .. Len(u) : w[k] = older[k]
      <4> TAKE k \in 1 .. Len(u)
      <4>1. CASE k = Len(u)
        BY <1>2, <1>4, <1>5, <3>1, <3>3, <4>1
      <4>2. CASE k # Len(u)
        <5>1. k \in 1 .. Len(kept) /\ k + 1 \in 1 .. Len(u)
          BY <3>1, <4>2
        <5>2. w[k] = kept[k].buf
          BY <1>3, <1>4, <1>5, <5>1
        <5>3. older[k] = u[k + 1].buf
          BY <1>1, <3>2, <5>1
        <5> QED
          BY <3>2, <5>1, <5>2, <5>3
      <4> QED
        BY <4>1, <4>2
    <3>5. Len(kept) + 2 = Len(u) + 1
      BY <3>1
    <3> HIDE DEF kept, older
    <3>6. w \in Seq(Buffers) /\ Len(w) = Len(u) + 1 /\ w[Len(u) + 1] = b2
      BY <1>5, <3>5
    <3> QED
      BY <3>3, <3>4, <3>6, AppendIs
  <2>2. CASE Len(u) # depth
    <3>1. kept = u /\ older = v /\ Len(u) \in Nat
      BY <1>1, <2>2
    <3>2. \A k \in 1 .. Len(u) + 1 : w[k] = v[k]
      BY <1>1, <1>2, <1>4, <1>5, <3>1
    <3>3. w \in Seq(Buffers) /\ Len(w) = Len(v) + 1 /\ w[Len(v) + 1] = b2
      BY <1>1, <1>5, <3>1
    <3> HIDE DEF kept, older
    <3> QED
      BY <1>1, <3>1, <3>2, <3>3, AppendIs
  <2> QED
    BY <2>1, <2>2
<1> QED
  BY <1>6 DEF w, v, now

\* Undoing returns the log to what it was.
LEMMA UndoTruncates ==
  ASSUME NEW u \in Seq(Snapshots), NEW b \in Buffers, u # <<>>
  PROVE  valuesOf(SubSeq(u, 1, Len(u) - 1), u[Len(u)].buf) = SubSeq(valuesOf(u, b), 1, Len(u))
<1> DEFINE n == Len(u) - 1
           u2 == SubSeq(u, 1, n)
           b2 == u[Len(u)].buf
           v == valuesOf(u, b)
           w == valuesOf(u2, b2)
<1>1. n \in Nat /\ Len(u) = n + 1 /\ b2 \in Buffers
  <2>1. Len(u) \in Nat \ {0}
    BY EmptySeq
  <2>2. u[Len(u)] \in Snapshots
    BY <2>1, ElementOfSeq
  <2> QED
    BY <2>1, <2>2 DEF Snapshots
<1>2. u2 \in Seq(Snapshots) /\ Len(u2) = n /\ \A k \in 1 .. n : u2[k] = u[k]
  BY <1>1
<1>3. /\ v \in Seq(Buffers) /\ Len(v) = n + 2
      /\ \A k \in 1 .. n + 1 : v[k] = u[k].buf
  BY <1>1, ValuesOf
<1> HIDE DEF u2, v
<1>4. /\ w \in Seq(Buffers) /\ Len(w) = n + 1
      /\ \A k \in 1 .. n : w[k] = u2[k].buf
      /\ w[n + 1] = b2
  <2>1. b2 \in Buffers
    BY <1>1
  <2> HIDE DEF b2, n
  <2>2. /\ w \in Seq(Buffers) /\ Len(w) = Len(u2) + 1
        /\ \A k \in 1 .. Len(u2) : w[k] = u2[k].buf
        /\ w[Len(u2) + 1] = b2
    BY <1>2, <2>1, ValuesOf
  <2> QED
    BY <1>2, <2>2
<1> HIDE DEF w, n
<1>5. /\ SubSeq(v, 1, n + 1) \in Seq(Buffers) /\ Len(SubSeq(v, 1, n + 1)) = n + 1
      /\ \A k \in 1 .. n + 1 : SubSeq(v, 1, n + 1)[k] = v[k]
  BY <1>1, <1>3
<1>6. \A k \in 1 .. n + 1 : w[k] = SubSeq(v, 1, n + 1)[k]
  BY <1>1, <1>2, <1>3, <1>4, <1>5
<1>7. w = SubSeq(v, 1, n + 1)
  BY <1>4, <1>5, <1>6, SeqEqual
<1> QED
  BY <1>1, <1>7 DEF w, u2, v, n

LEMMA ChangeIsLogged ==
  ASSUME Safe, Safe', Record
  PROVE  Log!Change
<1>1. /\ undo \in Seq(Snapshots) /\ Len(undo) <= UndoDepth /\ UndoDepth \in Nat \ {0}
      /\ buf \in Buffers /\ buf' \in Buffers /\ cursor \in Nat
  BY BoundsAssumption DEF Safe, TypeOK, Snapshots
<1>2. values = valuesOf(undo, buf) /\ values' = valuesOf(undo', buf')
  BY DEF values, valuesOf
<1>3. values' = Append(IF Len(values) > UndoDepth THEN Tail(values) ELSE values, buf')
  BY <1>1, <1>2, RecordAppends, ZenonT(30) DEF Record
<1>4. undo' \in Seq(Snapshots)
  BY DEF Safe, TypeOK, Snapshots
<1>5. values'[Len(values')] = buf'
  BY <1>1, <1>2, <1>4, ValuesOf
<1> QED
  BY <1>1, <1>3, <1>5 DEF Log!Change, Log!newest

\* Whatever is typed, pasted, cut, deleted and undone, in whichever order, the
\* editor's undo keeps exactly the log of values that UndoLog describes.
THEOREM UndoIsALog == Spec => UndoWalksBack
<1>1. Init => Log!Init
  <2> SUFFICES ASSUME Init PROVE Log!Init
    OBVIOUS
  <2>1. undo \in Seq(Snapshots) /\ Len(undo) = 0 /\ buf \in Buffers
    BY InitialAssumption DEF Init, Buffers
  <2>2. values = valuesOf(undo, buf)
    BY DEF values, valuesOf
  <2>3. Len(values) = Len(undo) + 1 /\ values[Len(undo) + 1] = buf
    BY <2>1, <2>2, ValuesOf
  <2>4. Len(values) = 1 /\ values[1] = buf
    BY <2>1, <2>3
  <2> QED
    BY <2>1, <2>4 DEF Log!Init, Log!newest
<1>2. Safe /\ Safe' /\ [Next]_vars => [Log!Next]_values
  <2> SUFFICES ASSUME Safe, Safe', [Next]_vars PROVE [Log!Next]_values
    OBVIOUS
  <2>1. CASE UNCHANGED <<buf, undo>>
    BY <2>1 DEF values
  <2>2. CASE Record
    BY <2>2, ChangeIsLogged DEF Log!Next
  <2>3. CASE Undo
    <3>0. undo \in Seq(Snapshots) /\ buf \in Buffers /\ undo # <<>>
      BY <2>3 DEF Undo, Safe, TypeOK, Snapshots
    <3>1. undo \in Seq(Snapshots) /\ buf \in Buffers /\ undo # <<>> /\ Len(undo) \in Nat \ {0}
      BY <3>0, EmptySeq
    <3>2. values = valuesOf(undo, buf) /\ values' = valuesOf(undo', buf')
      BY DEF values, valuesOf
    <3>3. undo' = SubSeq(undo, 1, Len(undo) - 1) /\ buf' = undo[Len(undo)].buf
      BY <2>3 DEF Undo
    <3>4. values' = SubSeq(values, 1, Len(undo))
      BY <3>1, <3>2, <3>3, UndoTruncates
    <3>5. Len(values) = Len(undo) + 1
      BY <3>1, <3>2, ValuesOf
    <3>6. Len(values) > 1 /\ Len(values) - 1 = Len(undo)
      BY <3>1, <3>5
    <3> QED
      BY <3>4, <3>6 DEF Log!Next, Log!Undo
  <2> QED
    BY <2>1, <2>2, <2>3
    DEF Next, vars, MoveHorizontal, MoveVertical, Step, Jump, SelectAll, InsertChar, Paste, Insert,
        RemoveOne, DeleteSelection, Copy, Cut, OtherProgramCopies
<1> QED
  BY <1>1, <1>2, SafeInit, SafeStep, PTL DEF Spec, UndoWalksBack, Log!Spec

(***************************************************************************)
(* Cut and paste.                                                          *)
(***************************************************************************)
LEMMA CutAndPaste ==
  ASSUME NEW S, NEW s \in Seq(S), NEW i \in 0 .. Len(s), NEW j \in i .. Len(s)
  PROVE  LET t == SubSeq(s, 1, i) \o SubSeq(s, j + 1, Len(s))
         IN s = SubSeq(t, 1, i) \o SubSeq(s, i + 1, j) \o SubSeq(t, i + 1, Len(t))
<1> DEFINE front == SubSeq(s, 1, i)
           mid == SubSeq(s, i + 1, j)
           back == SubSeq(s, j + 1, Len(s))
           t == front \o back
           head == SubSeq(t, 1, i)
           tail == SubSeq(t, i + 1, Len(t))
           glued == head \o mid
           u == glued \o tail
<1>1. Len(s) \in Nat /\ i \in Nat /\ j \in Nat /\ i <= j /\ j <= Len(s)
  OBVIOUS
<1>2. front \in Seq(S) /\ Len(front) = i /\ \A k \in 1 .. i : front[k] = s[k]
  BY <1>1
<1>3. mid \in Seq(S) /\ Len(mid) = j - i /\ \A k \in 1 .. j - i : mid[k] = s[i + k]
  BY <1>1
<1>4. back \in Seq(S) /\ Len(back) = Len(s) - j /\ \A k \in 1 .. Len(s) - j : back[k] = s[j + k]
  BY <1>1
<1> HIDE DEF front, mid, back
<1>5. t \in Seq(S) /\ Len(t) = i + (Len(s) - j)
        /\ (\A k \in 1 .. i : t[k] = front[k])
        /\ \A k \in 1 .. Len(s) - j : t[i + k] = back[k]
  <2>0. t \in Seq(S) /\ Len(t) = Len(front) + Len(back)
    BY <1>2, <1>4, ConcatProperties
  <2>1. t \in Seq(S) /\ Len(t) = i + (Len(s) - j)
    <3> HIDE DEF t
    <3> QED
      BY <1>2, <1>4, <2>0
  <2>2. \A k \in 1 .. i : t[k] = front[k]
    BY <1>1, <1>2, <1>4
  <2>3. ASSUME NEW k \in 1 .. Len(s) - j PROVE t[i + k] = back[k]
    <3> DEFINE m == i + k
    <3>1. m \in Len(front) + 1 .. Len(front) + Len(back) /\ m - Len(front) = k
      BY <1>1, <1>2, <1>4
    <3> HIDE DEF m
    <3>2. t[m] = back[m - Len(front)]
      BY <1>2, <1>4, <3>1
    <3> QED
      BY <3>1, <3>2 DEF m
  <2> QED
    BY <2>1, <2>2, <2>3
<1> HIDE DEF t
<1>6. head \in Seq(S) /\ Len(head) = i /\ \A k \in 1 .. i : head[k] = t[k]
  BY <1>1, <1>5
<1>7. tail \in Seq(S) /\ Len(tail) = Len(s) - j /\ \A k \in 1 .. Len(s) - j : tail[k] = t[i + k]
  BY <1>1, <1>5
<1> HIDE DEF head, tail
<1>8. glued \in Seq(S) /\ Len(glued) = j
        /\ \A k \in 1 .. j : glued[k] = IF k <= i THEN head[k] ELSE mid[k - i]
  BY <1>1, <1>3, <1>6
<1> HIDE DEF glued
<1>9. u \in Seq(S) /\ Len(u) = Len(s)
        /\ \A k \in 1 .. Len(s) : u[k] = IF k <= j THEN glued[k] ELSE tail[k - j]
  BY <1>1, <1>7, <1>8
<1> HIDE DEF u
<1>10. \A k \in 1 .. Len(s) : u[k] = s[k]
  <2> TAKE k \in 1 .. Len(s)
  <2>1. CASE k <= i
    BY <1>1, <1>2, <1>5, <1>6, <1>8, <1>9, <2>1
  <2>2. CASE i < k /\ k <= j
    <3>1. k - i \in 1 .. j - i /\ i + (k - i) = k
      BY <1>1, <2>2
    <3>2. u[k] = mid[k - i]
      BY <1>1, <1>8, <1>9, <2>2
    <3> QED
      BY <1>3, <3>1, <3>2
  <2>3. CASE j < k
    <3>1. k - j \in 1 .. Len(s) - j /\ j + (k - j) = k
      BY <1>1, <2>3
    <3>2. u[k] = tail[k - j]
      BY <1>1, <1>9, <2>3
    <3> QED
      BY <1>4, <1>5, <1>7, <3>1, <3>2
  <2> QED
    BY <1>1, <2>1, <2>2, <2>3
<1>11. s = u
  BY <1>9, <1>10, SeqEqual
<1> QED
  BY <1>11 DEF u, glued, head, tail, t, front, mid, back

\* Whatever is selected, and in whichever unit, pasting right after a cut gives
\* back the buffer, if what was cut is pasted whole.
THEOREM CutLosesNothing == Spec => CutCanBePastedBack
<1>1. Safe /\ [Next]_vars =>
        [Cut /\ pastedWhole(clipboard') =>
           buf = SubSeq(buf', 1, cursor') \o taken(clipboard') \o SubSeq(buf', cursor' + 1, Len(buf'))]_vars
  <2> SUFFICES ASSUME Safe, Cut, pastedWhole(clipboard')
               PROVE  buf = SubSeq(buf', 1, cursor') \o taken(clipboard') \o SubSeq(buf', cursor' + 1, Len(buf'))
    OBVIOUS
  <2>1. buf \in Seq(Items) /\ cutStart \in 0 .. Len(buf) /\ cutEnd \in cutStart .. Len(buf)
    BY SelectionRange DEF Safe, TypeOK, Buffers
  <2>2. /\ clipboard' = SubSeq(buf, cutStart + 1, cutEnd)
        /\ buf' = SubSeq(buf, 1, cutStart) \o SubSeq(buf, cutEnd + 1, Len(buf))
        /\ cursor' = cutStart
    BY DEF Cut, DeleteSelection, selectedText, rest
  <2>3. clipboard' \in Seq(Items)
    BY <2>1, <2>2
  <2>4. taken(clipboard') = clipboard'
    BY <2>3, TakenWhole
  <2>5. buf = SubSeq(buf', 1, cursor') \o clipboard' \o SubSeq(buf', cursor' + 1, Len(buf'))
    BY <2>1, <2>2, CutAndPaste
  <2> QED
    BY <2>4, <2>5
<1> QED
  BY <1>1, SafeInit, SafeStep, PTL DEF Spec, CutCanBePastedBack

(***************************************************************************)
(* What an undo marks.                                                     *)
(***************************************************************************)
LEMMA RestoredIsTheDifference ==
  ASSUME NEW S, NEW s \in Seq(S), NEW t \in Seq(S), Len(t) > Len(s),
         NEW from \in Nat, NEW to \in Nat, restoredRange(s, t) = <<from, to>>
  PROVE  /\ from + (Len(t) - to) <= Len(s)
         /\ SubSeq(t, 1, from) = SubSeq(s, 1, from)
         /\ SubSeq(t, to + 1, Len(t)) = SubSeq(s, Len(s) - (Len(t) - to) + 1, Len(s))
<1> DEFINE h == sharedHead(s, t)
           b == sharedTail(s, t, h)
<1>1. h \in 0 .. Len(s) /\ \A i \in 1 .. h : s[i] = t[i]
  BY SharedHead
<1>2. b \in 0 .. Len(s) - h /\ \A i \in Len(s) - b + 1 .. Len(s) : s[i] = t[i + (Len(t) - Len(s))]
  BY <1>1, SharedTail
<1>3. restoredRange(s, t) = <<h, Len(t) - b>>
  BY DEF restoredRange
<1> HIDE DEF h, b
<1>4. /\ Len(s) \in Nat /\ Len(t) \in Nat /\ h \in Nat /\ b \in Nat
      /\ h + b <= Len(s) /\ Len(s) < Len(t)
      /\ from = h /\ to = Len(t) - b /\ Len(t) - to = b
  BY <1>1, <1>2, <1>3
<1>5. SubSeq(t, 1, h) = SubSeq(s, 1, h)
  <2> DEFINE x == SubSeq(t, 1, h)
             y == SubSeq(s, 1, h)
  <2>1. /\ x \in Seq(S) /\ y \in Seq(S) /\ Len(x) = h /\ Len(y) = h
        /\ \A i \in 1 .. h : x[i] = t[i] /\ y[i] = s[i]
    BY <1>4
  <2> HIDE DEF x, y
  <2>2. x = y
    BY <1>1, <2>1, SeqEqual
  <2> QED
    BY <2>2 DEF x, y
<1>6. SubSeq(t, to + 1, Len(t)) = SubSeq(s, Len(s) - b + 1, Len(s))
  <2> DEFINE m == Len(s) - b
             x == SubSeq(t, to + 1, Len(t))
             y == SubSeq(s, m + 1, Len(s))
  <2>1. to \in Nat /\ m \in Nat /\ to <= Len(t) /\ m <= Len(s)
    BY <1>4
  <2>2. x \in Seq(S) /\ Len(x) = b /\ \A i \in 1 .. b : x[i] = t[to + i]
    BY <1>4, <2>1, SMTT(30)
  <2>3. m \in Nat /\ Len(s) - m = b
    BY <1>4
  <2> HIDE DEF m, x
  <2>4. y \in Seq(S) /\ Len(y) = b /\ \A i \in 1 .. b : y[i] = s[m + i]
    BY <1>4, <2>1, <2>3
  <2> HIDE DEF y
  <2>5. ASSUME NEW i \in 1 .. b PROVE x[i] = y[i]
    <3> DEFINE k == m + i
    <3>1. k \in Len(s) - b + 1 .. Len(s) /\ k + (Len(t) - Len(s)) = to + i
      BY <1>4, <2>3 DEF m
    <3>2. s[k] = t[to + i]
      BY <1>2, <3>1
    <3> QED
      BY <2>2, <2>4, <3>2
  <2>6. x = y
    BY <2>2, <2>4, <2>5, SeqEqual
  <2> QED
    BY <2>6 DEF x, y, m
<1> QED
  BY <1>4, <1>5, <1>6

\* An undo that lengthens the buffer marks everything it brought back: what
\* lies outside the marked range was in the buffer that was undone.
THEOREM UndoMarksNoLess == Spec => UndoMarksTheRestored
<1>1. Safe /\ Safe' /\ [Next]_vars =>
        [Undo /\ Len(buf') > Len(buf) =>
           LET from == fresh'[1]
               to == fresh'[2]
               back == Len(buf') - to
           IN /\ from + back <= Len(buf)
              /\ SubSeq(buf', 1, from) = SubSeq(buf, 1, from)
              /\ SubSeq(buf', to + 1, Len(buf')) = SubSeq(buf, Len(buf) - back + 1, Len(buf))]_vars
  <2> SUFFICES ASSUME Safe, Safe', Undo, Len(buf') > Len(buf)
               PROVE  LET from == fresh'[1]
                          to == fresh'[2]
                          back == Len(buf') - to
                      IN /\ from + back <= Len(buf)
                         /\ SubSeq(buf', 1, from) = SubSeq(buf, 1, from)
                         /\ SubSeq(buf', to + 1, Len(buf'))
                              = SubSeq(buf, Len(buf) - back + 1, Len(buf))
    OBVIOUS
  <2>1. buf \in Seq(Items) /\ buf' \in Seq(Items)
    BY DEF Safe, TypeOK, Buffers
  <2>2. restoredRange(buf, buf') = <<fresh'[1], fresh'[2]>>
    <3>1. fresh' = restoredRange(buf, buf') /\ fresh' \in Nat \X Nat
      BY DEF Undo, Safe, TypeOK
    <3> QED
      BY <3>1
  <2> DEFINE from == fresh'[1]
             to == fresh'[2]
  <2> HIDE DEF from, to
  <2>3. restoredRange(buf, buf') = <<from, to>> /\ from \in Nat /\ to \in Nat
    BY <2>2 DEF from, to, Safe, TypeOK
  <2>4. /\ from + (Len(buf') - to) <= Len(buf)
        /\ SubSeq(buf', 1, from) = SubSeq(buf, 1, from)
        /\ SubSeq(buf', to + 1, Len(buf')) = SubSeq(buf, Len(buf) - (Len(buf') - to) + 1, Len(buf))
    <3>1. Len(buf') > Len(buf)
      OBVIOUS
    <3> QED
      BY ONLY <2>1, <2>3, <3>1, RestoredIsTheDifference
  <2> QED
    BY <2>4 DEF from, to
<1> QED
  BY <1>1, SafeInit, SafeStep, PTL DEF Spec, UndoMarksTheRestored
=============================================================================
