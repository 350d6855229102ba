---------------------------- MODULE RevealProofs ----------------------------
(***************************************************************************)
(* Proofs about module Reveal, for every directory of containers and every *)
(* set of edits of the serialized documents.                               *)
(***************************************************************************)
EXTENDS Reveal, Integers, FiniteSetTheorems, WellFoundedInduction,
        SequenceTheorems, TLAPS

-----------------------------------------------------------------------------
(* Sets of positions, and what lies at them in their order.  The least     *)
(* number takes the place of an induction.                                 *)
(* Every nonempty set of naturals has a least element.                     *)
LEMMA LeastNatural ==
  ASSUME NEW S \in SUBSET Nat, S # {}
  PROVE  \E m \in S : \A n \in S : m <= n
<1> DEFINE R == OpToRel(<, Nat)
<1>1. IsWellFoundedOn(R, Nat)
  BY NatLessThanWellFounded
<1>2. R = {ss \in Nat \X Nat : ss[1] < ss[2]}
  BY DEF OpToRel
<1> HIDE DEF R
<1>3. PICK m \in S : \A y \in S : ~(<<y, m>> \in R)
  BY <1>1, WFMin
<1>4. \A y \in S : ~(y < m)
  BY <1>2, <1>3
<1> QED
  BY <1>4

(* The positions of a sequence are finitely many naturals.                 *)
LEMMA PositionsAreFinite ==
  ASSUME NEW n \in Nat, NEW I \in SUBSET (1 .. n)
  PROVE  IsFiniteSet(I) /\ I \in SUBSET Nat /\ Cardinality(I) \in Nat
<1>1. IsFiniteSet(1 .. n)
  <2>1. n \in Int
    OBVIOUS
  <2> QED
    BY <2>1, FS_Interval
<1>2. IsFiniteSet(I)
  BY <1>1, FS_Subset
<1> QED
  BY <1>2, FS_CardinalityType

(* How many positions there are up to one of them.                         *)
LEMMA CountToType ==
  ASSUME NEW I \in SUBSET Nat, IsFiniteSet(I), NEW i \in Int
  PROVE  countTo(I, i) \in Nat /\ countTo(I, i) <= Cardinality(I) /\ Cardinality(I) \in Nat
<1>1. {j \in I : j <= i} \in SUBSET I
  OBVIOUS
<1> QED
  BY <1>1, FS_Subset, FS_CardinalityType DEF countTo

LEMMA CountToGrows ==
  ASSUME NEW I \in SUBSET Nat, IsFiniteSet(I), NEW i \in Nat
  PROVE  countTo(I, i) = countTo(I, i - 1) + IF i \in I THEN 1 ELSE 0
<1> DEFINE low == {j \in I : j <= i - 1}
<1>1. IsFiniteSet(low)
  BY FS_Subset
<1>0. \A j \in I : j \in Nat /\ (j <= i <=> j <= i - 1 \/ j = i)
  OBVIOUS
<1>2. CASE i \in I
  <2>0. ~(i <= i - 1)
    OBVIOUS
  <2>3. i \notin low
    BY <2>0
  <2>1. {j \in I : j <= i} = low \cup {i}
    BY <1>0, <1>2, Zenon
  <2> QED
    BY <1>1, <1>2, <2>1, <2>3, FS_AddElement, CountToType DEF countTo
<1>3. CASE i \notin I
  <2>1. {j \in I : j <= i} = low
    BY <1>0, <1>3
  <2>2. Cardinality(low) \in Nat
    BY <1>1, FS_CardinalityType
  <2> QED
    BY <1>3, <2>1, <2>2 DEF countTo
<1> QED
  BY <1>2, <1>3

(* There is a k-th position, and it is one only.                           *)
LEMMA NthExists ==
  ASSUME NEW n \in Nat, NEW I \in SUBSET (1 .. n), NEW k \in 1 .. Cardinality(I)
  PROVE  nth(I, k) \in I /\ countTo(I, nth(I, k)) = k
<1>1. IsFiniteSet(I) /\ I \in SUBSET Nat /\ Cardinality(I) \in Nat
  BY PositionsAreFinite
<1>2. Cardinality(I) \in Nat /\ k \in Nat /\ k > 0
  BY <1>1, FS_CardinalityType
<1> DEFINE D == {m \in 0 .. n : countTo(I, m) >= k}
<1>3. n \in D
  <2>0. \A j \in I : j <= n
    OBVIOUS
  <2>1. {j \in I : j <= n} = I
    BY <2>0
  <2> QED
    BY <1>2, <2>1 DEF countTo
<1>4. PICK m \in D : \A l \in D : m <= l
  <2>1. D \in SUBSET Nat /\ D # {}
    BY <1>3
  <2> HIDE DEF D
  <2> QED
    BY <2>1, LeastNatural
<1>5. m # 0
  <2>0. \A j \in I : ~(j <= 0)
    OBVIOUS
  <2>1. {j \in I : j <= 0} = {}
    BY <2>0
  <2>2. countTo(I, 0) = 0
    BY <2>1, FS_EmptySet DEF countTo
  <2> QED
    BY <1>2, <1>4, <2>2
<1>6. m - 1 \in 0 .. n /\ ~(countTo(I, m - 1) >= k)
  BY <1>4, <1>5
<1>7. countTo(I, m) = countTo(I, m - 1) + IF m \in I THEN 1 ELSE 0
  BY <1>1, <1>4, CountToGrows
<1>8. countTo(I, m) \in Nat /\ countTo(I, m - 1) \in Nat
  BY <1>1, <1>4, CountToType
<1>9. m \in I /\ countTo(I, m) = k
  BY <1>2, <1>4, <1>6, <1>7, <1>8
<1> QED
  BY <1>9 DEF nth

(* The positions in their order are as many as there are, and each is one. *)
LEMMA InOrderIs ==
  ASSUME NEW n \in Nat, NEW I \in SUBSET (1 .. n)
  PROVE  /\ Cardinality(I) \in Nat
         /\ DOMAIN inOrder(I) = 1 .. Cardinality(I)
         /\ \A k \in DOMAIN inOrder(I) : inOrder(I)[k] \in I
<1>1. \A k \in 1 .. Cardinality(I) : nth(I, k) \in I
  BY NthExists
<1> QED
  BY <1>1, PositionsAreFinite DEF inOrder

-----------------------------------------------------------------------------

(***************************************************************************)
(* Containers and their regions.                                           *)
(***************************************************************************)
LEMMA RegionsAre ==
  ASSUME NEW doc \in Container
  PROVE  /\ doc.regions \in Seq(Region)
         /\ Len(doc.regions) \in Nat
         /\ DOMAIN doc.regions = 1 .. Len(doc.regions)
         /\ \A i \in DOMAIN doc.regions : doc.regions[i] \in Region
         /\ doc.regions # <<>> => 1 \in DOMAIN doc.regions
<1>1. doc.regions \in Seq(Region)
  BY DEF Container
<1> QED
  BY <1>1, LenProperties

LEMMA Pbes2AtIs ==
  ASSUME NEW doc \in Container
  PROVE  /\ pbes2At(doc) \in SUBSET (1 .. Len(doc.regions))
         /\ IsFiniteSet(pbes2At(doc))
         /\ Cardinality(pbes2At(doc)) \in Nat
<1>1. pbes2At(doc) \in SUBSET (1 .. Len(doc.regions)) /\ Len(doc.regions) \in Nat
  BY RegionsAre DEF pbes2At
<1> QED
  BY <1>1, PositionsAreFinite

LEMMA SecretOfRegion ==
  ASSUME NEW doc \in Container, NEW i \in DOMAIN doc.regions
  PROVE  doc.regions[i].cipher.plain \in Secret
<1>1. doc.regions[i] \in Region
  BY RegionsAre
<1> QED
  BY <1>1 DEF Region, Cipher

LEMMA EncryptedIs ==
  ASSUME NEW r \in Region, NEW p \in Passwords, NEW plain \in Secret, NEW iv \in IVs
  PROVE  /\ encrypted(r, p, plain, iv) \in Region
         /\ encrypted(r, p, plain, iv).kind = r.kind
         /\ encrypted(r, p, plain, iv).scheme = r.scheme
         /\ encrypted(r, p, plain, iv).cipher.plain = plain
         /\ opens(encrypted(r, p, plain, iv), p)
<1> DEFINE c == [password |-> p, iv |-> iv, plain |-> plain]
           e == [kind |-> r.kind, scheme |-> r.scheme, iv |-> iv, cipher |-> c]
<1>1. c \in Cipher /\ c.password = p /\ c.iv = iv /\ c.plain = plain
  BY DEF Cipher
<1> HIDE DEF c
<1>2. encrypted(r, p, plain, iv) = e
  <2> DEFINE e1 == [r EXCEPT !.iv = iv]
  <2>1. e1 = [kind |-> r.kind, scheme |-> r.scheme, iv |-> iv, cipher |-> r.cipher]
    BY DEF Region
  <2>2. encrypted(r, p, plain, iv) = [e1 EXCEPT !.cipher = c]
    BY Zenon DEF encrypted, c
  <2> HIDE DEF e1
  <2> QED
    BY <2>1, <2>2
<1>3. e \in Region
  BY <1>1 DEF Region
<1> QED
  BY <1>1, <1>2, <1>3 DEF opens

(***************************************************************************)
(* Replacing one ciphertext leaves the container as it is otherwise.       *)
(***************************************************************************)
replaced(doc, i, r) == [doc EXCEPT !.regions = [@ EXCEPT ![i] = r]]

LEMMA ReplacedIs ==
  ASSUME NEW doc \in Container, NEW i \in DOMAIN doc.regions, NEW r \in Region
  PROVE  /\ replaced(doc, i, r) \in Container
         /\ replaced(doc, i, r).shape = doc.shape
         /\ replaced(doc, i, r).mac = doc.mac
         /\ replaced(doc, i, r).regions # <<>>
         /\ DOMAIN replaced(doc, i, r).regions = DOMAIN doc.regions
         /\ replaced(doc, i, r).regions[i] = r
         /\ \A j \in DOMAIN doc.regions : j # i => replaced(doc, i, r).regions[j] = doc.regions[j]
<1> DEFINE s == [doc.regions EXCEPT ![i] = r]
           n == Len(doc.regions)
<1>1. n \in Nat /\ DOMAIN doc.regions = 1 .. n /\ doc.regions \in [1 .. n -> Region]
  BY RegionsAre, LenProperties
<1> HIDE DEF n
<1>2. s \in [1 .. n -> Region] /\ s[i] = r
  BY <1>1
<1>3. s \in Seq(Region) /\ DOMAIN s = 1 .. n /\ s # <<>>
  BY <1>1, <1>2
<1>4. \A j \in 1 .. n : j # i => s[j] = doc.regions[j]
  BY <1>1
<1> HIDE DEF s
<1>5. replaced(doc, i, r) = [doc EXCEPT !.regions = s]
  BY DEF replaced, s
<1>6. [doc EXCEPT !.regions = s] \in Container
  BY <1>3 DEF Container
<1>7. /\ [doc EXCEPT !.regions = s].shape = doc.shape
      /\ [doc EXCEPT !.regions = s].mac = doc.mac
      /\ [doc EXCEPT !.regions = s].regions = s
  BY DEF Container
<1> QED
  BY <1>1, <1>2, <1>3, <1>4, <1>5, <1>6, <1>7

LEMMA MacOverIs ==
  ASSUME NEW doc \in Container, NEW p \in Passwords
  PROVE  /\ macOver(doc, p, doc) \in Container
         /\ macOver(doc, p, doc).shape = doc.shape
         /\ macOver(doc, p, doc).mac = doc.mac
         /\ macOver(doc, p, doc).regions = doc.regions
         /\ macOver(doc, p, doc).clear = doc.clear
         /\ doc.mac = "supported" => /\ macOver(doc, p, doc).digest.over = authSafe(doc)
                                    /\ macOver(doc, p, doc).digest.password = p
<1> DEFINE d == [password |-> p, over |-> authSafe(doc)]
<1>1. d \in Digest /\ d.over = authSafe(doc) /\ d.password = p
  BY DEF Digest, authSafe, Container
<1> HIDE DEF d
<1>2. macOver(doc, p, doc) = IF doc.mac # "supported" THEN doc ELSE [doc EXCEPT !.digest = d]
  BY DEF macOver, d
<1>3. [doc EXCEPT !.digest = d] \in Container
  BY <1>1 DEF Container
<1>4. /\ [doc EXCEPT !.digest = d].shape = doc.shape
      /\ [doc EXCEPT !.digest = d].mac = doc.mac
      /\ [doc EXCEPT !.digest = d].regions = doc.regions
      /\ [doc EXCEPT !.digest = d].clear = doc.clear
      /\ [doc EXCEPT !.digest = d].digest = d
  BY DEF Container
<1> QED
  BY <1>1, <1>2, <1>3, <1>4

(***************************************************************************)
(* What an edit that is not refused leaves of a revealed SEQUENCE.         *)
(***************************************************************************)
LEMMA EditedIs ==
  ASSUME NEW forest \in Secret, isSequence(forest), NEW edit \in InnerEdits,
         NEW atRoot \in BOOLEAN, NEW body \in Keys, ~(atRoot /\ refusedAtRoot(edit))
  PROVE  edited(forest, edit, atRoot, body) \in Secret
           /\ isSequence(edited(forest, edit, atRoot, body))
<1>1. forest \in [1 .. 1 -> Node] /\ Len(forest) = 1
  BY DEF Secret, isSequence
<1> DEFINE new == [forest EXCEPT ![1].body = body]
<1>2. edited(forest, edit, atRoot, body) = new
  BY DEF edited, refusedAtRoot, InnerEdits
<1>3. forest[1] \in Node /\ forest[1].sequence
  BY <1>1 DEF isSequence
<1>4. [forest[1] EXCEPT !.body = body] \in Node /\ [forest[1] EXCEPT !.body = body].sequence
  BY <1>3 DEF Node
<1>5. new \in [1 .. 1 -> Node] /\ new[1].sequence
  BY <1>1, <1>4
<1>6. new \in Secret
  BY <1>5 DEF Secret
<1>7. Len(new) = 1
  BY <1>5
<1> QED
  BY <1>2, <1>5, <1>6, <1>7 DEF isSequence

(***************************************************************************)
(* Re-deriving the reveals gives what the document holds.                  *)
(***************************************************************************)
Shown8 == [password : Passwords, roots : Secret]
ShownRegion == [at : Nat, roots : Secret]
Shown12 == [password : Passwords, editable : BOOLEAN, regions : Seq(ShownRegion)]

HoldsPkcs8(doc, s) ==
  s # NoReveal => /\ s \in Shown8
                  /\ s = revealPkcs8(doc, s.password)
                  /\ pkcs8Parse(doc) = "ok"
                  /\ decrypts(doc.regions[1], s.password)
                  /\ s.roots = doc.regions[1].cipher.plain

HoldsPkcs12(doc, s) ==
  s # NoReveal => /\ s \in Shown12
                  /\ doc.shape = "pkcs12"
                  /\ s.editable = macEditable(doc)
                  /\ Len(s.regions) <= Cardinality(pbes2At(doc))
                  /\ \A k \in DOMAIN s.regions :
                       /\ s.regions[k].at \in pbes2At(doc)
                       /\ decrypts(doc.regions[s.regions[k].at], s.password)
                       /\ s.regions[k] = revealRegion(doc, s.regions[k].at)

LEMMA RevealedPkcs8 ==
  ASSUME NEW doc \in Container, NEW p \in Passwords
  PROVE  HoldsPkcs8(doc, revealPkcs8(doc, p))
<1> DEFINE r == doc.regions[1]
           s == [password |-> p, roots |-> r.cipher.plain]
<1>1. CASE pkcs8Parse(doc) = "ok" /\ decrypts(r, p)
  <2>1. revealPkcs8(doc, p) = s
    BY <1>1 DEF revealPkcs8
  <2>2. doc.regions # <<>>
    BY <1>1 DEF pkcs8Parse
  <2>3. s \in Shown8
    BY <2>2, RegionsAre, SecretOfRegion DEF Shown8
  <2>4. s.password = p
    OBVIOUS
  <2> QED
    BY <1>1, <2>1, <2>3, <2>4 DEF HoldsPkcs8
<1>2. CASE ~(pkcs8Parse(doc) = "ok" /\ decrypts(r, p))
  BY <1>2 DEF revealPkcs8, HoldsPkcs8
<1> QED
  BY <1>1, <1>2

LEMMA RefreshedPkcs8 ==
  ASSUME NEW doc \in Container, NEW s, s # NoReveal => s.password \in Passwords
  PROVE  HoldsPkcs8(doc, refreshDecrypted(doc, s))
<1>1. CASE s = NoReveal
  BY <1>1 DEF refreshDecrypted, HoldsPkcs8
<1>2. CASE s # NoReveal
  BY <1>2, RevealedPkcs8 DEF refreshDecrypted
<1> QED
  BY <1>1, <1>2

LEMMA RevealedPkcs12 ==
  ASSUME NEW doc \in Container, NEW p \in Passwords, doc.shape = "pkcs12",
         NEW at \in SUBSET pbes2At(doc), \A i \in at : decrypts(doc.regions[i], p)
  PROVE  HoldsPkcs12(doc, revealPkcs12(doc, at, p))
<1> DEFINE c == Cardinality(at)
           o == inOrder(at)
           rs == [k \in 1 .. c |-> revealRegion(doc, o[k])]
           s == [password |-> p, editable |-> macEditable(doc), regions |-> rs]
<1>1. /\ c \in Nat /\ c <= Cardinality(pbes2At(doc))
      /\ \A k \in 1 .. c : o[k] \in at
  <2>1. at \in SUBSET (1 .. Len(doc.regions)) /\ Len(doc.regions) \in Nat
    BY Pbes2AtIs, RegionsAre
  <2>2. c \in Nat /\ DOMAIN o = 1 .. c /\ \A k \in DOMAIN o : o[k] \in at
    BY <2>1, InOrderIs
  <2> QED
    BY <2>2, Pbes2AtIs, FS_Subset
<1>2. \A i \in at : /\ i \in pbes2At(doc) /\ i \in DOMAIN doc.regions /\ i \in Nat
                    /\ revealRegion(doc, i) \in ShownRegion
                    /\ revealRegion(doc, i).at = i
  BY RegionsAre, SecretOfRegion DEF revealRegion, ShownRegion, pbes2At
<1> HIDE DEF c, o
<1>3. CASE at = {}
  BY <1>3 DEF revealPkcs12, HoldsPkcs12
<1>4. CASE at # {}
  <2>1. revealPkcs12(doc, at, p) = s
    BY <1>4 DEF revealPkcs12, c, o
  <2>2. rs \in [1 .. c -> ShownRegion]
    BY <1>1, <1>2
  <2>3. rs \in Seq(ShownRegion) /\ Len(rs) = c /\ DOMAIN rs = 1 .. c
    BY <1>1, <2>2
  <2>4. \A k \in 1 .. c : /\ rs[k].at \in pbes2At(doc)
                          /\ decrypts(doc.regions[rs[k].at], p)
                          /\ rs[k] = revealRegion(doc, rs[k].at)
    BY <1>1, <1>2
  <2> HIDE DEF rs
  <2>5. s \in Shown12 /\ s.password = p /\ s.editable = macEditable(doc) /\ s.regions = rs
    BY <2>3 DEF Shown12, macEditable
  <2> HIDE DEF s
  <2> QED
    BY <1>1, <2>1, <2>3, <2>4, <2>5 DEF HoldsPkcs12
<1> QED
  BY <1>3, <1>4

LEMMA RefreshedPkcs12 ==
  ASSUME NEW doc \in Container, NEW s, s # NoReveal => s.password \in Passwords
  PROVE  HoldsPkcs12(doc, refreshPkcs12(doc, s))
<1> DEFINE fails == \E i \in pbes2At(doc) : ~decrypts(doc.regions[i], s.password)
<1>1. CASE s = NoReveal \/ pkcs12Parse(doc) # "ok" \/ fails
  BY <1>1 DEF refreshPkcs12, HoldsPkcs12
<1>2. CASE ~(s = NoReveal \/ pkcs12Parse(doc) # "ok" \/ fails)
  <2>1. refreshPkcs12(doc, s) = revealPkcs12(doc, pbes2At(doc), s.password)
    BY <1>2 DEF refreshPkcs12
  <2>2. doc.shape = "pkcs12"
    BY <1>2 DEF pkcs12Parse
  <2> QED
    BY <1>2, <2>1, <2>2, RevealedPkcs12
<1> QED
  BY <1>1, <1>2

(***************************************************************************)
(* Writing an edited forest back succeeds, and replaces one ciphertext.    *)
(***************************************************************************)
decryptedEdited(d, edit, atRoot, body) ==
  [d EXCEPT !.roots = edited(@, edit, atRoot, body)]
regionEdited(d, idx, edit, atRoot, body) ==
  [d EXCEPT !.regions[idx].roots = edited(@, edit, atRoot, body)]

LEMMA TreeIsEncrypted ==
  ASSUME NEW doc \in Container, NEW d, HoldsPkcs8(doc, d), d # NoReveal,
         NEW edit \in InnerEdits, NEW atRoot \in BOOLEAN, NEW body \in Keys,
         ~(atRoot /\ refusedAtRoot(edit)), NEW iv \in IVs
  PROVE  LET s == decryptedEdited(d, edit, atRoot, body)
             r == encrypted(doc.regions[1], s.password, s.roots, iv)
         IN
         /\ encryptDecryptedTree(doc, s, iv) = [ok |-> TRUE, doc |-> replaced(doc, 1, r)]
         /\ r \in Region /\ r.cipher.plain \in Secret
         /\ 1 \in DOMAIN doc.regions
         /\ HoldsPkcs8(replaced(doc, 1, r), s)
<1> DEFINE f == edited(d.roots, edit, atRoot, body)
           s == decryptedEdited(d, edit, atRoot, body)
           r == encrypted(doc.regions[1], s.password, s.roots, iv)
           new == replaced(doc, 1, r)
<1>1. /\ pkcs8Parse(doc) = "ok" /\ doc.regions # <<>> /\ doc.shape = "pkcs8"
      /\ pbes2(doc.regions[1]) /\ isSequence(d.roots) /\ d \in Shown8
  BY DEF HoldsPkcs8, pkcs8Parse, decrypts
<1>2. 1 \in DOMAIN doc.regions /\ doc.regions[1] \in Region
  BY <1>1, RegionsAre
<1>3. f \in Secret /\ isSequence(f)
  BY <1>1, EditedIs DEF Shown8
<1> HIDE DEF f
<1>4. s \in Shown8 /\ s.password = d.password /\ s.roots = f
  BY <1>1, <1>3 DEF Shown8, f, decryptedEdited
<1> HIDE DEF s
<1>5. s.password \in Passwords /\ s = [password |-> s.password, roots |-> f]
  BY <1>4 DEF Shown8
<1>6. /\ r \in Region /\ r.scheme = doc.regions[1].scheme
      /\ r.cipher.plain = f /\ opens(r, s.password)
  BY <1>2, <1>3, <1>4, <1>5, EncryptedIs
<1>7. encryptDecryptedTree(doc, s, iv) = [ok |-> TRUE, doc |-> new]
  BY <1>1, <1>3, <1>4 DEF encryptDecryptedTree, replaced
<1> HIDE DEF r
<1>8. /\ new \in Container /\ new.shape = "pkcs8" /\ new.regions # <<>>
      /\ new.regions[1] = r
  BY <1>1, <1>2, <1>6, ReplacedIs
<1> HIDE DEF new
<1>9. pkcs8Parse(new) = "ok" /\ decrypts(new.regions[1], s.password)
  BY <1>1, <1>3, <1>6, <1>8 DEF pkcs8Parse, pbes2, decrypts
<1>10. revealPkcs8(new, s.password) = s
  BY <1>5, <1>6, <1>8, <1>9 DEF revealPkcs8
<1>11. HoldsPkcs8(new, s)
  BY <1>4, <1>6, <1>8, <1>9, <1>10 DEF HoldsPkcs8
<1> QED
  BY <1>2, <1>3, <1>6, <1>7, <1>11 DEF s, r, new

LEMMA RegionIsEncrypted ==
  ASSUME NEW doc \in Container, NEW d, HoldsPkcs12(doc, d), d # NoReveal, d.editable,
         NEW idx \in DOMAIN d.regions,
         NEW edit \in InnerEdits, NEW atRoot \in BOOLEAN, NEW body \in Keys,
         ~(atRoot /\ refusedAtRoot(edit)), NEW iv \in IVs
  PROVE  LET s == regionEdited(d, idx, edit, atRoot, body)
             at == pbes2Regions(doc)[idx]
             r == encrypted(doc.regions[at], d.password, s.regions[idx].roots, iv)
             new == replaced(doc, at, r)
         IN
         /\ encryptPkcs12Region(doc, s, idx, iv) = [ok |-> TRUE, doc |-> macOver(new, d.password, new)]
         /\ s.password = d.password /\ d.password \in Passwords
         /\ at \in pbes2At(doc) /\ at \in DOMAIN doc.regions
         /\ s.regions[idx].roots \in Secret /\ isSequence(s.regions[idx].roots)
<1> DEFINE s == regionEdited(d, idx, edit, atRoot, body)
           at == pbes2Regions(doc)[idx]
           f == edited(d.regions[idx].roots, edit, atRoot, body)
           r == encrypted(doc.regions[at], d.password, s.regions[idx].roots, iv)
           new == replaced(doc, at, r)
<1>1. d \in Shown12 /\ doc.shape = "pkcs12" /\ macEditable(doc) /\ idx \in DOMAIN d.regions
  BY DEF HoldsPkcs12
<1>2. PICK p \in Passwords, e \in BOOLEAN, rs \in Seq(ShownRegion) :
        d = [password |-> p, editable |-> e, regions |-> rs]
  BY <1>1 DEF Shown12
<1>3. /\ Len(rs) \in Nat /\ DOMAIN rs = 1 .. Len(rs) /\ idx \in 1 .. Len(rs)
      /\ Len(rs) <= Cardinality(pbes2At(doc))
      /\ rs[idx] \in ShownRegion
  BY <1>2, LenProperties DEF HoldsPkcs12
<1>4. idx \in 1 .. Cardinality(pbes2At(doc)) /\ ~(idx > Cardinality(pbes2At(doc)))
  BY <1>3, Pbes2AtIs
<1>5. at \in pbes2At(doc) /\ at \in DOMAIN doc.regions
  <2>1. pbes2At(doc) \in SUBSET (1 .. Len(doc.regions)) /\ Len(doc.regions) \in Nat
    BY Pbes2AtIs, RegionsAre
  <2>2. /\ DOMAIN inOrder(pbes2At(doc)) = 1 .. Cardinality(pbes2At(doc))
        /\ \A k \in DOMAIN inOrder(pbes2At(doc)) : inOrder(pbes2At(doc))[k] \in pbes2At(doc)
    BY <2>1, InOrderIs
  <2> QED
    BY <1>4, <2>1, <2>2, RegionsAre DEF pbes2Regions
<1>6. isSequence(d.regions[idx].roots) /\ d.regions[idx].roots \in Secret
  <2>1. rs[idx] = revealRegion(doc, rs[idx].at) /\ decrypts(doc.regions[rs[idx].at], p)
    BY <1>2, <1>3 DEF HoldsPkcs12
  <2>2. rs[idx].roots = doc.regions[rs[idx].at].cipher.plain
    BY <2>1 DEF revealRegion
  <2> QED
    BY <1>2, <1>3, <2>1, <2>2 DEF decrypts, ShownRegion
<1>7. f \in Secret /\ isSequence(f)
  BY <1>6, EditedIs
<1> HIDE DEF f
<1>8. s.password = p /\ s.regions[idx].roots = f
  <2> DEFINE g == [rs[idx] EXCEPT !.roots = f]
             rs2 == [rs EXCEPT ![idx] = g]
  <2>1. s = [d EXCEPT !.regions = rs2]
    BY <1>2 DEF f, regionEdited
  <2>2. g.roots = f
    BY <1>3 DEF ShownRegion
  <2> HIDE DEF g
  <2>3. rs2[idx] = g
    BY <1>3
  <2> HIDE DEF rs2
  <2>4. s.password = p /\ s.regions = rs2
    BY <1>2, <2>1
  <2> QED
    BY <2>2, <2>3, <2>4
<1>9. encryptPkcs12Region(doc, s, idx, iv) = [ok |-> TRUE, doc |-> macOver(new, d.password, new)]
  <2>1. pkcs12Parse(doc) = "ok" /\ doc.mac # "unsupported"
    BY <1>1, <1>5 DEF pkcs12Parse, macEditable
  <2>2. ~(\/ pkcs12Parse(doc) # "ok" \/ doc.mac = "unsupported"
          \/ idx > Cardinality(pbes2At(doc)) \/ ~isSequence(s.regions[idx].roots))
    BY <1>4, <1>7, <1>8, <2>1
  <2>3. d.password = s.password
    BY <1>2, <1>8
  <2> QED
    BY <2>2, <2>3, Zenon DEF encryptPkcs12Region, replaced
<1> QED
  BY <1>2, <1>5, <1>7, <1>8, <1>9

(***************************************************************************)
(* An edit of the serialized document leaves a container.                  *)
(***************************************************************************)
LEMMA WithRegions ==
  ASSUME NEW doc \in Container, NEW rs \in Seq(Region)
  PROVE  [doc EXCEPT !.regions = rs] \in Container
BY DEF Container

LEMMA OuterEditedIs ==
  ASSUME NEW doc \in Container, NEW kind, NEW i \in DOMAIN doc.regions,
         NEW clear \in Clear, NEW scheme \in Schemes,
         kind \in {"mac", "digest"} => doc.mac = "supported"
  PROVE  outerEdited(doc, kind, i, clear, scheme) \in Container
<1> DEFINE n == Len(doc.regions)
           out == outerEdited(doc, kind, i, clear, scheme)
<1>1. /\ n \in Nat /\ DOMAIN doc.regions = 1 .. n /\ doc.regions \in [1 .. n -> Region]
      /\ doc.regions \in Seq(Region) /\ doc.regions[i] \in Region
  BY RegionsAre, LenProperties
<1>2. ASSUME NEW r \in Region PROVE [doc EXCEPT !.regions = [@ EXCEPT ![i] = r]] \in Container
  BY <1>2, ReplacedIs DEF replaced
<1>3. CASE kind = "clear"
  <2>1. [doc EXCEPT !.clear = clear] \in Container
    BY DEF Container
  <2> QED
    BY <1>3, <2>1 DEF outerEdited
<1>4. CASE kind = "iv"
  <2> DEFINE r == [doc.regions[i] EXCEPT !.iv = 1 - @]
  <2>1. r \in Region
    BY <1>1 DEF Region, IVs
  <2>2. out = [doc EXCEPT !.regions = [@ EXCEPT ![i] = r]]
    BY <1>4 DEF outerEdited
  <2> HIDE DEF r
  <2> QED
    BY <1>2, <2>1, <2>2
<1>5. CASE kind = "damage"
  <2> DEFINE c == [doc.regions[i].cipher EXCEPT !.password = NoPassword]
             r == [doc.regions[i] EXCEPT !.cipher = c]
  <2>1. c \in Cipher
    BY <1>1 DEF Region, Cipher
  <2>2. out = [doc EXCEPT !.regions = [@ EXCEPT ![i] = r]]
    BY <1>5 DEF outerEdited
  <2> HIDE DEF c
  <2>3. r \in Region
    BY <1>1, <2>1 DEF Region
  <2> HIDE DEF r
  <2> QED
    BY <1>2, <2>2, <2>3
<1>6. CASE kind = "scheme"
  <2> DEFINE r == [doc.regions[i] EXCEPT !.scheme = scheme]
  <2>1. r \in Region
    BY <1>1 DEF Region
  <2>2. out = [doc EXCEPT !.regions = [@ EXCEPT ![i] = r]]
    BY <1>6 DEF outerEdited
  <2> HIDE DEF r
  <2> QED
    BY <1>2, <2>1, <2>2
<1>7. CASE kind = "remove"
  <2>1. RemoveAt(doc.regions, i) \in Seq(Region)
    <3>1. SubSeq(doc.regions, 1, i - 1) \in Seq(Region) /\ SubSeq(doc.regions, i + 1, n) \in Seq(Region)
      BY <1>1
    <3> QED
      BY <3>1 DEF RemoveAt
  <2>2. out = [doc EXCEPT !.regions = RemoveAt(doc.regions, i)]
    BY <1>7 DEF outerEdited
  <2> QED
    BY <2>1, <2>2, WithRegions
<1>8. CASE kind = "move"
  <2>1. Reverse(doc.regions) \in Seq(Region)
    <3>1. \A k \in 1 .. n : doc.regions[(n - k) + 1] \in Region
      BY <1>1
    <3>2. Reverse(doc.regions) \in [1 .. n -> Region]
      BY <3>1 DEF Reverse
    <3> QED
      BY <1>1, <3>2
  <2>2. out = [doc EXCEPT !.regions = Reverse(doc.regions)]
    BY <1>8 DEF outerEdited
  <2> QED
    BY <2>1, <2>2, WithRegions
<1>9. CASE kind = "mac"
  <2>1. doc.shape = "pkcs12"
    BY <1>9 DEF Container
  <2>2. [doc EXCEPT !.mac = "unsupported"] \in Container
    BY <2>1 DEF Container, Macs
  <2> QED
    BY <1>9, <2>2 DEF outerEdited
<1>10. CASE kind \notin {"clear", "iv", "damage", "scheme", "remove", "move", "mac"}
  <2>1. misfit(doc.digest, clear) \in Digest
    <3> DEFINE o == [doc.digest.over EXCEPT !.clear = clear]
    <3>1. o \in [regions : Seq(Region), clear : Clear \cup Keys]
      BY DEF Container, Digest
    <3> HIDE DEF o
    <3>2. [doc.digest EXCEPT !.over = o] \in Digest
      BY <3>1 DEF Container, Digest
    <3> QED
      BY <3>2 DEF misfit, o
  <2>2. out = [doc EXCEPT !.digest = misfit(doc.digest, clear)]
    BY <1>10 DEF outerEdited
  <2>3. [doc EXCEPT !.digest = misfit(doc.digest, clear)] \in Container
    BY <2>1 DEF Container
  <2> QED
    BY <2>2, <2>3
<1> QED
  BY <1>3, <1>4, <1>5, <1>6, <1>7, <1>8, <1>9, <1>10

-----------------------------------------------------------------------------
(***************************************************************************)
(* The inductive invariant: what is shown is the content of the ciphertext *)
(* it was revealed from, a revealed key and revealed regions exclude each  *)
(* other, and no more regions are shown than can be found again.           *)
(***************************************************************************)
HoldsCms(doc, s) == s # NoReveal => findEnveloped(doc) /\ s = revealRegion(doc, 1)

PromptsHaveAFile == mode # "Browse" => file # NoFile

RInv ==
  /\ TypeOK
  /\ HoldsPkcs8(roots, decrypted)
  /\ HoldsPkcs12(roots, pkcs12)
  /\ HoldsCms(roots, cmsReveal)
  /\ PromptsHaveAFile
  /\ UpdatesSucceed
  /\ MacFollowsTheEdit

LEMMA RInvShows == RInv => ShownIsEncrypted
BY DEF RInv, ShownIsEncrypted, HoldsPkcs8, HoldsPkcs12, HoldsCms

LEMMA RInvType ==
  ASSUME RInv
  PROVE  /\ roots \in Container
         /\ decrypted # NoReveal => decrypted.password \in Passwords
         /\ pkcs12 # NoReveal => pkcs12.password \in Passwords
BY DEF RInv, TypeOK

(* Whatever the document becomes, what is shown of it is of a legal type.  *)
LEMMA HoldsTypes ==
  ASSUME NEW doc \in Container, NEW d, NEW p, NEW c,
         HoldsPkcs8(doc, d), HoldsPkcs12(doc, p), HoldsCms(doc, c)
  PROVE  /\ d \in [password : Passwords, roots : Secret] \cup {NoReveal}
         /\ p \in [password : Passwords, editable : BOOLEAN,
                   regions : Seq([at : Nat, roots : Secret])] \cup {NoReveal}
         /\ c \in [at : Nat, roots : Secret] \cup {NoReveal}
<1>1. c # NoReveal => c \in [at : Nat, roots : Secret]
  <2> SUFFICES ASSUME c # NoReveal PROVE c \in [at : Nat, roots : Secret]
    OBVIOUS
  <2>1. doc.regions # <<>> /\ c = [at |-> 1, roots |-> doc.regions[1].cipher.plain]
    BY DEF HoldsCms, findEnveloped, revealRegion
  <2> QED
    BY <2>1, RegionsAre, SecretOfRegion
<1> QED
  BY <1>1 DEF HoldsPkcs8, HoldsPkcs12, Shown8, Shown12, ShownRegion

LEMMA NothingHolds ==
  ASSUME NEW doc
  PROVE  HoldsPkcs8(doc, NoReveal) /\ HoldsPkcs12(doc, NoReveal) /\ HoldsCms(doc, NoReveal)
BY DEF HoldsPkcs8, HoldsPkcs12, HoldsCms

LEMMA InitRInv == Init => RInv
<1> SUFFICES ASSUME Init PROVE RInv
  OBVIOUS
<1>1. TypeOK
  <2>1. roots \in Container
    <3>1. PICK doc \in Container : roots = Nothing(doc)
      <4>1. Startup[CHOOSE f \in Files : TRUE] \in Container
        <5>1. (CHOOSE f \in Files : TRUE) \in Files
          BY FilesAssumption
        <5> QED
          BY <5>1, FilesAssumption
      <4> QED
        BY <4>1 DEF Init
    <3> DEFINE new == [shape |-> "other", regions |-> <<>>, clear |-> doc.clear,
                       mac |-> "absent", digest |-> doc.digest]
    <3>2. roots = new
      BY <3>1, Zenon DEF Nothing, Container
    <3>3. new \in Container
      BY DEF Container, Shapes, Macs
    <3> QED
      BY <3>2, <3>3
  <2>2. disk \in [Files -> Container] /\ file \in Files \cup {NoFile} /\ edits \in 0 .. MaxEdits
    BY FilesAssumption, EditsAssumption DEF Init
  <2>3. retainedPasswords \in [Files -> Passwords \cup {NoPassword}]
    BY DEF Init
  <2>4. decrypted = NoReveal /\ pkcs12 = NoReveal /\ cmsReveal = NoReveal /\ unlockedKeys = {}
    BY DEF Init
  <2>5. dirty = FALSE /\ mode = "Browse" /\ failedUpdate = FALSE /\ author = "nobody"
    BY DEF Init
  <2> QED
    BY <2>1, <2>2, <2>3, <2>4, <2>5 DEF TypeOK
<1> QED
  BY <1>1, NothingHolds DEF Init, RInv, PromptsHaveAFile, UpdatesSucceed, MacFollowsTheEdit

(* What holds of the variables that an edit leaves alone, or only counts.  *)
Kept == /\ disk' \in [Files -> Container] /\ file' \in Files \cup {NoFile}
        /\ dirty' \in BOOLEAN /\ mode' \in {"Browse", "Password", "EditMenu"}
        /\ unlockedKeys' \subseteq Files \X Keys
        /\ retainedPasswords' \in [Files -> Passwords \cup {NoPassword}]
        /\ edits' \in 0 .. MaxEdits
        /\ PromptsHaveAFile'

LEMMA StepKeeps ==
  ASSUME Kept, roots' \in Container, failedUpdate' = FALSE,
         author' \in {"nobody", "inside", "outside"},
         HoldsPkcs8(roots', decrypted'), HoldsPkcs12(roots', pkcs12'), HoldsCms(roots', cmsReveal'),
         MacFollowsTheEdit'
  PROVE  RInv'
<1>1. TypeOK'
  <2>1. /\ decrypted' \in [password : Passwords, roots : Secret] \cup {NoReveal}
        /\ pkcs12' \in [password : Passwords, editable : BOOLEAN,
                   regions : Seq([at : Nat, roots : Secret])] \cup {NoReveal}
        /\ cmsReveal' \in [at : Nat, roots : Secret] \cup {NoReveal}
    BY HoldsTypes
  <2> QED
    BY <2>1 DEF Kept, TypeOK
<1> QED
  BY <1>1 DEF RInv, UpdatesSucceed, Kept

(* Whatever leaves the document and its author alone leaves the MAC alone. *)
LEMMA MacIsKept ==
  ASSUME MacFollowsTheEdit, UNCHANGED <<roots, author>>
  PROVE  MacFollowsTheEdit'
<1>1. macFits' = macFits /\ macOpens' = macOpens
  BY DEF macFits, macOpens, pbes2At, decrypts, opens, authSafe
<1> QED
  BY <1>1 DEF MacFollowsTheEdit

LEMMA EditKeeps ==
  ASSUME TypeOK, mode = "Browse", counted, dirty' = TRUE, UNCHANGED <<disk, file, mode, remembered>>
  PROVE  Kept
<1>1. edits' \in 0 .. MaxEdits
  BY EditsAssumption DEF TypeOK, counted
<1> QED
  BY <1>1 DEF TypeOK, Kept, remembered, PromptsHaveAFile

(* An edit of revealed content: the key, or a region.                      *)
LEMMA EditDecryptedKeeps ==
  ASSUME RInv, NEW e \in InnerEdits, NEW r \in BOOLEAN, NEW b \in Keys, EditDecrypted(e, r, b)
  PROVE  /\ RInv'
         /\ decrypted # NoReveal /\ roots.shape = "pkcs8" /\ 1 \in DOMAIN roots.regions
         /\ \E c \in Region : roots' = replaced(roots, 1, c)
         /\ pkcs12' = refreshPkcs12(roots', pkcs12)
         /\ author' = "inside"
<1> DEFINE s == decryptedEdited(decrypted, e, r, b)
<1>1. PICK iv \in IVs : rebuildInner(encryptDecryptedTree(roots, s, iv), s, pkcs12)
  BY Zenon DEF EditDecrypted, decryptedEdited
<1>2. /\ roots \in Container /\ HoldsPkcs8(roots, decrypted) /\ decrypted # NoReveal
      /\ ~(r /\ refusedAtRoot(e)) /\ failedUpdate = FALSE
  BY DEF EditDecrypted, RInv, TypeOK, UpdatesSucceed
<1> DEFINE c == encrypted(roots.regions[1], s.password, s.roots, iv)
           new == replaced(roots, 1, c)
<1>3. /\ encryptDecryptedTree(roots, s, iv) = [ok |-> TRUE, doc |-> new]
      /\ c \in Region /\ 1 \in DOMAIN roots.regions /\ HoldsPkcs8(new, s)
  BY <1>2, TreeIsEncrypted
<1> HIDE DEF s, c
<1>4. new \in Container /\ new.shape = "pkcs8" /\ new.mac = "absent"
  <2>1. roots.shape = "pkcs8" /\ roots.mac = "absent"
    BY <1>2 DEF HoldsPkcs8, pkcs8Parse, Container
  <2> QED
    BY <1>2, <1>3, <2>1, ReplacedIs
<1>9. roots.shape = "pkcs8" /\ \E x \in Region : new = replaced(roots, 1, x)
  BY <1>2, <1>3 DEF HoldsPkcs8, pkcs8Parse
<1> HIDE DEF new
<1>5. /\ roots' = new /\ decrypted' = s /\ pkcs12' = refreshPkcs12(new, pkcs12)
      /\ cmsReveal' = NoReveal /\ failedUpdate' = FALSE /\ author' = "inside"
  <2>1. rebuildInner([ok |-> TRUE, doc |-> new], s, pkcs12)
    BY <1>1, <1>3
  <2> QED
    BY <1>2, <2>1 DEF rebuildInner
<1>6. HoldsPkcs12(new, pkcs12')
  BY <1>4, <1>5, RInvType, RefreshedPkcs12
<1>7. Kept
  <2>1. TypeOK /\ mode = "Browse" /\ counted /\ dirty' = TRUE
          /\ UNCHANGED <<disk, file, mode, remembered>>
    BY DEF EditDecrypted, RInv
  <2> QED
    BY <2>1, EditKeeps
<1>8. MacFollowsTheEdit'
  BY <1>4, <1>5 DEF MacFollowsTheEdit
<1> QED
  BY <1>2, <1>3, <1>4, <1>5, <1>6, <1>7, <1>8, <1>9, NothingHolds, StepKeeps

LEMMA EditPkcs12Keeps ==
  ASSUME RInv, NEW i \in 1 .. 2, NEW e \in InnerEdits, NEW r \in BOOLEAN, NEW b \in Keys,
         EditPkcs12(i, e, r, b)
  PROVE  /\ RInv'
         /\ pkcs12 # NoReveal /\ pkcs12.password \in Passwords
         /\ i \in DOMAIN pkcs12.regions
         /\ pbes2Regions(roots)[i] \in DOMAIN roots.regions
         /\ \E c \in Region :
              LET mid == replaced(roots, pbes2Regions(roots)[i], c)
              IN roots' = macOver(mid, pkcs12.password, mid)
         /\ \E s : pkcs12' = refreshPkcs12(roots', s)
         /\ author' = "inside"
<1> DEFINE s == regionEdited(pkcs12, i, e, r, b)
<1>1. PICK iv \in IVs : rebuildInner(encryptPkcs12Region(roots, s, i, iv), decrypted, s)
  BY Zenon DEF EditPkcs12, regionEdited
<1>2. /\ roots \in Container /\ HoldsPkcs12(roots, pkcs12) /\ pkcs12 # NoReveal
      /\ pkcs12.editable /\ i \in DOMAIN pkcs12.regions
      /\ ~(r /\ refusedAtRoot(e)) /\ failedUpdate = FALSE
  BY DEF EditPkcs12, RInv, TypeOK, UpdatesSucceed
<1> DEFINE p == pkcs12.password
           at == pbes2Regions(roots)[i]
           c == encrypted(roots.regions[at], p, s.regions[i].roots, iv)
           mid == replaced(roots, at, c)
           new == macOver(mid, p, mid)
<1>3. /\ encryptPkcs12Region(roots, s, i, iv) = [ok |-> TRUE, doc |-> new]
      /\ s.password = p /\ p \in Passwords /\ at \in DOMAIN roots.regions
      /\ at \in pbes2At(roots)
      /\ s.regions[i].roots \in Secret /\ isSequence(s.regions[i].roots)
  BY <1>2, RegionIsEncrypted
<1> HIDE DEF s
<1>4. c \in Region /\ decrypts(c, p) /\ pbes2(c)
  BY <1>2, <1>3, RegionsAre, EncryptedIs DEF decrypts, pbes2, pbes2At
<1>12. \E x \in Region : LET m == replaced(roots, at, x) IN new = macOver(m, p, m)
  <2> HIDE DEF c, at, p
  <2> QED
    BY <1>4
<1>13. p \in Passwords /\ at \in DOMAIN roots.regions
  BY <1>3
<1> HIDE DEF c, at, p
<1>5. mid \in Container /\ mid.shape = "pkcs12"
  BY <1>2, <1>3, <1>4, ReplacedIs DEF HoldsPkcs12
<1>14. at \in pbes2At(mid) /\ decrypts(mid.regions[at], p)
  <2>1. DOMAIN mid.regions = DOMAIN roots.regions /\ mid.regions[at] = c
    BY <1>2, <1>4, <1>13, ReplacedIs
  <2> HIDE DEF mid
  <2> QED
    BY <1>4, <1>13, <2>1 DEF pbes2At
<1> HIDE DEF mid
<1>6. /\ new \in Container /\ new.shape = "pkcs12"
      /\ new.mac = "supported" =>
           /\ new.digest.over = authSafe(new)
           /\ at \in pbes2At(new) /\ decrypts(new.regions[at], new.digest.password)
  <2>1. /\ new \in Container /\ new.shape = mid.shape /\ new.mac = mid.mac
        /\ new.regions = mid.regions /\ new.clear = mid.clear
        /\ mid.mac = "supported" => /\ new.digest.over = authSafe(mid)
                                   /\ new.digest.password = p
    BY <1>3, <1>5, MacOverIs
  <2>2. authSafe(new) = authSafe(mid) /\ pbes2At(new) = pbes2At(mid)
    BY <2>1 DEF authSafe, pbes2At
  <2> QED
    BY <1>5, <1>14, <2>1, <2>2
<1> HIDE DEF new
<1>7. /\ roots' = new /\ decrypted' = decrypted /\ pkcs12' = refreshPkcs12(new, s)
      /\ cmsReveal' = NoReveal /\ failedUpdate' = FALSE /\ author' = "inside"
  <2>1. rebuildInner([ok |-> TRUE, doc |-> new], decrypted, s)
    BY <1>1, <1>3
  <2> QED
    BY <1>2, <2>1 DEF rebuildInner
<1>8. HoldsPkcs12(new, pkcs12')
  BY <1>3, <1>6, <1>7, RefreshedPkcs12
<1>9. HoldsPkcs8(new, decrypted')
  BY <1>2, <1>7 DEF RInv, HoldsPkcs8, HoldsPkcs12, pkcs8Parse
<1>10. Kept
  <2>1. TypeOK /\ mode = "Browse" /\ counted /\ dirty' = TRUE
          /\ UNCHANGED <<disk, file, mode, remembered>>
    BY DEF EditPkcs12, RInv
  <2> QED
    BY <2>1, EditKeeps
<1>11. MacFollowsTheEdit'
  BY <1>6, <1>7 DEF MacFollowsTheEdit, macFits, macOpens, pbes2At, decrypts, opens, authSafe
<1> QED
  <2>1. RInv' /\ roots' = new /\ author' = "inside" /\ pkcs12' = refreshPkcs12(roots', s)
    BY <1>6, <1>7, <1>8, <1>9, <1>10, <1>11, NothingHolds, StepKeeps
  <2>2. \E x \in Region : LET m == replaced(roots, at, x) IN roots' = macOver(m, p, m)
    BY <1>12, <2>1
  <2> QED
    BY <1>2, <1>13, <2>1, <2>2 DEF at, p

(* An edit of the serialized document re-derives what is shown of it.      *)
LEMMA EditDocumentKeeps ==
  ASSUME RInv, NEW kind, NEW i \in 1 .. 2, NEW c \in Clear, NEW a \in Schemes,
         EditDocument(kind, i, c, a)
  PROVE  RInv'
<1> DEFINE new == outerEdited(roots, kind, i, c, a)
<1>1. new \in Container
  BY RInvType, OuterEditedIs DEF EditDocument
<1> HIDE DEF new
<1>2. /\ roots' = new /\ decrypted' = refreshDecrypted(new, decrypted)
      /\ pkcs12' = refreshPkcs12(new, pkcs12)
      /\ cmsReveal' = NoReveal /\ failedUpdate' = FALSE /\ author' = "outside"
  BY DEF EditDocument, rebuildOuter, new, RInv, UpdatesSucceed, TypeOK
<1>3. HoldsPkcs8(new, decrypted') /\ HoldsPkcs12(new, pkcs12')
  BY <1>1, <1>2, RInvType, RefreshedPkcs8, RefreshedPkcs12
<1>4. Kept
  <2>1. TypeOK /\ mode = "Browse" /\ counted /\ dirty' = TRUE
          /\ UNCHANGED <<disk, file, mode, remembered>>
    BY DEF EditDocument, RInv
  <2> QED
    BY <2>1, EditKeeps
<1>5. MacFollowsTheEdit'
  BY <1>2 DEF MacFollowsTheEdit
<1> QED
  BY <1>1, <1>2, <1>3, <1>4, <1>5, NothingHolds, StepKeeps

(* A password shows what it opens, and is remembered with the keys.        *)
LEMMA BodyOfSequence ==
  ASSUME NEW forest \in Secret, isSequence(forest)
  PROVE  forest[1].body \in Keys
<1>1. forest \in [1 .. 1 -> Node]
  BY DEF Secret, isSequence
<1>2. forest[1] \in Node
  BY <1>1
<1> QED
  BY <1>2 DEF Node

LEMMA RememberKeeps ==
  ASSUME TypeOK, file # NoFile, NEW ids \in SUBSET Keys, NEW p \in Passwords, remember(ids, p)
  PROVE  /\ unlockedKeys' \subseteq Files \X Keys
         /\ retainedPasswords' \in [Files -> Passwords \cup {NoPassword}]
<1>1. file \in Files /\ unlockedKeys \subseteq Files \X Keys
  BY DEF TypeOK
<1>2. \A id \in ids : <<file, id>> \in Files \X Keys
  BY <1>1
<1>3. unlockedKeys' \subseteq Files \X Keys
  BY <1>1, <1>2 DEF remember
<1>4. retainedPasswords' \in [Files -> Passwords \cup {NoPassword}]
  BY DEF TypeOK, remember
<1> QED
  BY <1>3, <1>4

LEMMA SubmitPasswordKeeps ==
  ASSUME RInv, NEW p \in Passwords, SubmitPassword(p)
  PROVE  RInv'
<1>1. /\ roots \in Container /\ TypeOK
      /\ UNCHANGED <<disk, file, roots, dirty, edits, history>> /\ mode' = "Browse"
  BY DEF SubmitPassword, RInv, TypeOK
<1>2. MacFollowsTheEdit' /\ failedUpdate' = FALSE /\ author' \in {"nobody", "inside", "outside"}
  BY <1>1, MacIsKept DEF RInv, UpdatesSucceed, TypeOK, history
<1>3. ASSUME /\ unlockedKeys' \subseteq Files \X Keys
             /\ retainedPasswords' \in [Files -> Passwords \cup {NoPassword}]
      PROVE  Kept
  BY <1>1, <1>3 DEF Kept, TypeOK, PromptsHaveAFile
<1>4. ASSUME UNCHANGED remembered PROVE Kept
  BY <1>1, <1>3, <1>4 DEF TypeOK, remembered
<1>5. CASE pkcs8Parse(roots) = "ok"
  <2> DEFINE s == revealPkcs8(roots, p)
  <2>1. SubmitPkcs8(p)
    BY <1>5 DEF SubmitPassword
  <2>2. decrypted' = s /\ pkcs12' = pkcs12 /\ cmsReveal' = cmsReveal
    BY <2>1 DEF SubmitPkcs8
  <2>3. HoldsPkcs8(roots, s)
    BY <1>1, RevealedPkcs8
  <2> HIDE DEF s
  <2>4. Kept
    <3>1. CASE s = NoReveal
      BY <1>4, <2>1, <3>1 DEF SubmitPkcs8, s
    <3>2. CASE s # NoReveal
      <4>1. s.roots[1].body \in Keys
        <5>1. s.roots \in Secret /\ isSequence(s.roots)
          BY <2>3, <3>2 DEF HoldsPkcs8, Shown8, decrypts
        <5> QED
          BY <5>1, BodyOfSequence
      <4>2. remember({s.roots[1].body}, p)
        BY <2>1, <3>2 DEF SubmitPkcs8, s
      <4>3. file # NoFile
        BY DEF SubmitPassword, RInv, PromptsHaveAFile
      <4> QED
        BY <1>1, <1>3, <4>1, <4>2, <4>3, RememberKeeps
    <3> QED
      BY <3>1, <3>2
  <2> QED
    BY <1>1, <1>2, <2>2, <2>3, <2>4, StepKeeps DEF RInv
<1>6. CASE pkcs8Parse(roots) # "ok" /\ pkcs12Parse(roots) = "ok"
  <2> DEFINE opened == {i \in pbes2At(roots) : decrypts(roots.regions[i], p)}
             ids == UNION {publicIds(roots.regions[i], roots.regions[i].cipher.plain) : i \in opened}
             s == revealPkcs12(roots, opened, p)
  <2>1. SubmitPkcs12(p)
    BY <1>6 DEF SubmitPassword
  <2>2. decrypted' = decrypted /\ pkcs12' = s /\ cmsReveal' = cmsReveal
    BY <2>1 DEF SubmitPkcs12
  <2>3. HoldsPkcs12(roots, s)
    <3>1. roots.shape = "pkcs12"
      BY <1>6 DEF pkcs12Parse
    <3>2. opened \in SUBSET pbes2At(roots) /\ \A i \in opened : decrypts(roots.regions[i], p)
      OBVIOUS
    <3> HIDE DEF opened
    <3> QED
      BY <1>1, <3>1, <3>2, RevealedPkcs12
  <2>4. ids \in SUBSET Keys
    <3>1. \A i \in opened : publicIds(roots.regions[i], roots.regions[i].cipher.plain) \subseteq Keys
      BY <1>1, SecretOfRegion, BodyOfSequence DEF pbes2At, decrypts, publicIds
    <3> QED
      BY <3>1
  <2>5. IF opened = {} THEN UNCHANGED remembered ELSE remember(ids, p)
    BY <2>1 DEF SubmitPkcs12
  <2> HIDE DEF opened, ids, s
  <2>6. Kept
    <3>1. file # NoFile
      BY DEF SubmitPassword, RInv, PromptsHaveAFile
    <3> QED
      BY <1>1, <1>3, <1>4, <2>4, <2>5, <3>1, RememberKeeps
  <2> QED
    BY <1>1, <1>2, <2>2, <2>3, <2>6, StepKeeps DEF RInv
<1>7. CASE pkcs8Parse(roots) # "ok" /\ pkcs12Parse(roots) # "ok"
  <2>1. UNCHANGED <<revealed, remembered>>
    BY <1>7 DEF SubmitPassword
  <2> QED
    BY <1>1, <1>2, <1>4, <2>1, StepKeeps DEF RInv, revealed
<1> QED
  BY <1>5, <1>6, <1>7

LEMMA StepRInv == RInv /\ [Next]_vars => RInv'
<1> SUFFICES ASSUME RInv, [Next]_vars PROVE RInv'
  OBVIOUS
<1>0. roots \in Container /\ TypeOK
  BY DEF RInv, TypeOK
<1>1. ASSUME NEW f \in Files, OpenFile(f) PROVE RInv'
  <2>1. disk[f] \in Container
    BY <1>0 DEF TypeOK
  <2>2. Kept
    BY <1>0, <1>1 DEF OpenFile, Kept, TypeOK, PromptsHaveAFile, remembered
  <2>3. /\ roots' = disk[f] /\ decrypted' = NoReveal /\ pkcs12' = NoReveal /\ cmsReveal' = NoReveal
        /\ author' = "nobody" /\ failedUpdate' = FALSE
    BY <1>1 DEF OpenFile, RInv, UpdatesSucceed, TypeOK
  <2> QED
    BY <2>1, <2>2, <2>3, NothingHolds, StepKeeps DEF MacFollowsTheEdit
<1>2. ASSUME Kept, UNCHANGED <<roots, revealed, history>> PROVE RInv'
  <2>1. /\ roots' = roots /\ decrypted' = decrypted /\ pkcs12' = pkcs12 /\ cmsReveal' = cmsReveal
        /\ author' = author /\ failedUpdate' = failedUpdate
    BY <1>2 DEF revealed, history
  <2>2. MacFollowsTheEdit'
    BY <2>1, MacIsKept DEF RInv
  <2> QED
    BY <1>0, <1>2, <2>1, <2>2, StepKeeps DEF RInv, TypeOK, UpdatesSucceed
<1>3. CASE Save
  <2>1. disk' \in [Files -> Container]
    BY <1>0, <1>3 DEF Save, TypeOK
  <2>2. Kept
    BY <1>0, <1>3, <2>1 DEF Save, Kept, TypeOK, PromptsHaveAFile, remembered
  <2> QED
    BY <1>2, <1>3, <2>2 DEF Save
<1>4. CASE StartDecrypt
  <2>1. mode' \in {"Browse", "Password", "EditMenu"} /\ file' = file /\ file # NoFile
    BY <1>4 DEF StartDecrypt
  <2>2. Kept
    BY <1>0, <1>4, <2>1 DEF StartDecrypt, Kept, TypeOK, PromptsHaveAFile, remembered
  <2> QED
    BY <1>2, <1>4, <2>2 DEF StartDecrypt
<1>5. CASE Cancel
  <2>1. Kept
    BY <1>0, <1>5 DEF Cancel, Kept, TypeOK, PromptsHaveAFile, remembered
  <2> QED
    BY <1>2, <1>5, <2>1 DEF Cancel
<1>6. ASSUME NEW p \in Passwords, SubmitPassword(p) PROVE RInv'
  BY <1>6, SubmitPasswordKeeps
<1>7. CASE DecryptCmsMessage
  <2>1. Kept
    BY <1>0, <1>7 DEF DecryptCmsMessage, Kept, TypeOK, PromptsHaveAFile, remembered
  <2>2. HoldsCms(roots, cmsReveal')
    BY <1>7 DEF DecryptCmsMessage, RInv, HoldsCms
  <2>3. /\ roots' = roots /\ decrypted' = decrypted /\ pkcs12' = pkcs12
        /\ author' = author /\ failedUpdate' = failedUpdate
    BY <1>7 DEF DecryptCmsMessage, history
  <2>4. MacFollowsTheEdit'
    BY <2>3, MacIsKept DEF RInv
  <2> QED
    BY <1>0, <2>1, <2>2, <2>3, <2>4, StepKeeps DEF RInv, TypeOK, UpdatesSucceed
<1>8. ASSUME NEW e \in InnerEdits, NEW r \in BOOLEAN, NEW b \in Keys, EditDecrypted(e, r, b)
      PROVE  RInv'
  BY <1>8, EditDecryptedKeeps
<1>9. ASSUME NEW i \in 1 .. 2, NEW e \in InnerEdits, NEW r \in BOOLEAN, NEW b \in Keys,
             EditPkcs12(i, e, r, b)
      PROVE  RInv'
  BY <1>9, EditPkcs12Keeps
<1>10. ASSUME NEW e \in OuterEdits, NEW i \in 1 .. 2, NEW c \in Clear, NEW a \in Schemes,
              EditDocument(e[2], i, c, a)
       PROVE  RInv'
  BY <1>10, EditDocumentKeeps
<1>11. CASE UNCHANGED vars
  <2>1. Kept
    BY <1>0, <1>11 DEF vars, Kept, TypeOK, PromptsHaveAFile, remembered, RInv
  <2> QED
    BY <1>2, <1>11, <2>1 DEF vars
<1> QED
  BY <1>1, <1>3, <1>4, <1>5, <1>6, <1>7, <1>8, <1>9, <1>10, <1>11 DEF Next

(***************************************************************************)
(* Every variable keeps its type through every opening, decryption, edit   *)
(* and re-encryption: what is shown is always a secret under one of the    *)
(* passwords, and the unlocked keys are those of files.                    *)
(***************************************************************************)
THEOREM TypeCorrect == Spec => []TypeOK
<1>1. RInv => TypeOK
  BY DEF RInv
<1> QED
  BY <1>1, InitRInv, StepRInv, PTL DEF Spec

(***************************************************************************)
(* What is shown is what the document holds, whatever the containers and   *)
(* the edits (App::rebuild and its refreshes).                             *)
(***************************************************************************)
THEOREM ShownIsTheContent == Spec => []ShownIsEncrypted
<1>1. Spec => []RInv
  BY InitRInv, StepRInv, PTL DEF Spec
<1> QED
  BY <1>1, RInvShows, PTL

(***************************************************************************)
(* An edit that is offered on revealed content is always written back      *)
(* (App::encrypt_decrypted_tree, App::encrypt_pkcs12_region).              *)
(***************************************************************************)
THEOREM EditsAreWrittenBack == Spec => []UpdatesSucceed
<1>1. RInv => UpdatesSucceed
  BY DEF RInv
<1> QED
  BY <1>1, InitRInv, StepRInv, PTL DEF Spec

(***************************************************************************)
(* The MAC of a container is recomputed over what an edit of its revealed  *)
(* content made of it, and is keyed with a password that opens a region of *)
(* it (App::encrypt_pkcs12_region).                                        *)
(***************************************************************************)
THEOREM MacsFollowEdits == Spec => []MacFollowsTheEdit
<1>1. RInv => MacFollowsTheEdit
  BY DEF RInv
<1> QED
  BY <1>1, InitRInv, StepRInv, PTL DEF Spec

-----------------------------------------------------------------------------
(***************************************************************************)
(* What is shown of a PKCS#12 are some of its regions, in their order.     *)
(***************************************************************************)
PartShown(doc, s) ==
  s # NoReveal => \E at \in SUBSET pbes2At(doc) :
                    at # {} /\ s = revealPkcs12(doc, at, s.password)

PInv == PartShown(roots, pkcs12)

LEMMA RevealedIsPart ==
  ASSUME NEW doc, NEW at \in SUBSET pbes2At(doc), NEW p
  PROVE  PartShown(doc, revealPkcs12(doc, at, p))
<1> DEFINE s == revealPkcs12(doc, at, p)
<1>1. CASE at = {}
  BY <1>1 DEF revealPkcs12, PartShown
<1>2. CASE at # {}
  <2>1. s.password = p
    BY <1>2 DEF revealPkcs12
  <2>2. s = revealPkcs12(doc, at, s.password)
    BY <2>1
  <2> HIDE DEF s
  <2>3. PartShown(doc, s)
    BY <1>2, <2>2 DEF PartShown
  <2> QED
    BY <2>3 DEF s
<1> QED
  BY <1>1, <1>2

LEMMA RefreshedIsPart ==
  ASSUME NEW doc, NEW s
  PROVE  PartShown(doc, refreshPkcs12(doc, s))
<1> DEFINE t == revealPkcs12(doc, pbes2At(doc), s.password)
<1>1. refreshPkcs12(doc, s) = NoReveal \/ refreshPkcs12(doc, s) = t
  BY DEF refreshPkcs12
<1>2. PartShown(doc, t)
  BY RevealedIsPart
<1>3. PartShown(doc, NoReveal)
  BY DEF PartShown
<1> HIDE DEF t
<1> QED
  BY <1>1, <1>2, <1>3

LEMMA StepPInv == RInv /\ PInv /\ [Next]_vars => PInv'
<1> SUFFICES ASSUME RInv, PInv, [Next]_vars PROVE PInv'
  OBVIOUS
<1>1. ASSUME UNCHANGED <<roots, pkcs12>> PROVE PInv'
  BY <1>1 DEF PInv, PartShown
<1>2. ASSUME NEW s, pkcs12' = refreshPkcs12(roots', s) PROVE PInv'
  BY <1>2, RefreshedIsPart DEF PInv
<1>3. ASSUME NEW f \in Files, OpenFile(f) PROVE PInv'
  BY <1>3 DEF OpenFile, PInv, PartShown
<1>4. ASSUME NEW p \in Passwords, SubmitPassword(p) PROVE PInv'
  <2> DEFINE opened == {i \in pbes2At(roots) : decrypts(roots.regions[i], p)}
  <2>1. roots' = roots
    BY <1>4 DEF SubmitPassword
  <2>2. pkcs12' = pkcs12 \/ pkcs12' = revealPkcs12(roots, opened, p)
    BY <1>4 DEF SubmitPassword, SubmitPkcs8, SubmitPkcs12, revealed
  <2>3. opened \in SUBSET pbes2At(roots)
    OBVIOUS
  <2> HIDE DEF opened
  <2> QED
    BY <1>1, <2>1, <2>2, <2>3, RevealedIsPart DEF PInv
<1>5. ASSUME NEW e \in InnerEdits, NEW r \in BOOLEAN, NEW b \in Keys, EditDecrypted(e, r, b)
      PROVE  PInv'
  BY <1>2, <1>5, EditDecryptedKeeps
<1>6. ASSUME NEW k \in 1 .. 2, NEW e \in InnerEdits, NEW r \in BOOLEAN, NEW b \in Keys,
             EditPkcs12(k, e, r, b)
      PROVE  PInv'
  BY <1>2, <1>6, EditPkcs12Keeps
<1>7. ASSUME NEW e \in OuterEdits, NEW i \in 1 .. 2, NEW c \in Clear, NEW a \in Schemes,
             EditDocument(e[2], i, c, a)
      PROVE  PInv'
  BY <1>2, <1>7 DEF EditDocument, rebuildOuter
<1>8. ASSUME Save \/ StartDecrypt \/ Cancel PROVE PInv'
  BY <1>1, <1>8 DEF Save, StartDecrypt, Cancel, revealed
<1>9. CASE DecryptCmsMessage
  BY <1>1, <1>9 DEF DecryptCmsMessage
<1>10. CASE UNCHANGED vars
  BY <1>1, <1>10 DEF vars, revealed
<1> QED
  BY <1>3, <1>4, <1>5, <1>6, <1>7, <1>8, <1>9, <1>10 DEF Next

(***************************************************************************)
(* The k-th position of a part of some positions, and the k-th of them all *)
(***************************************************************************)
LEMMA CountIsMonotonic ==
  ASSUME NEW n \in Nat, NEW I \in SUBSET (1 .. n), NEW i \in 1 .. n, NEW j \in I, i < j
  PROVE  countTo(I, i) < countTo(I, j)
<1> DEFINE low == {x \in I : x <= i}
           high == {x \in I : x <= j}
<1>1. IsFiniteSet(I) /\ I \in SUBSET Nat
  BY PositionsAreFinite
<1>2. low \in SUBSET high /\ j \in high /\ j \notin low /\ high \in SUBSET I
  <2>1. \A x \in I : x \in Nat /\ (x <= i => x <= j)
    OBVIOUS
  <2>2. j <= j /\ ~(j <= i)
    OBVIOUS
  <2> QED
    BY <2>1, <2>2
<1>3. IsFiniteSet(high)
  BY <1>1, <1>2, FS_Subset
<1>4. low # high
  BY <1>2
<1>5. Cardinality(low) <= Cardinality(high) /\ Cardinality(low) # Cardinality(high)
  BY <1>2, <1>3, <1>4, FS_Subset
<1>6. countTo(I, i) = Cardinality(low) /\ countTo(I, j) = Cardinality(high)
  BY DEF countTo
<1>7. Cardinality(low) \in Nat /\ Cardinality(high) \in Nat
  BY <1>2, <1>3, FS_Subset, FS_CardinalityType
<1> HIDE DEF low, high
<1> QED
  BY <1>5, <1>6, <1>7

LEMMA InOrderHitsAll ==
  ASSUME NEW n \in Nat, NEW I \in SUBSET (1 .. n), NEW i \in I
  PROVE  \E k \in DOMAIN inOrder(I) : inOrder(I)[k] = i
<1> DEFINE k == countTo(I, i)
<1>1. IsFiniteSet(I) /\ I \in SUBSET Nat /\ Cardinality(I) \in Nat
  BY PositionsAreFinite
<1>2. k \in Nat /\ k <= Cardinality(I)
  BY <1>1, CountToType
<1>3. k = countTo(I, i - 1) + 1 /\ countTo(I, i - 1) \in Nat
  BY <1>1, CountToGrows, CountToType
<1> HIDE DEF k
<1>4. k \in 1 .. Cardinality(I)
  BY <1>1, <1>2, <1>3
<1>5. nth(I, k) \in I /\ countTo(I, nth(I, k)) = k
  BY <1>4, NthExists
<1>6. ASSUME nth(I, k) < i PROVE FALSE
  <2>1. countTo(I, nth(I, k)) < countTo(I, i)
    BY <1>5, <1>6, CountIsMonotonic
  <2> QED
    BY <1>2, <1>5, <2>1 DEF k
<1>7. ASSUME i < nth(I, k) PROVE FALSE
  <2>1. countTo(I, i) < countTo(I, nth(I, k))
    BY <1>5, <1>7, CountIsMonotonic
  <2> QED
    BY <1>2, <1>5, <2>1 DEF k
<1>8. nth(I, k) = i
  <2>1. nth(I, k) \in Nat /\ i \in Nat
    BY <1>1, <1>5
  <2> QED
    BY <1>6, <1>7, <2>1
<1>9. inOrder(I)[k] = i
  BY <1>4, <1>8 DEF inOrder
<1> QED
  BY <1>4, <1>9, PositionsAreFinite DEF inOrder

(* What lies at the k-th position of all comes before the k-th of the part *)
(* unless they are the same, and then something before it was left out.    *)
LEMMA NthOfAPart ==
  ASSUME NEW n \in Nat, NEW I \in SUBSET (1 .. n), NEW A \in SUBSET I, NEW k \in 1 .. Cardinality(A)
  PROVE  LET j == inOrder(A)[k]
             i == inOrder(I)[k]
         IN /\ j \in A /\ i \in I
            /\ i = j \/ (i < j /\ \E l \in I \ A : l <= i)
<1> DEFINE j == nth(A, k)
           i == nth(I, k)
<1>1. /\ IsFiniteSet(I) /\ I \in SUBSET Nat /\ Cardinality(I) \in Nat
      /\ IsFiniteSet(A) /\ A \in SUBSET Nat /\ Cardinality(A) \in Nat
      /\ Cardinality(A) <= Cardinality(I) /\ A \in SUBSET (1 .. n)
  BY PositionsAreFinite, FS_Subset
<1>2. k \in 1 .. Cardinality(I) /\ k \in Nat
  BY <1>1
<1>3. j \in A /\ countTo(A, j) = k /\ i \in I /\ countTo(I, i) = k
  BY <1>1, <1>2, NthExists
<1>4. inOrder(A)[k] = j /\ inOrder(I)[k] = i
  BY <1>2 DEF inOrder
<1> HIDE DEF i, j
<1>5. ASSUME j < i PROVE FALSE
  <2>1. countTo(I, j) < countTo(I, i)
    BY <1>1, <1>3, <1>5, CountIsMonotonic
  <2>2. countTo(A, j) <= countTo(I, j) /\ countTo(I, j) \in Nat
    <3>1. {x \in A : x <= j} \in SUBSET {x \in I : x <= j}
      OBVIOUS
    <3>2. IsFiniteSet({x \in I : x <= j})
      BY <1>1, FS_Subset
    <3> QED
      BY <3>1, <3>2, FS_Subset, FS_CardinalityType DEF countTo
  <2> QED
    BY <1>2, <1>3, <2>1, <2>2
<1>6. ASSUME i < j PROVE \E l \in I \ A : l <= i
  <2> SUFFICES ASSUME \A l \in I \ A : ~(l <= i) PROVE FALSE
    OBVIOUS
  <2>1. {x \in I : x <= i} = {x \in A : x <= i}
    OBVIOUS
  <2>2. countTo(I, i) = countTo(A, i)
    BY <2>1 DEF countTo
  <2>3. countTo(A, i) < countTo(A, j)
    BY <1>1, <1>3, <1>6, CountIsMonotonic
  <2> QED
    BY <1>2, <1>3, <2>2, <2>3
<1>7. i = j \/ i < j \/ j < i
  <2>1. i \in Nat /\ j \in Nat
    BY <1>1, <1>3
  <2> QED
    BY <2>1
<1> QED
  BY <1>3, <1>4, <1>5, <1>6, <1>7

(***************************************************************************)
(* Where the shown regions are, and where those that are not.              *)
(***************************************************************************)
regionsAt(s) == {s.regions[k].at : k \in DOMAIN s.regions}

LEMMA RevealedAt ==
  ASSUME NEW doc \in Container, NEW at \in SUBSET pbes2At(doc), at # {}, NEW p
  PROVE  LET s == revealPkcs12(doc, at, p) IN
         /\ regionsAt(s) = at
         /\ DOMAIN s.regions = 1 .. Cardinality(at)
         /\ \A k \in DOMAIN s.regions : s.regions[k].at = inOrder(at)[k]
<1> DEFINE c == Cardinality(at)
           o == inOrder(at)
           rs == [k \in 1 .. c |-> revealRegion(doc, o[k])]
           s == revealPkcs12(doc, at, p)
<1>1. at \in SUBSET (1 .. Len(doc.regions)) /\ Len(doc.regions) \in Nat
  BY Pbes2AtIs, RegionsAre
<1>2. /\ DOMAIN o = 1 .. c /\ \A k \in DOMAIN o : o[k] \in at
      /\ \A i \in at : \E k \in DOMAIN o : o[k] = i
  BY <1>1, InOrderIs, InOrderHitsAll
<1>3. s.regions = rs
  BY DEF revealPkcs12
<1> HIDE DEF c, o, s
<1>4. DOMAIN rs = 1 .. c /\ \A k \in 1 .. c : rs[k].at = o[k]
  BY DEF revealRegion
<1> HIDE DEF rs
<1>5. regionsAt(s) = at
  BY <1>2, <1>3, <1>4 DEF regionsAt
<1> QED
  BY <1>3, <1>4, <1>5 DEF c, o, s

(* Whoever is revealed again is revealed whole.                            *)
LEMMA RefreshedLeavesNone ==
  ASSUME NEW doc \in Container, NEW s, refreshPkcs12(doc, s) # NoReveal
  PROVE  regionsAt(refreshPkcs12(doc, s)) = pbes2At(doc)
<1> DEFINE t == revealPkcs12(doc, pbes2At(doc), s.password)
<1>1. refreshPkcs12(doc, s) = t
  BY DEF refreshPkcs12
<1>2. pbes2At(doc) # {}
  BY <1>1 DEF revealPkcs12
<1>3. regionsAt(t) = pbes2At(doc)
  BY <1>2, RevealedAt
<1> QED
  BY <1>1, <1>3

LEMMA NoneIsLocked ==
  ASSUME roots' \in Container, NEW s, pkcs12' = refreshPkcs12(roots', s)
  PROVE  lockedAt' = {}
<1>1. CASE pkcs12' = NoReveal
  BY <1>1 DEF lockedAt
<1>2. CASE pkcs12' # NoReveal
  <2>1. regionsAt(pkcs12') = pbes2At(roots')
    BY <1>2, RefreshedLeavesNone
  <2>2. regionsAt(pkcs12') \subseteq shownAt'
    BY <1>2 DEF shownAt, regionsAt
  <2>3. lockedAt' = pbes2At(roots') \ shownAt'
    BY <1>2 DEF lockedAt, pbes2At
  <2> QED
    BY <2>1, <2>2, <2>3
<1> QED
  BY <1>1, <1>2

(***************************************************************************)
(* A container is a Vault.                                                 *)
(***************************************************************************)
secretsOf(doc) == [i \in DOMAIN doc.regions |-> doc.regions[i].cipher.plain]

LEMMA SecretsAre ==
  ASSUME NEW doc \in Container
  PROVE  secretsOf(doc) \in Seq(Secret) /\ DOMAIN secretsOf(doc) = DOMAIN doc.regions
<1>1. secretsOf(doc) \in [1 .. Len(doc.regions) -> Secret] /\ Len(doc.regions) \in Nat
  BY RegionsAre, SecretOfRegion DEF secretsOf
<1> QED
  BY <1>1 DEF secretsOf

LEMMA SecretsReplaced ==
  ASSUME NEW doc \in Container, NEW i \in DOMAIN doc.regions, NEW r \in Region
  PROVE  secretsOf(replaced(doc, i, r)) = [secretsOf(doc) EXCEPT ![i] = r.cipher.plain]
<1> DEFINE new == replaced(doc, i, r)
<1>1. /\ DOMAIN new.regions = DOMAIN doc.regions /\ new.regions[i] = r
      /\ \A j \in DOMAIN doc.regions : j # i => new.regions[j] = doc.regions[j]
  BY ReplacedIs
<1> HIDE DEF new
<1>2. \A j \in DOMAIN doc.regions :
        new.regions[j].cipher.plain
          = IF j = i THEN r.cipher.plain ELSE doc.regions[j].cipher.plain
  BY <1>1
<1>3. secretsOf(new) = [secretsOf(doc) EXCEPT ![i] = r.cipher.plain]
  BY <1>1, <1>2 DEF secretsOf
<1> QED
  BY <1>3 DEF new

LEMMA ShownInDomain ==
  ASSUME RInv
  PROVE  shownAt \subseteq DOMAIN secretsOf(roots)
<1>1. roots \in Container
  BY RInvType
<1>2. decrypted # NoReveal => 1 \in DOMAIN roots.regions
  BY <1>1, RegionsAre DEF RInv, HoldsPkcs8, pkcs8Parse
<1>3. pkcs12 # NoReveal => \A k \in DOMAIN pkcs12.regions : pkcs12.regions[k].at \in DOMAIN roots.regions
  BY DEF RInv, HoldsPkcs12, pbes2At
<1>4. cmsReveal # NoReveal => 1 \in DOMAIN roots.regions
  BY <1>1, RegionsAre DEF RInv, HoldsCms, findEnveloped
<1> QED
  BY <1>2, <1>3, <1>4 DEF shownAt, secretsOf

fits == macFits

LEMMA InitIsVault == Init => V!Init
<1> SUFFICES ASSUME Init PROVE V!Init
  OBVIOUS
<1>1. roots \in Container /\ secretsOf(roots) \in Seq(Secret)
  BY InitRInv, RInvType, SecretsAre
<1>2. shownAt = {} /\ lockedAt = {} /\ macFits \in BOOLEAN
  BY DEF Init, shownAt, lockedAt, macFits
<1> QED
  BY <1>1, <1>2 DEF Init, V!Init, secretsOf

LEMMA NextIsVault ==
  RInv /\ PInv /\ RInv' /\ [Next]_vars => [V!Next]_(V!vars)
<1> SUFFICES ASSUME RInv, PInv, RInv', [Next]_vars
             PROVE  V!Next \/ UNCHANGED V!vars
  OBVIOUS
<1>0. /\ roots \in Container /\ roots' \in Container
      /\ secretsOf(roots') \in Seq(Secret) /\ fits' \in BOOLEAN
      /\ shownAt \subseteq DOMAIN secretsOf(roots)
      /\ shownAt' \subseteq DOMAIN secretsOf(roots')
      /\ lockedAt' \subseteq DOMAIN secretsOf(roots') \ shownAt'
  <2>1. roots \in Container /\ shownAt \subseteq DOMAIN secretsOf(roots)
    BY RInvType, ShownInDomain
  <2>2. roots' \in Container
    BY DEF RInv, TypeOK
  <2>3. (RInv => shownAt \subseteq DOMAIN secretsOf(roots))'
    BY ShownInDomain, PTL
  <2>4. secretsOf(roots') \in Seq(Secret)
    BY <2>2, SecretsAre
  <2>5. fits' \in BOOLEAN
    BY DEF fits, macFits
  <2>6. lockedAt' \subseteq DOMAIN secretsOf(roots') \ shownAt'
    BY DEF lockedAt, pbes2At, secretsOf
  <2> QED
    BY <2>1, <2>2, <2>3, <2>4, <2>5, <2>6
<1>1. ASSUME UNCHANGED <<roots, author>> PROVE V!Show
  <2>1. secretsOf(roots') = secretsOf(roots) /\ fits' = fits /\ author' = author
    BY <1>1 DEF secretsOf, fits, macFits, authSafe
  <2> QED
    BY <1>0, <2>1 DEF V!Show, secretsOf, fits
<1>2. ASSUME NEW f \in Files, OpenFile(f) PROVE V!Switch
  <2>1. shownAt' = {} /\ lockedAt' = {} /\ author' = "nobody"
    BY <1>2 DEF OpenFile, shownAt, lockedAt
  <2> QED
    BY <1>0, <2>1 DEF V!Switch, secretsOf, fits
<1>3. ASSUME NEW e \in InnerEdits, NEW r \in BOOLEAN, NEW b \in Keys, EditDecrypted(e, r, b)
      PROVE  \E j \in shownAt, i \in DOMAIN secretsOf(roots), s \in Secret : V!EditShown(j, i, s)
  <2>1. PICK c \in Region : roots' = replaced(roots, 1, c)
    BY <1>3, EditDecryptedKeeps
  <2>2. 1 \in shownAt /\ 1 \in DOMAIN roots.regions /\ author' = "inside"
    BY <1>3, EditDecryptedKeeps DEF shownAt
  <2>3. c.cipher.plain \in Secret
    BY DEF Region, Cipher
  <2>4. secretsOf(roots') = [secretsOf(roots) EXCEPT ![1] = c.cipher.plain]
    BY <1>0, <2>1, <2>2, SecretsReplaced
  <2>5. fits'
    BY <2>2 DEF RInv, MacFollowsTheEdit, fits, macFits
  <2>7. lockedAt' = {}
    BY <1>0, <1>3, EditDecryptedKeeps, NoneIsLocked
  <2>6. V!EditShown(1, 1, c.cipher.plain)
    BY <1>0, <2>2, <2>4, <2>5, <2>7 DEF V!EditShown, V!hits, secretsOf, fits
  <2> QED
    BY <2>2, <2>3, <2>6 DEF secretsOf
<1>4. ASSUME NEW k \in 1 .. 2, NEW e \in InnerEdits, NEW r \in BOOLEAN, NEW b \in Keys,
             EditPkcs12(k, e, r, b)
      PROVE  \E j \in shownAt, i \in DOMAIN secretsOf(roots), s \in Secret : V!EditShown(j, i, s)
  <2> DEFINE at == pbes2Regions(roots)[k]
             p == pkcs12.password
  <2>1. /\ pkcs12 # NoReveal /\ p \in Passwords /\ at \in DOMAIN roots.regions
        /\ author' = "inside" /\ k \in DOMAIN pkcs12.regions
    BY <1>4, EditPkcs12Keeps
  <2>2. PICK c \in Region :
          LET mid == replaced(roots, at, c) IN roots' = macOver(mid, p, mid)
    BY <1>4, EditPkcs12Keeps
  <2>3. c.cipher.plain \in Secret
    BY DEF Region, Cipher
  <2>4. PICK j \in shownAt : at \in shownAt \cup lockedAt /\ V!hits(j, at)
    <3>1. PICK A \in SUBSET pbes2At(roots) :
            A # {} /\ pkcs12 = revealPkcs12(roots, A, p)
      BY <2>1 DEF PInv, PartShown
    <3> DEFINE j == inOrder(A)[k]
    <3> HIDE DEF p
    <3>2. /\ regionsAt(pkcs12) = A /\ k \in 1 .. Cardinality(A)
          /\ pkcs12.regions[k].at = j
      <4> DEFINE s == revealPkcs12(roots, A, p)
      <4>1. /\ regionsAt(s) = A /\ DOMAIN s.regions = 1 .. Cardinality(A)
            /\ \A x \in DOMAIN s.regions : s.regions[x].at = inOrder(A)[x]
        <5> HIDE DEF j, at
        <5>1. roots \in Container /\ A \in SUBSET pbes2At(roots) /\ A # {}
          BY <1>0, <3>1
        <5> QED
          BY ONLY <5>1, RevealedAt
      <4>2. pkcs12 = s
        BY <3>1
      <4> HIDE DEF s
      <4> QED
        BY <2>1, <4>1, <4>2
    <3>3. pbes2At(roots) \in SUBSET (1 .. Len(roots.regions)) /\ Len(roots.regions) \in Nat
      BY <1>0, Pbes2AtIs, RegionsAre
    <3>4. /\ j \in A /\ at \in pbes2At(roots)
          /\ at = j \/ (j > at /\ \E l \in pbes2At(roots) \ A : l <= at)
      <4> DEFINE S == pbes2At(roots)
      <4>1. /\ inOrder(A)[k] \in A /\ inOrder(S)[k] \in S
            /\ \/ inOrder(S)[k] = inOrder(A)[k]
               \/ inOrder(S)[k] < inOrder(A)[k] /\ \E l \in S \ A : l <= inOrder(S)[k]
        <5> HIDE DEF S
        <5>1. S \in SUBSET (1 .. Len(roots.regions)) /\ A \in SUBSET S
          BY <3>3 DEF S
        <5> QED
          BY <3>2, <3>3, <5>1, NthOfAPart
      <4> QED
        BY <4>1 DEF pbes2Regions
    <3>5. shownAt = A /\ lockedAt = pbes2At(roots) \ A
      <4>1. decrypted = NoReveal /\ cmsReveal = NoReveal
        BY <2>1 DEF RInv, HoldsPkcs12, HoldsPkcs8, HoldsCms, pkcs8Parse, findEnveloped
      <4> QED
        BY <2>1, <3>2, <4>1 DEF shownAt, lockedAt, regionsAt
    <3>6. \/ at = j
          \/ at < j /\ \E l \in lockedAt : l <= at
      <4>1. at \in Nat /\ j \in Nat
        BY <3>3, <3>4
      <4> HIDE DEF at, j
      <4> QED
        BY <3>4, <3>5, <4>1
    <3> QED
      BY <3>4, <3>5, <3>6 DEF V!hits
  <2> HIDE DEF at, p
  <2>5. secretsOf(roots') = [secretsOf(roots) EXCEPT ![at] = c.cipher.plain]
    <3> DEFINE mid == replaced(roots, at, c)
    <3>1. mid \in Container
      BY <1>0, <2>1, ReplacedIs
    <3>2. secretsOf(roots') = secretsOf(mid)
      BY <2>1, <2>2, <3>1, MacOverIs DEF secretsOf
    <3> QED
      BY <1>0, <2>1, <3>2, SecretsReplaced
  <2>6. fits'
    BY <2>1 DEF RInv, MacFollowsTheEdit, fits, macFits
  <2>8. lockedAt' = {}
    BY <1>0, <1>4, EditPkcs12Keeps, NoneIsLocked
  <2>7. V!EditShown(j, at, c.cipher.plain)
    BY <1>0, <2>1, <2>4, <2>5, <2>6, <2>8 DEF V!EditShown, secretsOf, fits
  <2> QED
    BY <2>1, <2>3, <2>4, <2>7 DEF secretsOf
<1>5. ASSUME NEW e \in OuterEdits, NEW i \in 1 .. 2, NEW c \in Clear, NEW a \in Schemes,
             EditDocument(e[2], i, c, a)
      PROVE  V!EditAround
  <2>1. author' = "outside" /\ pkcs12' = refreshPkcs12(roots', pkcs12)
    BY <1>5 DEF EditDocument, rebuildOuter
  <2>2. lockedAt' = {}
    BY <1>0, <2>1, NoneIsLocked
  <2> QED
    BY <1>0, <2>1, <2>2 DEF V!EditAround, secretsOf, fits
<1>6. ASSUME Save \/ StartDecrypt \/ Cancel \/ DecryptCmsMessage
             \/ (\E p \in Passwords : SubmitPassword(p)) \/ UNCHANGED vars
      PROVE  UNCHANGED <<roots, author>>
  BY <1>6 DEF Save, StartDecrypt, Cancel, DecryptCmsMessage, SubmitPassword, vars, history
<1> QED
  BY <1>1, <1>2, <1>3, <1>4, <1>5, <1>6 DEF Next, V!Next, V!vars, secretsOf, fits

(***************************************************************************)
(* An edit of revealed content changes one secret, in place: the one that  *)
(* is shown, or, where a password opens a part of a container only, one    *)
(* left locked before it; it leaves a MAC that fits, and all of the        *)
(* container is then shown or nothing.  Whatever else happens changes no   *)
(* secret, or is an edit of the serialized document (App::rebuild).        *)
(***************************************************************************)
THEOREM RevealsAVault == Spec => IsAVault
<1>1. Init => RInv /\ PInv
  BY InitRInv DEF Init, PInv, PartShown
<1>2. (RInv /\ PInv) /\ [Next]_vars => (RInv /\ PInv)'
  BY StepRInv, StepPInv
<1>3. RInv /\ PInv /\ RInv' /\ [Next]_vars => [V!Next]_(V!vars)
  BY NextIsVault
<1> QED
  BY <1>1, <1>2, <1>3, InitIsVault, PTL DEF Spec, IsAVault, V!Spec
=============================================================================
