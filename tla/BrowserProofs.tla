---------------------------- MODULE BrowserProofs ----------------------------
(***************************************************************************)
(* Proofs about module Browser, for every legal tree of paths and every    *)
(* number of changes on disk.                                              *)
(***************************************************************************)
EXTENDS Browser, Integers, FiniteSetTheorems, WellFoundedInduction,
        SequenceTheorems, TLAPS

(* Every nonempty set of naturals has a least element.                     *)
LEMMA LeastNatural ==
  ASSUME NEW S \in SUBSET Nat, S # {}
  PROVE  \E m \in S : \A n \in S : m <= n
<1> DEFINE R == OpToRel(<, Nat)
<1>1. IsWellFoundedOn(R, Nat)
  BY NatLessThanWellFounded
<1>2. R = {ss \in Nat \X Nat : ss[1] < ss[2]}
  BY DEF OpToRel
<1> HIDE DEF R
<1>3. PICK m \in S : \A y \in S : ~(<<y, m>> \in R)
  BY <1>1, WFMin
<1>4. \A y \in S : ~(y < m)
  BY <1>2, <1>3
<1> QED
  BY <1>4

-----------------------------------------------------------------------------
(***************************************************************************)
(* The way down to a path: a parent has a smaller number than its          *)
(* children, so that the recursion of descent is well-founded.             *)
(***************************************************************************)
step(g, p) == IF Parent[p] = Root THEN <<p>> ELSE Append(g[Parent[p]], p)
upTo(n) == {p \in Paths : p <= n}
partial(n) == {g \in [upTo(n) -> Seq(Paths)] : \A p \in upTo(n) : g[p] = step(g, p)}

LEMMA ParentIsBefore ==
  ASSUME NEW p \in Paths
  PROVE  /\ p \in Nat /\ p > 0
         /\ Parent[p] = Root \/ (Parent[p] \in Paths /\ Parent[p] < p)
BY TreeIsSound DEF Root

LEMMA PartialExists ==
  ASSUME NEW n \in Nat PROVE partial(n) # {}
<1> DEFINE Bad == {m \in Nat : partial(m) = {}}
<1> SUFFICES ASSUME Bad # {} PROVE FALSE
  OBVIOUS
<1>1. PICK m \in Bad : \A k \in Bad : m <= k
  BY LeastNatural
<1>2. CASE m = 0
  <2>1. upTo(m) = {}
    BY <1>2, ParentIsBefore DEF upTo
  <2>2. [p \in upTo(m) |-> <<>>] \in partial(m)
    BY <2>1 DEF partial
  <2> QED
    BY <2>2
<1>3. CASE m # 0
  <2>1. m - 1 \in Nat /\ m - 1 \notin Bad
    BY <1>1, <1>3
  <2>2. PICK g : g \in partial(m - 1)
    BY <2>1
  <2> DEFINE h == [p \in upTo(m) |-> step(g, p)]
  <2>3. ASSUME NEW p \in upTo(m), Parent[p] # Root
        PROVE  /\ Parent[p] \in upTo(m - 1) /\ Parent[p] \in upTo(m)
               /\ h[Parent[p]] = g[Parent[p]]
               /\ g[Parent[p]] \in Seq(Paths)
    <3>1. p \in Paths /\ p \in Nat /\ p <= m /\ m \in Nat
      BY <1>1, ParentIsBefore DEF upTo
    <3>2. Parent[p] \in Paths /\ Parent[p] \in Nat /\ Parent[p] < p
      BY <2>3, <3>1, ParentIsBefore
    <3>3. Parent[p] \in upTo(m - 1) /\ Parent[p] \in upTo(m)
      BY <3>1, <3>2 DEF upTo
    <3>4. g \in [upTo(m - 1) -> Seq(Paths)] /\ g[Parent[p]] = step(g, Parent[p])
      BY <2>2, <3>3 DEF partial
    <3> QED
      BY <3>3, <3>4
  <2>4. ASSUME NEW p \in upTo(m) PROVE h[p] \in Seq(Paths)
    <3>1. h[p] = step(g, p) /\ p \in Paths
      BY DEF upTo
    <3>2. CASE Parent[p] = Root
      <4>1. h[p] = <<p>>
        BY <3>1, <3>2 DEF step
      <4>2. <<p>> \in Seq(Paths)
        BY <3>1
      <4> QED
        BY <4>1, <4>2
    <3>3. CASE Parent[p] # Root
      <4>1. h[p] = Append(g[Parent[p]], p)
        BY <3>1, <3>3 DEF step
      <4>2. g[Parent[p]] \in Seq(Paths)
        BY <2>3, <3>3
      <4>3. Append(g[Parent[p]], p) \in Seq(Paths)
        BY <3>1, <4>2, AppendProperties
      <4> QED
        BY <4>1, <4>3
    <3> QED
      BY <3>2, <3>3
  <2>5. \A p \in upTo(m) : h[p] = step(h, p)
    BY <2>3 DEF step
  <2>6. h \in partial(m)
    BY <2>4, <2>5 DEF partial
  <2> QED
    BY <2>6
<1> QED
  BY <1>2, <1>3

LEMMA PartialsAgree ==
  ASSUME NEW n \in Nat, NEW m \in Nat, NEW g \in partial(n), NEW h \in partial(m),
         NEW p \in upTo(n), p \in upTo(m)
  PROVE  g[p] = h[p]
<1> DEFINE Bad == {q \in upTo(n) \cap upTo(m) : g[q] # h[q]}
<1> SUFFICES ASSUME Bad # {} PROVE FALSE
  OBVIOUS
<1>1. Bad \in SUBSET Nat
  BY ParentIsBefore DEF upTo
<1>2. PICK q \in Bad : \A k \in Bad : q <= k
  BY <1>1, LeastNatural
<1>3. g[q] = step(g, q) /\ h[q] = step(h, q)
  BY <1>2 DEF partial
<1>4. Parent[q] # Root
  BY <1>2, <1>3 DEF step
<1>5. Parent[q] \in upTo(n) \cap upTo(m) /\ Parent[q] < q /\ Parent[q] \in Nat /\ q \in Nat
  BY <1>2, <1>4, ParentIsBefore DEF upTo
<1>6. g[Parent[q]] = h[Parent[q]]
  BY <1>2, <1>5
<1> QED
  BY <1>2, <1>3, <1>6 DEF step

LEMMA DescentIsDefined == descent = [p \in Paths |-> step(descent, p)]
<1> DEFINE whole == [p \in Paths |-> (CHOOSE g : g \in partial(p))[p]]
<1>1. ASSUME NEW p \in Paths PROVE whole[p] = step(whole, p)
  <2>1. PICK g : g \in partial(p) /\ whole[p] = g[p]
    BY PartialExists, ParentIsBefore
  <2>2. g[p] = step(g, p)
    <3>1. p \in upTo(p)
      BY ParentIsBefore DEF upTo
    <3> QED
      BY <2>1, <3>1 DEF partial
  <2>3. CASE Parent[p] # Root
    <3>1. PICK h : h \in partial(Parent[p]) /\ whole[Parent[p]] = h[Parent[p]]
      BY <2>3, PartialExists, ParentIsBefore
    <3>2. h[Parent[p]] = g[Parent[p]]
      BY <2>1, <2>3, <3>1, PartialsAgree, ParentIsBefore DEF upTo
    <3> QED
      BY <2>1, <2>2, <3>1, <3>2 DEF step
  <2> QED
    BY <2>1, <2>2, <2>3 DEF step
<1>2. whole = [p \in Paths |-> step(whole, p)]
  BY <1>1
<1> HIDE DEF whole
<1>3. \E f : f = [p \in Paths |-> IF Parent[p] = Root THEN <<p>> ELSE Append(f[Parent[p]], p)]
  BY <1>2 DEF step
<1> QED
  BY <1>3 DEF descent, step

LEMMA DescentType ==
  ASSUME NEW p \in Paths PROVE descent[p] \in Seq(Paths) /\ descent[p] # <<>>
<1> DEFINE Bad == {q \in Paths : ~(descent[q] \in Seq(Paths) /\ descent[q] # <<>>)}
<1> SUFFICES ASSUME Bad # {} PROVE FALSE
  OBVIOUS
<1>1. Bad \in SUBSET Nat
  BY ParentIsBefore
<1>2. PICK q \in Bad : \A k \in Bad : q <= k
  BY <1>1, LeastNatural
<1>3. descent[q] = step(descent, q)
  BY <1>2, DescentIsDefined
<1>4. Parent[q] # Root
  <2>1. <<q>> \in Seq(Paths) /\ <<q>> # <<>>
    BY <1>2
  <2> QED
    BY <1>2, <1>3, <2>1 DEF step
<1>5. Parent[q] \in Paths /\ Parent[q] \in Nat /\ q \in Nat /\ Parent[q] < q
  BY <1>2, <1>4, ParentIsBefore
<1>6. Parent[q] \notin Bad
  BY <1>2, <1>5
<1>7. descent[Parent[q]] \in Seq(Paths)
  BY <1>5, <1>6
<1>8. Append(descent[Parent[q]], q) \in Seq(Paths) /\ Append(descent[Parent[q]], q) # <<>>
  BY <1>2, <1>7, AppendProperties
<1> QED
  BY <1>2, <1>3, <1>4, <1>8 DEF step

(* What is above a path is a set of paths, empty at the top.               *)
LEMMA AboveType ==
  ASSUME NEW p \in Paths
  PROVE  /\ above[p] \subseteq Paths
         /\ Parent[p] = Root => above[p] = {}
<1>1. descent[p] \in Seq(Paths) /\ descent[p] # <<>>
  BY DescentType
<1>2. above[p] = {Front(descent[p])[i] : i \in DOMAIN Front(descent[p])}
  BY DEF above, ToSet
<1>3. /\ Front(descent[p]) \in Seq(Paths)
      /\ Len(Front(descent[p])) = Len(descent[p]) - 1
  BY <1>1 DEF Front
<1>4. above[p] \subseteq Paths
  BY <1>2, <1>3
<1>5. ASSUME Parent[p] = Root PROVE above[p] = {}
  <2>1. descent[p] = <<p>>
    BY <1>5, DescentIsDefined DEF step
  <2>2. DOMAIN Front(descent[p]) = {}
    BY <1>3, <2>1
  <2> QED
    BY <1>2, <2>2
<1> QED
  BY <1>4, <1>5
-----------------------------------------------------------------------------
(***************************************************************************)
(* The invariant.  What a refresh compares are statuses and times.  That   *)
(* these tell every change, also one of kind, is because a time is never   *)
(* used twice: an entry whose time is that of the disk was made from what  *)
(* the disk holds, and so was an index.                                    *)
(***************************************************************************)
top == {p \in Paths : Parent[p] = Root}

DiskTypes ==
  /\ disk \in Disks /\ initial \in Disks /\ scanned \in Disks
  /\ clock \in 1 .. MaxTime

Ages ==
  \A p \in Paths :
    disk[p].mtime <= clock /\ scanned[p].mtime <= clock /\ initial[p].mtime <= 1

TimesTell ==
  \A p \in Paths :
    /\ disk[p].mtime = 1 => disk[p] = initial[p]
    /\ disk[p].mtime = scanned[p].mtime => disk[p] = scanned[p]

(* An entry of a tree t is told by its status and time.                    *)
Told(t, p) ==
  /\ t[p].changedAt <= clock
  /\ t[p].status = "Unchanged" => t[p].isDir = initial[p].isDir
  /\ t[p].status \in {"New", "Modified"} =>
       /\ t[p].changedAt # 0
       /\ disk[p].mtime = t[p].changedAt => t[p].isDir = disk[p].isDir

AllTold(t) == t \in [Paths -> Entries] /\ \A p \in Paths : Told(t, p)

(* An index with files s belongs to a tree t.                              *)
Indexed(t, s) ==
  \A p \in top :
    IF s[p] = Absent THEN t[p].status \in {"Unlisted", "Deleted"}
    ELSE IF initial[p] = Absent THEN t[p].status = "New" /\ t[p].changedAt = s[p].mtime
    ELSE IF s[p].mtime > initial[p].mtime
         THEN t[p].status = "Modified" /\ t[p].changedAt = s[p].mtime
    ELSE t[p].status = "Unchanged" /\ t[p].changedAt = 0

BInv ==
  /\ DiskTypes /\ Ages /\ TimesTell
  /\ AllTold(tree) /\ Indexed(tree, scanned)
  /\ RowsShowTheTree

(* An entry of a file that does exist.                                     *)
LEMMA DiskEntry ==
  ASSUME NEW d \in Disks, NEW p \in Paths
  PROVE  /\ d[p].isDir \in BOOLEAN /\ d[p].mtime \in 0 .. MaxTime
         /\ d[p] = [isDir |-> d[p].isDir, mtime |-> d[p].mtime]
         /\ d[p] = Absent <=> d[p].mtime = 0
<1>1. d[p] = Absent \/ d[p] \in [isDir : BOOLEAN, mtime : 1 .. MaxTime]
  BY DEF Disks
<1>2. MaxTime \in Nat
  BY TreeIsSound
<1>3. CASE d[p] = Absent
  BY <1>2, <1>3 DEF Absent
<1>4. CASE d[p] \in [isDir : BOOLEAN, mtime : 1 .. MaxTime]
  BY <1>2, <1>4 DEF Absent
<1> QED
  BY <1>1, <1>3, <1>4

LEMMA TimeType ==
  ASSUME DiskTypes, NEW p \in Paths
  PROVE  /\ disk[p].mtime \in 0 .. MaxTime /\ disk[p].isDir \in BOOLEAN
         /\ initial[p].mtime \in 0 .. MaxTime /\ scanned[p].mtime \in 0 .. MaxTime
         /\ disk[p] = Absent <=> disk[p].mtime = 0
         /\ initial[p] = Absent <=> initial[p].mtime = 0
         /\ scanned[p] = Absent <=> scanned[p].mtime = 0
         /\ MaxTime \in Nat
<1>1. disk \in Disks /\ initial \in Disks /\ scanned \in Disks
  BY DEF DiskTypes
<1>2. /\ disk[p].mtime \in 0 .. MaxTime /\ disk[p].isDir \in BOOLEAN
      /\ disk[p] = Absent <=> disk[p].mtime = 0
  BY <1>1, DiskEntry
<1>3. initial[p].mtime \in 0 .. MaxTime /\ (initial[p] = Absent <=> initial[p].mtime = 0)
  BY <1>1, DiskEntry
<1>4. scanned[p].mtime \in 0 .. MaxTime /\ (scanned[p] = Absent <=> scanned[p].mtime = 0)
  BY <1>1, DiskEntry
<1> QED
  BY <1>2, <1>3, <1>4, TreeIsSound

(* What retag makes of an entry.                                           *)
LEMMA RetagIs ==
  ASSUME DiskTypes, Ages, TimesTell, NEW p \in Paths, exists(p), NEW e \in Entries
  PROVE  LET r == retag(p, e) IN
         /\ r \in Entries
         /\ r.isDir = disk[p].isDir /\ r.loaded = e.loaded /\ r.expanded = e.expanded
         /\ \/ /\ initial[p] = Absent
               /\ r.status = "New" /\ r.changedAt = disk[p].mtime
            \/ /\ initial[p] # Absent /\ disk[p].mtime > initial[p].mtime
               /\ r.status = "Modified" /\ r.changedAt = disk[p].mtime
            \/ /\ initial[p] # Absent /\ disk[p].mtime = 1 /\ disk[p] = initial[p]
               /\ r.status = "Unchanged" /\ r.changedAt = 0
<1> DEFINE c == classify(p)
           r == retag(p, e)
<1>1. /\ disk[p].isDir \in BOOLEAN /\ disk[p].mtime \in 1 .. MaxTime
      /\ initial[p].mtime \in Nat /\ initial[p].mtime <= 1
      /\ initial[p] = Absent <=> initial[p].mtime = 0
  BY TimeType DEF Ages, exists
<1>2. disk[p].mtime = 1 => disk[p] = initial[p]
  BY DEF TimesTell
<1>3. PICK st \in {"Unlisted", "Unchanged", "New", "Modified", "Deleted"}, at \in 0 .. MaxTime,
           d \in BOOLEAN, x \in BOOLEAN, l \in BOOLEAN :
        e = [status |-> st, changedAt |-> at, isDir |-> d, expanded |-> x, loaded |-> l]
  BY DEF Entries
<1>4. r = [status |-> c.status, changedAt |-> c.changedAt, isDir |-> disk[p].isDir,
           expanded |-> x, loaded |-> l]
  <2> DEFINE e1 == [e EXCEPT !.status = c.status]
             e2 == [e1 EXCEPT !.changedAt = c.changedAt]
             e3 == [e2 EXCEPT !.isDir = disk[p].isDir]
  <2>1. r = e3
    BY Zenon DEF retag
  <2>2. e1 = [status |-> c.status, changedAt |-> at, isDir |-> d, expanded |-> x, loaded |-> l]
    BY <1>3
  <2> HIDE DEF e1
  <2>3. e2 = [status |-> c.status, changedAt |-> c.changedAt, isDir |-> d,
              expanded |-> x, loaded |-> l]
    BY <2>2
  <2> HIDE DEF e2
  <2>4. e3 = [status |-> c.status, changedAt |-> c.changedAt, isDir |-> disk[p].isDir,
              expanded |-> x, loaded |-> l]
    BY <2>3
  <2> QED
    BY <2>1, <2>4
<1>5. \/ /\ initial[p] = Absent
         /\ c.status = "New" /\ c.changedAt = disk[p].mtime
      \/ /\ initial[p] # Absent /\ disk[p].mtime > initial[p].mtime
         /\ c.status = "Modified" /\ c.changedAt = disk[p].mtime
      \/ /\ initial[p] # Absent /\ disk[p].mtime = 1 /\ disk[p] = initial[p]
         /\ c.status = "Unchanged" /\ c.changedAt = 0
  BY <1>1, <1>2 DEF classify
<1> HIDE DEF c
<1>6. c.changedAt \in 0 .. MaxTime /\ c.status \in {"Unchanged", "New", "Modified"}
  BY <1>1, <1>5, TreeIsSound
<1>7. r \in Entries
  BY <1>1, <1>4, <1>6 DEF Entries
<1> QED
  BY <1>3, <1>4, <1>5, <1>7
LEMMA RetagFields ==
  ASSUME DiskTypes, Ages, TimesTell, NEW p \in Paths, exists(p), NEW e \in Entries
  PROVE  /\ retag(p, e).status = classify(p).status
         /\ retag(p, e).changedAt = classify(p).changedAt
<1> DEFINE r == retag(p, e)
<1>1. \/ /\ initial[p] = Absent
         /\ r.status = "New" /\ r.changedAt = disk[p].mtime
      \/ /\ initial[p] # Absent /\ disk[p].mtime > initial[p].mtime
         /\ r.status = "Modified" /\ r.changedAt = disk[p].mtime
      \/ /\ initial[p] # Absent /\ disk[p] = initial[p]
         /\ r.status = "Unchanged" /\ r.changedAt = 0
  BY RetagIs
<1>2. disk[p] = initial[p] => ~(disk[p].mtime > initial[p].mtime)
  BY TimeType
<1> HIDE DEF r
<1> QED
  BY <1>1, <1>2 DEF classify, r

(* The other ways in which an entry is brought up to date.                 *)
LEMMA DeletedIs ==
  ASSUME NEW e \in Entries
  PROVE  LET d == [e EXCEPT !.status = "Deleted", !.changedAt = 0] IN
         /\ d \in Entries
         /\ d.status = "Deleted" /\ d.changedAt = 0
         /\ d.isDir = e.isDir /\ d.loaded = e.loaded /\ d.expanded = e.expanded
         /\ e.status = "Deleted" /\ e.changedAt = 0 => d = e
<1> DEFINE d == [e EXCEPT !.status = "Deleted", !.changedAt = 0]
           e1 == [e EXCEPT !.status = "Deleted"]
           e2 == [e1 EXCEPT !.changedAt = 0]
<1>1. PICK st \in {"Unlisted", "Unchanged", "New", "Modified", "Deleted"}, at \in 0 .. MaxTime,
           f \in BOOLEAN, x \in BOOLEAN, l \in BOOLEAN :
        e = [status |-> st, changedAt |-> at, isDir |-> f, expanded |-> x, loaded |-> l]
  BY DEF Entries
<1>2. d = e2
  BY Zenon
<1>3. e1 = [status |-> "Deleted", changedAt |-> at, isDir |-> f, expanded |-> x, loaded |-> l]
  BY <1>1
<1> HIDE DEF e1
<1>4. e2 = [status |-> "Deleted", changedAt |-> 0, isDir |-> f, expanded |-> x, loaded |-> l]
  BY <1>3
<1>5. d = [status |-> "Deleted", changedAt |-> 0, isDir |-> f, expanded |-> x, loaded |-> l]
  BY <1>2, <1>4
<1> HIDE DEF d
<1>6. d \in Entries
  BY <1>5, TreeIsSound DEF Entries
<1> QED
  BY <1>1, <1>5, <1>6 DEF d

LEMMA FoldedIs ==
  ASSUME NEW e \in Entries, NEW b \in BOOLEAN
  PROVE  /\ [e EXCEPT !.expanded = b] \in Entries /\ [e EXCEPT !.loaded = b] \in Entries
         /\ \A f \in {[e EXCEPT !.expanded = b], [e EXCEPT !.loaded = b]} :
              f.status = e.status /\ f.changedAt = e.changedAt /\ f.isDir = e.isDir
BY DEF Entries

LEMMA UnlistedIs == Unlisted \in Entries
BY TreeIsSound DEF Unlisted, Entries

-----------------------------------------------------------------------------
(* What a refresh makes of each entry.                                     *)
LEMMA RefreshedIs ==
  ASSUME DiskTypes, Ages, TimesTell, NEW t \in [Paths -> Entries], NEW p \in Paths
  PROVE  LET e == t[p]
             r == refreshed(t)[p]
         IN
         /\ r \in Entries /\ r.loaded = e.loaded /\ r.expanded = e.expanded
         /\ ~reached(t, p) => r = e
         /\ reached(t, p) /\ exists(p) => r = retag(p, e)
         /\ reached(t, p) /\ ~exists(p) /\ e.status # "Unlisted" =>
              /\ r.status = "Deleted" /\ r.changedAt = 0 /\ r.isDir = e.isDir
              /\ e.status = "Deleted" /\ e.changedAt = 0 => r = e
         /\ reached(t, p) /\ ~exists(p) /\ e.status = "Unlisted" => r = e
<1> DEFINE e == t[p]
           d == [e EXCEPT !.status = "Deleted", !.changedAt = 0]
           r == refreshed(t)[p]
<1>1. e \in Entries
  OBVIOUS
<1>2. r = IF ~reached(t, p) THEN e
          ELSE IF exists(p) THEN retag(p, e)
          ELSE IF e.status # "Unlisted" THEN d ELSE e
  BY Zenon DEF refreshed, listed
<1>3. /\ d \in Entries
      /\ d.status = "Deleted" /\ d.changedAt = 0
      /\ d.isDir = e.isDir /\ d.loaded = e.loaded /\ d.expanded = e.expanded
      /\ e.status = "Deleted" /\ e.changedAt = 0 => d = e
  BY <1>1, DeletedIs
<1>4. exists(p) =>
        /\ retag(p, e) \in Entries
        /\ retag(p, e).loaded = e.loaded /\ retag(p, e).expanded = e.expanded
  BY <1>1, RetagIs
<1> HIDE DEF e, d, r
<1>5. r \in Entries /\ r.loaded = e.loaded /\ r.expanded = e.expanded
  BY <1>1, <1>2, <1>3, <1>4
<1> QED
  BY <1>1, <1>2, <1>3, <1>4, <1>5 DEF e, d, r

(* A refresh that reports nothing has changed nothing.                     *)
LEMMA QuietRefresh ==
  ASSUME DiskTypes, Ages, TimesTell, AllTold(tree), ~differs(tree, refreshed(tree))
  PROVE  refreshed(tree) = tree
<1> DEFINE u == refreshed(tree)
<1>1. ASSUME NEW p \in Paths PROVE u[p] = tree[p]
  <2> DEFINE e == tree[p]
             r == u[p]
  <2>1. e \in Entries /\ Told(tree, p) /\ tree \in [Paths -> Entries]
    BY DEF AllTold
  <2>2. r.status = e.status /\ r.changedAt = e.changedAt
    BY DEF differs
  <2>3. r \in Entries /\ r.loaded = e.loaded /\ r.expanded = e.expanded
    BY <2>1, RefreshedIs
  <2>4. CASE r.isDir = e.isDir
    BY <2>1, <2>2, <2>3, <2>4 DEF Entries
  <2>5. CASE reached(tree, p) /\ exists(p)
    <3>1. r = retag(p, e)
      BY <2>1, <2>5, RefreshedIs
    <3>0. LET w == retag(p, e) IN
            /\ w.isDir = disk[p].isDir
            /\ \/ w.status = "New" /\ w.changedAt = disk[p].mtime
               \/ w.status = "Modified" /\ w.changedAt = disk[p].mtime
               \/ w.status = "Unchanged" /\ disk[p] = initial[p]
      <4> HIDE DEF e
      <4> QED
        BY <2>1, <2>5, RetagIs
    <3>2. r.isDir = disk[p].isDir
      BY <3>0, <3>1
    <3>3. \/ r.status = "New" /\ r.changedAt = disk[p].mtime
          \/ r.status = "Modified" /\ r.changedAt = disk[p].mtime
          \/ r.status = "Unchanged" /\ disk[p] = initial[p]
      BY <3>0, <3>1
    <3>4. disk[p].isDir = e.isDir
      BY <2>1, <2>2, <3>3 DEF Told
    <3> QED
      BY <2>4, <3>2, <3>4
  <2>6. CASE ~(reached(tree, p) /\ exists(p))
    BY <2>1, <2>2, <2>4, <2>6, RefreshedIs
  <2> QED
    BY <2>5, <2>6
<1> QED
  BY <1>1 DEF AllTold, refreshed
LEMMA RefreshedType ==
  ASSUME DiskTypes, Ages, TimesTell, NEW t \in [Paths -> Entries]
  PROVE  /\ refreshed(t) \in [Paths -> Entries]
         /\ \A p \in Paths : reached(refreshed(t), p) <=> reached(t, p)
<1>1. \A p \in Paths : refreshed(t)[p] \in Entries /\ refreshed(t)[p].loaded = t[p].loaded
  BY RefreshedIs
<1>2. refreshed(t) \in [Paths -> Entries]
  BY <1>1, Zenon DEF refreshed
<1>3. \A p \in Paths : reached(refreshed(t), p) <=> reached(t, p)
  BY <1>1, AboveType DEF reached
<1> QED
  BY <1>2, <1>3

(* One refresh takes in all it can see.                                    *)
LEMMA Settling ==
  ASSUME DiskTypes, Ages, TimesTell, AllTold(tree)
  PROVE  RefreshSettles
<1> DEFINE t == refreshed(tree)
           u == refreshed(t)
<1>1. tree \in [Paths -> Entries] /\ t \in [Paths -> Entries]
  BY RefreshedType DEF AllTold
<1> HIDE DEF t
<1>2. ASSUME NEW p \in Paths PROVE u[p].status = t[p].status /\ u[p].changedAt = t[p].changedAt
  <2>1. t[p] \in Entries /\ tree[p] \in Entries
    BY <1>1
  <2>2. reached(t, p) <=> reached(tree, p)
    BY <1>1, RefreshedType DEF t
  <2>3. CASE ~reached(t, p)
    BY <1>1, <2>3, RefreshedIs
  <2>4. CASE reached(t, p) /\ exists(p)
    <3>1. t[p] = retag(p, tree[p]) /\ u[p] = retag(p, t[p])
      BY <1>1, <2>2, <2>4, RefreshedIs DEF t
    <3>2. \A e \in Entries : /\ retag(p, e).status = classify(p).status
                             /\ retag(p, e).changedAt = classify(p).changedAt
      <4> SUFFICES ASSUME NEW e \in Entries
                   PROVE  /\ retag(p, e).status = classify(p).status
                          /\ retag(p, e).changedAt = classify(p).changedAt
        OBVIOUS
      <4> QED
        BY <2>4, RetagFields
    <3> QED
      BY <2>1, <3>1, <3>2
  <2>5. CASE reached(t, p) /\ ~exists(p)
    BY <1>1, <2>2, <2>5, RefreshedIs, ZenonT(30) DEF t
  <2> QED
    BY <2>3, <2>4, <2>5
<1> QED
  BY <1>2 DEF RefreshSettles, differs, t

(* When a refresh would report nothing, the tree tells of the disk ...     *)
LEMMA SettledStatus ==
  ASSUME DiskTypes, Ages, TimesTell, AllTold(tree)
  PROVE  StatusIsTrue
<1> SUFFICES ASSUME settled, NEW p \in Paths, reached(tree, p), listed(tree, p)
             PROVE  /\ (tree[p].status = "Unchanged") <=> (exists(p) /\ disk[p] = initial[p])
                    /\ (tree[p].status = "Deleted") <=> ~exists(p)
  BY DEF StatusIsTrue
<1>1. refreshed(tree) = tree
  BY QuietRefresh DEF settled
<1>2. tree[p] \in Entries /\ tree \in [Paths -> Entries]
  BY DEF AllTold
<1>3. CASE exists(p)
  <2>1. tree[p] = retag(p, tree[p])
    BY <1>1, <1>2, <1>3, RefreshedIs
  <2>2. LET r == retag(p, tree[p]) IN
        \/ r.status = "New" /\ initial[p] = Absent
        \/ r.status = "Modified" /\ disk[p].mtime > initial[p].mtime
        \/ r.status = "Unchanged" /\ disk[p] = initial[p]
    BY <1>2, <1>3, RetagIs
  <2>3. disk[p] = initial[p] => ~(disk[p].mtime > initial[p].mtime)
    BY TimeType
  <2> QED
    BY <1>3, <2>1, <2>2, <2>3 DEF exists
<1>4. CASE ~exists(p)
  BY <1>1, <1>2, <1>4, RefreshedIs DEF listed
<1> QED
  BY <1>3, <1>4

(* ... and so do the indexes, of what is at the top.                       *)
LEMMA SettledIndex ==
  ASSUME BInv
  PROVE  TopLevelIsIndexed
<1> SUFFICES ASSUME settled, NEW p \in files, Parent[p] = Root
             PROVE  scanned[p] = disk[p]
  BY DEF TopLevelIsIndexed
<1>0. DiskTypes /\ Ages /\ TimesTell /\ AllTold(tree) /\ Indexed(tree, scanned)
  BY DEF BInv
<1>1. refreshed(tree) = tree
  BY <1>0, QuietRefresh DEF settled
<1>2. p \in Paths /\ tree[p] \in Entries /\ tree \in [Paths -> Entries] /\ exists(p) /\ p \in top
  BY <1>0 DEF AllTold, files, top
<1>3. reached(tree, p)
  BY <1>2, AboveType DEF reached
<1>4. tree[p] = retag(p, tree[p])
  BY <1>0, <1>1, <1>2, <1>3, RefreshedIs
<1>5. LET r == retag(p, tree[p]) IN
      \/ r.status = "New" /\ initial[p] = Absent /\ r.changedAt = disk[p].mtime
      \/ r.status = "Modified" /\ initial[p] # Absent /\ r.changedAt = disk[p].mtime
      \/ r.status = "Unchanged" /\ initial[p] # Absent /\ disk[p].mtime = 1
  BY <1>0, <1>2, RetagIs
<1>6. scanned[p] # Absent
  BY <1>0, <1>2, <1>4, <1>5 DEF Indexed
<1>7. /\ scanned[p].mtime \in 1 .. MaxTime /\ initial[p].mtime \in Nat
      /\ initial[p].mtime <= 1
  BY <1>0, <1>2, <1>6, TimeType DEF Ages
<1>8. initial[p] # Absent => initial[p].mtime = 1
  BY <1>0, <1>2, <1>7, TimeType
<1>9. scanned[p].mtime = disk[p].mtime
  BY <1>0, <1>2, <1>4, <1>5, <1>6, <1>7, <1>8 DEF Indexed
<1> QED
  BY <1>0, <1>2, <1>9 DEF TimesTell
-----------------------------------------------------------------------------
(* Every step keeps the invariant.  First the ways in which a tree         *)
(* changes: folding, ...                                                   *)
LEMMA FoldKeeps ==
  ASSUME NEW t, AllTold(t), NEW s, Indexed(t, s), NEW p \in Paths, NEW b \in BOOLEAN
  PROVE  AllTold([t EXCEPT ![p].expanded = b]) /\ Indexed([t EXCEPT ![p].expanded = b], s)
<1> DEFINE u == [t EXCEPT ![p].expanded = b]
<1>1. t \in [Paths -> Entries]
  BY DEF AllTold
<1>2. \A q \in Paths : /\ u[q] \in Entries
                       /\ u[q].status = t[q].status /\ u[q].changedAt = t[q].changedAt
                       /\ u[q].isDir = t[q].isDir
  <2> SUFFICES ASSUME NEW q \in Paths
               PROVE  /\ u[q] \in Entries
                      /\ u[q].status = t[q].status /\ u[q].changedAt = t[q].changedAt
                      /\ u[q].isDir = t[q].isDir
    OBVIOUS
  <2>1. u[q] = IF q = p THEN [t[q] EXCEPT !.expanded = b] ELSE t[q]
    BY <1>1
  <2>2. t[q] \in Entries
    BY <1>1
  <2> HIDE DEF u
  <2>3. CASE q = p
    <3> DEFINE e == [t[q] EXCEPT !.expanded = b]
    <3>1. e \in Entries /\ e.status = t[q].status /\ e.changedAt = t[q].changedAt
          /\ e.isDir = t[q].isDir
      BY <2>2, FoldedIs
    <3>2. u[q] = e
      BY <2>1, <2>3
    <3> HIDE DEF e
    <3> QED
      BY <3>1, <3>2
  <2>4. CASE q # p
    <3>1. u[q] = t[q]
      BY <2>1, <2>4
    <3> QED
      BY <2>2, <3>1
  <2> QED
    BY <2>3, <2>4
<1>3. u \in [Paths -> Entries]
  BY <1>1, <1>2
<1> HIDE DEF u
<1>4. AllTold(u)
  BY <1>2, <1>3 DEF AllTold, Told
<1>5. Indexed(u, s)
  BY <1>2 DEF Indexed, top
<1> QED
  BY <1>4, <1>5 DEF u

(* ... reading a directory, ...                                            *)
LEMMA LoadKeeps ==
  ASSUME DiskTypes, Ages, TimesTell, NEW t, AllTold(t), NEW s, Indexed(t, s), NEW folder \in Paths
  PROVE  AllTold(loadChildren(t, folder)) /\ Indexed(loadChildren(t, folder), s)
<1> DEFINE u == [q \in Paths |->
                   IF q = folder THEN [t[q] EXCEPT !.loaded = TRUE]
                   ELSE IF Parent[q] = folder /\ exists(q) THEN retag(q, Unlisted)
                   ELSE t[q]]
<1>1. t \in [Paths -> Entries]
  BY DEF AllTold
<1>2. ASSUME NEW q \in Paths, q = folder \/ ~(Parent[q] = folder /\ exists(q))
      PROVE  /\ u[q] \in Entries
             /\ u[q].status = t[q].status /\ u[q].changedAt = t[q].changedAt
             /\ u[q].isDir = t[q].isDir
  <2>1. CASE q = folder
    <3>1. u[q] = [t[q] EXCEPT !.loaded = TRUE]
      BY <2>1
    <3> HIDE DEF u
    <3> QED
      BY <1>1, <3>1, FoldedIs
  <2>2. CASE q # folder
    BY <1>1, <1>2, <2>2
  <2> QED
    BY <2>1, <2>2
<1>3. ASSUME NEW q \in Paths, q # folder, Parent[q] = folder, exists(q)
      PROVE  u[q] \in Entries /\ Told(u, q)
  <2>1. u[q] = retag(q, Unlisted)
    BY <1>3
  <2> HIDE DEF u
  <2>2. LET r == retag(q, Unlisted) IN
        /\ r \in Entries
        /\ r.isDir = disk[q].isDir
        /\ \/ r.status = "New" /\ r.changedAt = disk[q].mtime
           \/ r.status = "Modified" /\ r.changedAt = disk[q].mtime
           \/ /\ r.status = "Unchanged" /\ r.changedAt = 0 /\ disk[q] = initial[q]
    BY <1>3, UnlistedIs, RetagIs
  <2>3. disk[q].mtime # 0 /\ disk[q].mtime <= clock /\ 0 <= clock
    BY <1>3, TimeType DEF exists, Ages, DiskTypes
  <2> QED
    BY <2>1, <2>2, <2>3 DEF Told
<1> HIDE DEF u
<1>4. ASSUME NEW q \in Paths PROVE u[q] \in Entries /\ Told(u, q)
  <2>1. Told(t, q)
    BY DEF AllTold
  <2> QED
    BY <1>2, <1>3, <2>1 DEF Told
<1>5. u \in [Paths -> Entries]
  BY <1>4, Zenon DEF u
<1>6. AllTold(u)
  BY <1>4, <1>5 DEF AllTold
<1>7. \A q \in top : ~(Parent[q] = folder)
  BY ParentIsBefore, TreeIsSound DEF top, Root
<1>8. Indexed(u, s)
  BY <1>2, <1>7 DEF Indexed, top
<1> QED
  BY <1>6, <1>8, Zenon DEF u, loadChildren

(* ... and the refresh, after which the indexes are read again.            *)
LEMMA RefreshKeeps ==
  ASSUME DiskTypes, Ages, TimesTell, AllTold(tree), NEW s, Indexed(tree, s)
  PROVE  AllTold(refreshed(tree)) /\ Indexed(refreshed(tree), disk)
<1> DEFINE u == refreshed(tree)
<1>1. tree \in [Paths -> Entries] /\ u \in [Paths -> Entries]
  BY RefreshedType DEF AllTold
<1>2. ASSUME NEW q \in Paths, reached(tree, q), exists(q)
      PROVE  /\ u[q].isDir = disk[q].isDir
             /\ \/ /\ initial[q] = Absent
                   /\ u[q].status = "New" /\ u[q].changedAt = disk[q].mtime
                \/ /\ initial[q] # Absent /\ disk[q].mtime > initial[q].mtime
                   /\ u[q].status = "Modified" /\ u[q].changedAt = disk[q].mtime
                \/ /\ initial[q] # Absent /\ disk[q].mtime = 1 /\ disk[q] = initial[q]
                   /\ u[q].status = "Unchanged" /\ u[q].changedAt = 0
  <2>1. u[q] = retag(q, tree[q])
    BY <1>1, <1>2, RefreshedIs
  <2>2. tree[q] \in Entries
    BY <1>1
  <2> HIDE DEF u
  <2>3. LET r == retag(q, tree[q]) IN
        /\ r.isDir = disk[q].isDir
        /\ \/ /\ initial[q] = Absent
              /\ r.status = "New" /\ r.changedAt = disk[q].mtime
           \/ /\ initial[q] # Absent /\ disk[q].mtime > initial[q].mtime
              /\ r.status = "Modified" /\ r.changedAt = disk[q].mtime
           \/ /\ initial[q] # Absent /\ disk[q].mtime = 1 /\ disk[q] = initial[q]
              /\ r.status = "Unchanged" /\ r.changedAt = 0
    BY <1>2, <2>2, RetagIs
  <2> QED
    BY <2>1, <2>3
<1>3. ASSUME NEW q \in Paths, ~(reached(tree, q) /\ exists(q))
      PROVE  \/ u[q] = tree[q]
             \/ u[q].status = "Deleted" /\ u[q].changedAt = 0
  BY <1>1, <1>3, RefreshedIs
<1>4. ASSUME NEW q \in top
      PROVE  /\ q \in Paths /\ reached(tree, q)
             /\ ~exists(q) => u[q].status \in {"Unlisted", "Deleted"}
  <2>1. q \in Paths /\ reached(tree, q)
    BY AboveType DEF reached, top
  <2>2. ~exists(q) => u[q].status \in {"Unlisted", "Deleted"}
    BY <1>1, <2>1, RefreshedIs
  <2> QED
    BY <2>1, <2>2
<1> HIDE DEF u
<1>5. ASSUME NEW q \in Paths PROVE Told(u, q)
  <2>1. Told(tree, q)
    BY DEF AllTold
  <2>2. disk[q].mtime <= clock /\ 0 <= clock /\ (exists(q) => disk[q].mtime # 0)
    BY TimeType DEF exists, Ages, DiskTypes
  <2> QED
    BY <1>2, <1>3, <2>1, <2>2 DEF Told
<1>6. AllTold(u)
  BY <1>1, <1>5 DEF AllTold
<1>7. ASSUME NEW q \in top
      PROVE  IF disk[q] = Absent THEN u[q].status \in {"Unlisted", "Deleted"}
             ELSE IF initial[q] = Absent THEN u[q].status = "New" /\ u[q].changedAt = disk[q].mtime
             ELSE IF disk[q].mtime > initial[q].mtime
                  THEN u[q].status = "Modified" /\ u[q].changedAt = disk[q].mtime
             ELSE u[q].status = "Unchanged" /\ u[q].changedAt = 0
  <2>1. q \in Paths /\ reached(tree, q)
    BY <1>4
  <2>2. disk[q] = initial[q] => ~(disk[q].mtime > initial[q].mtime)
    BY <2>1, TimeType
  <2> QED
    BY <1>2, <1>4, <2>1, <2>2 DEF exists
<1> QED
  BY <1>6, <1>7 DEF Indexed, u
LEMMA InitInv == Init => BInv
<1> SUFFICES ASSUME Init PROVE BInv
  OBVIOUS
<1>1. /\ disk \in InitialDisks /\ clock = 1 /\ initial = disk /\ scanned = disk
      /\ tree = [p \in Paths |-> IF Parent[p] = Root /\ exists(p)
                                 THEN retag(p, Unlisted) ELSE Unlisted]
      /\ RowsShowTheTree
  BY DEF Init, RowsShowTheTree
<1>2. disk \in Disks /\ clock \in 1 .. MaxTime
  BY <1>1, TreeIsSound DEF InitialDisks, Disks
<1>3. DiskTypes
  BY <1>1, <1>2 DEF DiskTypes
<1>4. \A p \in Paths : disk[p].mtime \in {0, 1}
  <2> SUFFICES ASSUME NEW p \in Paths PROVE disk[p].mtime \in {0, 1}
    OBVIOUS
  <2>1. disk[p] = Absent \/ disk[p] \in [isDir : BOOLEAN, mtime : {1}]
    BY <1>1 DEF InitialDisks
  <2> QED
    BY <2>1 DEF Absent
<1>5. Ages /\ TimesTell
  BY <1>1, <1>4 DEF Ages, TimesTell
<1>6. ASSUME NEW p \in Paths
      PROVE  /\ tree[p] \in Entries /\ Told(tree, p)
             /\ p \in top /\ exists(p) => tree[p].status = IF initial[p] = Absent THEN "New" ELSE "Unchanged"
             /\ p \in top /\ exists(p) => tree[p].changedAt = 0
             /\ p \in top /\ ~exists(p) => tree[p].status = "Unlisted"
  <2>1. CASE Parent[p] = Root /\ exists(p)
    <3>1. tree[p] = retag(p, Unlisted)
      BY <1>1, <2>1
    <3>2. LET r == retag(p, Unlisted) IN
          /\ r \in Entries
          /\ r.isDir = disk[p].isDir
          /\ \/ /\ initial[p] = Absent
                /\ r.status = "New" /\ r.changedAt = disk[p].mtime
             \/ /\ initial[p] # Absent /\ disk[p].mtime > initial[p].mtime
                /\ r.status = "Modified" /\ r.changedAt = disk[p].mtime
             \/ /\ initial[p] # Absent /\ disk[p].mtime = 1 /\ disk[p] = initial[p]
                /\ r.status = "Unchanged" /\ r.changedAt = 0
      BY <1>3, <1>5, <2>1, UnlistedIs, RetagIs
    <3>3. initial[p] # Absent /\ ~(disk[p].mtime > initial[p].mtime)
      BY <1>1, <1>4, <2>1 DEF exists
    <3> QED
      BY <1>1, <2>1, <3>1, <3>2, <3>3 DEF Told
  <2>2. CASE ~(Parent[p] = Root /\ exists(p))
    <3>1. tree[p] = Unlisted
      BY <1>1, <2>2
    <3>2. tree[p].status = "Unlisted" /\ tree[p].changedAt = 0 /\ tree[p] \in Entries
      BY <3>1, UnlistedIs DEF Unlisted
    <3>3. ~(p \in top /\ exists(p))
      BY <2>2 DEF top
    <3>4. 0 <= clock
      BY <1>2
    <3>5. Told(tree, p)
      BY <3>2, <3>4 DEF Told
    <3> QED
      BY <3>2, <3>3, <3>5
  <2> QED
    BY <2>1, <2>2, Zenon
<1>7. AllTold(tree)
  <2>1. tree \in [Paths -> Entries]
    BY <1>1, <1>6
  <2> QED
    BY <1>6, <2>1 DEF AllTold
<1>8. Indexed(tree, scanned)
  <2> SUFFICES ASSUME NEW p \in top
               PROVE  IF scanned[p] = Absent THEN tree[p].status \in {"Unlisted", "Deleted"}
                      ELSE /\ initial[p] # Absent /\ ~(scanned[p].mtime > initial[p].mtime)
                           /\ tree[p].status = "Unchanged" /\ tree[p].changedAt = 0
    BY DEF Indexed
  <2>1. p \in Paths
    BY DEF top
  <2> QED
    BY <1>1, <1>4, <1>6, <2>1 DEF exists
<1> QED
  BY <1>1, <1>3, <1>5, <1>7, <1>8 DEF BInv

(* Other programs: a change has a time that no entry and no index holds.   *)
LEMMA ChangeKeeps ==
  ASSUME BInv, NEW p \in Paths, NEW as, Change(p, as),
         as = Absent \/ (as \in [isDir : BOOLEAN, mtime : {clock + 1}])
  PROVE  BInv'
<1>1. DiskTypes /\ Ages /\ TimesTell /\ AllTold(tree) /\ Indexed(tree, scanned) /\ RowsShowTheTree
  BY DEF BInv
<1>2. /\ clock < MaxTime /\ clock' = clock + 1 /\ clock \in 1 .. MaxTime
      /\ UNCHANGED <<initial, tree, rows, filter, scanned>>
  BY <1>1 DEF Change, browser, DiskTypes
<1>3. ASSUME NEW q \in Paths
      PROVE  \/ disk'[q] = disk[q]
             \/ disk'[q] = Absent
             \/ disk'[q] \in [isDir : BOOLEAN, mtime : {clock + 1}]
  <2>1. disk'[q] = IF within(q, p) THEN (IF q = p THEN as ELSE Absent)
                   ELSE IF q = Parent[p] /\ (as = Absent \/ ~exists(p))
                   THEN [disk[q] EXCEPT !.mtime = clock + 1]
                   ELSE disk[q]
    BY Zenon DEF Change
  <2>2. [disk[q] EXCEPT !.mtime = clock + 1] \in [isDir : BOOLEAN, mtime : {clock + 1}]
    <3>1. disk[q] = [isDir |-> disk[q].isDir, mtime |-> disk[q].mtime] /\ disk[q].isDir \in BOOLEAN
      BY <1>1, DiskEntry DEF DiskTypes
    <3> QED
      BY <3>1
  <2> QED
    BY <2>1, <2>2
<1>4. ASSUME NEW q \in Paths
      PROVE  /\ disk'[q] \in {Absent} \cup [isDir : BOOLEAN, mtime : 1 .. MaxTime]
             /\ disk'[q] = disk[q] \/ disk'[q] = Absent \/ disk'[q].mtime = clock'
             /\ disk'[q].mtime <= clock'
  <2>1. disk[q] \in {Absent} \cup [isDir : BOOLEAN, mtime : 1 .. MaxTime] /\ disk[q].mtime <= clock
    BY <1>1 DEF DiskTypes, Ages, Disks
  <2>2. disk[q].mtime \in 0 .. MaxTime
    BY <1>1, TimeType
  <2>3. CASE disk'[q] = disk[q]
    BY <1>2, <2>1, <2>2, <2>3
  <2>4. CASE disk'[q] = Absent
    BY <1>2, <2>4 DEF Absent
  <2>5. CASE disk'[q] \in [isDir : BOOLEAN, mtime : {clock + 1}]
    BY <1>2, <2>5, TreeIsSound
  <2> QED
    BY <1>3, <2>3, <2>4, <2>5
<1>5. disk' \in Disks
  <2>1. disk' = [q \in Paths |-> disk'[q]]
    BY DEF Change
  <2> QED
    BY <1>4, <2>1 DEF Disks
<1>6. DiskTypes'
  BY <1>1, <1>2, <1>5, TreeIsSound DEF DiskTypes
<1>7. ASSUME NEW q \in Paths
      PROVE  /\ scanned[q].mtime \in Nat /\ scanned[q].mtime <= clock
             /\ scanned[q].mtime = 0 => scanned[q] = Absent
             /\ initial[q].mtime <= 1
  BY <1>1, TimeType DEF Ages
<1>8. Ages'
  BY <1>2, <1>4, <1>7 DEF Ages
<1>9. TimesTell'
  <2> SUFFICES ASSUME NEW q \in Paths
               PROVE  /\ disk'[q].mtime = 1 => disk'[q] = initial[q]
                      /\ disk'[q].mtime = scanned[q].mtime => disk'[q] = scanned[q]
    BY <1>2 DEF TimesTell
  <2> QED
    BY <1>1, <1>2, <1>4, <1>7 DEF TimesTell, Absent
<1>10. AllTold(tree)'
  <2> SUFFICES ASSUME NEW q \in Paths PROVE Told(tree, q)'
    BY <1>1, <1>2 DEF AllTold
  <2>1. tree \in [Paths -> Entries] /\ Told(tree, q)
    BY <1>1 DEF AllTold
  <2>2. tree[q].changedAt \in Nat
    BY <2>1, TreeIsSound DEF Entries
  <2> QED
    BY <1>2, <1>4, <2>1, <2>2 DEF Told, Absent
<1>11. Indexed(tree, scanned)' /\ RowsShowTheTree'
  BY <1>1, <1>2 DEF Indexed, RowsShowTheTree
<1> QED
  BY <1>6, <1>8, <1>9, <1>10, <1>11 DEF BInv
(* The timer and the keys.                                                 *)
LEMMA RefreshStep ==
  ASSUME BInv, Refresh PROVE BInv'
<1>1. DiskTypes /\ Ages /\ TimesTell /\ AllTold(tree) /\ Indexed(tree, scanned) /\ RowsShowTheTree
  BY DEF BInv
<1>2. tree' = refreshed(tree) /\ disk' = disk /\ clock' = clock /\ initial' = initial
  BY DEF Refresh
<1>3. AllTold(tree') /\ Indexed(tree', disk)
  BY <1>1, <1>2, RefreshKeeps
<1>4. AllTold(tree)'
  BY <1>2, <1>3 DEF AllTold, Told
<1>5. CASE ~differs(tree, tree')
  <2>1. UNCHANGED <<rows, selected, filter, search, scanned>> /\ tree' = tree
    BY <1>1, <1>2, <1>5, QuietRefresh DEF Refresh
  <2>2. DiskTypes' /\ Ages' /\ TimesTell' /\ Indexed(tree, scanned)' /\ RowsShowTheTree'
    BY <1>1, <1>2, <2>1 DEF DiskTypes, Ages, TimesTell, Indexed, RowsShowTheTree
  <2> QED
    BY <1>4, <2>2 DEF BInv
<1>6. CASE differs(tree, tree')
  <2>1. scanned' = disk /\ rows' = collectRows(tree', filter')
    BY <1>6 DEF Refresh
  <2>2. DiskTypes' /\ Ages' /\ TimesTell' /\ Indexed(tree, scanned)' /\ RowsShowTheTree'
    BY <1>1, <1>2, <1>3, <2>1 DEF DiskTypes, Ages, TimesTell, Indexed, RowsShowTheTree
  <2> QED
    BY <1>4, <2>2 DEF BInv
<1> QED
  BY <1>5, <1>6

LEMMA KeyStep ==
  ASSUME BInv, UNCHANGED <<disk, clock, initial, scanned>>,
         AllTold(tree'), Indexed(tree', scanned), rows' = collectRows(tree', filter')
  PROVE  BInv'
<1>1. DiskTypes' /\ Ages' /\ TimesTell' /\ Indexed(tree, scanned)' /\ RowsShowTheTree'
  BY DEF BInv, DiskTypes, Ages, TimesTell, Indexed, RowsShowTheTree
<1>2. AllTold(tree)'
  BY DEF AllTold, Told
<1> QED
  BY <1>1, <1>2 DEF BInv

LEMMA SelectedEntryIs == selectedEntry \in Paths \cup {Root}
BY DEF selectedEntry, rowAt, entryAt

LEMMA InvStep == BInv /\ [Next]_vars => BInv'
<1> SUFFICES ASSUME BInv, [Next]_vars PROVE BInv'
  OBVIOUS
<1>1. DiskTypes /\ Ages /\ TimesTell /\ AllTold(tree) /\ Indexed(tree, scanned) /\ RowsShowTheTree
  BY DEF BInv
<1>2. ASSUME UNCHANGED <<disk, clock, initial, scanned, tree>>, rows' = collectRows(tree, filter')
      PROVE  BInv'
  BY <1>1, <1>2, KeyStep
<1>3. ASSUME UNCHANGED <<disk, clock, initial, scanned, tree, rows, filter>> PROVE BInv'
  BY <1>1, <1>2, <1>3 DEF RowsShowTheTree
<1>4. CASE Refresh
  BY <1>4, RefreshStep
<1>5. ASSUME NEW d \in {-15, -1, 1, 15}, Move(d) PROVE BInv'
  BY <1>3, <1>5 DEF Move
<1>6. ASSUME UNCHANGED <<disk, clock, initial, scanned, filter>>, RebuildRows,
             NEW p \in Paths, NEW b \in BOOLEAN,
             \/ tree' = [tree EXCEPT ![p].expanded = b]
             \/ tree' = [loadChildren(tree, p) EXCEPT ![p].expanded = b]
      PROVE  BInv'
  <2>1. AllTold(loadChildren(tree, p)) /\ Indexed(loadChildren(tree, p), scanned)
    BY <1>1, LoadKeeps
  <2>2. AllTold(tree') /\ Indexed(tree', scanned)
    BY <1>1, <1>6, <2>1, FoldKeeps
  <2> QED
    BY <1>6, <2>2, KeyStep DEF RebuildRows
<1>7. CASE ToggleExpand
  BY <1>6, <1>7, SelectedEntryIs DEF ToggleExpand
<1>8. CASE CollapseOrParent
  BY <1>3, <1>6, <1>8, SelectedEntryIs DEF CollapseOrParent
<1>9. CASE ExpandOrChild
  BY <1>3, <1>6, <1>9, SelectedEntryIs DEF ExpandOrChild
<1>10. CASE StartBrowserSearch
  BY <1>2, <1>10 DEF StartBrowserSearch, SetFilter
<1>11. CASE TypeInSearch
  BY <1>2, <1>11 DEF TypeInSearch, SetFilter
<1>12. CASE ClearSearch
  BY <1>2, <1>12 DEF ClearSearch, SetFilter
<1>13. ASSUME NEW p \in Paths, Create(p) PROVE BInv'
  BY <1>13, ChangeKeeps DEF Create
<1>14. ASSUME NEW p \in Paths, Write(p) PROVE BInv'
  BY <1>14, ChangeKeeps DEF Write
<1>15. ASSUME NEW p \in Paths, Delete(p) PROVE BInv'
  BY <1>15, ChangeKeeps DEF Delete
<1>16. CASE UNCHANGED vars
  BY <1>3, <1>16 DEF vars, browser
<1> QED
  BY <1>4, <1>5, <1>7, <1>8, <1>9, <1>10, <1>11, <1>12, <1>13, <1>14, <1>15, <1>16
     DEF Next, Key, Others

-----------------------------------------------------------------------------
(***************************************************************************)
(* The rows always show the tree as it is, whatever a refresh inserts,     *)
(* re-sorts or retags, for every tree of paths.                            *)
(***************************************************************************)
THEOREM RowsAreTheTree == Spec => []RowsShowTheTree
<1>1. BInv => RowsShowTheTree
  BY DEF BInv
<1> QED
  BY <1>1, InitInv, InvStep, PTL DEF Spec

(***************************************************************************)
(* A refresh tells of a change if there is one and only then: after a      *)
(* refresh the next reports nothing, and when nothing is reported the      *)
(* indexes hold what is at the top.                                        *)
(***************************************************************************)
THEOREM ChangesAreTold == Spec => []RefreshTellsChanges
<1>1. BInv => RefreshTellsChanges
  BY Settling, SettledIndex DEF BInv, RefreshTellsChanges
<1> QED
  BY <1>1, InitInv, InvStep, PTL DEF Spec

(***************************************************************************)
(* When a refresh would find nothing, the statuses of the entries tell     *)
(* what happened to them since the start, however often they changed.      *)
(***************************************************************************)
THEOREM StatusesAreTrue == Spec => []StatusIsTrue
<1>1. BInv => StatusIsTrue
  BY SettledStatus DEF BInv
<1> QED
  BY <1>1, InitInv, InvStep, PTL DEF Spec

-----------------------------------------------------------------------------
(***************************************************************************)
(* The order of the rows.  A finite set with a strict total order R is     *)
(* numbered by how many of it come before.                                 *)
(***************************************************************************)
IsOrder(R, S) ==
  /\ \A x \in S : <<x, x>> \notin R
  /\ \A x, y \in S : x = y \/ <<x, y>> \in R \/ <<y, x>> \in R
  /\ \A x, y, z \in S : <<x, y>> \in R /\ <<y, z>> \in R => <<x, z>> \in R

first(S, R, x) == Cardinality({y \in S : <<y, x>> \in R})

LEMMA RankIsStrict ==
  ASSUME NEW S, IsFiniteSet(S), NEW R, IsOrder(R, S), NEW x \in S, NEW y \in S, <<x, y>> \in R
  PROVE  first(S, R, x) < first(S, R, y)
<1> DEFINE X == {z \in S : <<z, x>> \in R}
           Y == {z \in S : <<z, y>> \in R}
<1>1. X \in SUBSET Y
  BY DEF IsOrder
<1>2. x \in Y /\ x \notin X
  BY DEF IsOrder
<1>3. Y \in SUBSET S /\ IsFiniteSet(Y) /\ IsFiniteSet(X)
  BY FS_Subset
<1>4. Cardinality(X) \in Nat /\ Cardinality(Y) \in Nat
  BY <1>3, FS_CardinalityType
<1>5. Cardinality(X) <= Cardinality(Y) /\ (Cardinality(Y) = Cardinality(X) => Y = X)
  BY <1>1, <1>3, FS_Subset
<1>6. first(S, R, x) = Cardinality(X) /\ first(S, R, y) = Cardinality(Y)
  BY DEF first
<1> HIDE DEF X, Y
<1> QED
  BY <1>2, <1>4, <1>5, <1>6

LEMMA Ranks ==
  ASSUME NEW S, IsFiniteSet(S), NEW R, IsOrder(R, S)
  PROVE  /\ Cardinality(S) \in Nat
         /\ \A x \in S : first(S, R, x) \in 0 .. Cardinality(S) - 1
         /\ \A x, y \in S : first(S, R, x) = first(S, R, y) => x = y
         /\ \A i \in 0 .. Cardinality(S) - 1 : \E x \in S : first(S, R, x) = i
<1> DEFINE n == Cardinality(S)
           f == [x \in S |-> first(S, R, x)]
<1>1. n \in Nat
  BY FS_CardinalityType
<1>2. ASSUME NEW x \in S PROVE first(S, R, x) \in 0 .. n - 1
  <2> DEFINE X == {y \in S : <<y, x>> \in R}
  <2>1. X \in SUBSET S /\ x \notin X
    BY DEF IsOrder
  <2>2. IsFiniteSet(X) /\ Cardinality(X) <= n /\ (n = Cardinality(X) => S = X)
    BY <2>1, FS_Subset
  <2>3. Cardinality(X) \in Nat
    BY <2>2, FS_CardinalityType
  <2>4. first(S, R, x) = Cardinality(X)
    BY DEF first
  <2> HIDE DEF X
  <2> QED
    BY <1>1, <2>1, <2>2, <2>3, <2>4
<1>3. \A x, y \in S : first(S, R, x) = first(S, R, y) => x = y
  <2> SUFFICES ASSUME NEW x \in S, NEW y \in S, first(S, R, x) = first(S, R, y), x # y
               PROVE FALSE
    OBVIOUS
  <2>1. first(S, R, x) < first(S, R, y) \/ first(S, R, y) < first(S, R, x)
    BY RankIsStrict DEF IsOrder
  <2> QED
    BY <1>1, <1>2, <2>1
<1>4. f \in Injection(S, 0 .. n - 1)
  <2>1. f \in [S -> 0 .. n - 1]
    BY <1>2
  <2>2. \A x, y \in S : f[x] = f[y] => x = y
    BY <1>3
  <2> HIDE DEF f
  <2> QED
    BY <2>1, <2>2 DEF Injection, IsInjective
<1>5. IsFiniteSet(0 .. n - 1) /\ Cardinality(0 .. n - 1) = n
  <2>1. 0 \in Int /\ n - 1 \in Int
    BY <1>1
  <2>2. IsFiniteSet(0 .. n - 1) /\ Cardinality(0 .. n - 1) = IF 0 > n - 1 THEN 0 ELSE (n - 1) - 0 + 1
    BY <2>1, FS_Interval
  <2> HIDE DEF n
  <2> QED
    BY <1>1, <2>2
<1>6. f \in Surjection(S, 0 .. n - 1)
  <2> HIDE DEF f
  <2> QED
    BY <1>4, <1>5, FS_Injection
<1>7. \A i \in 0 .. n - 1 : \E x \in S : f[x] = i
  <2> HIDE DEF f
  <2> QED
    BY <1>6 DEF Surjection
<1> QED
  BY <1>1, <1>2, <1>3, <1>7

(* The order of index paths.                                               *)
LEMMA ComesBeforeIs ==
  ASSUME NEW a \in Seq(Nat), NEW b \in Seq(Nat)
  PROVE  comesBefore(a, b) <=>
           \E i \in 1 .. Len(b) :
             /\ \A j \in 1 .. (i - 1) : j <= Len(a) /\ a[j] = b[j]
             /\ i = Len(a) + 1 \/ (i <= Len(a) /\ a[i] < b[i])
<1> DEFINE at(i) == /\ \A j \in 1 .. (i - 1) : j <= Len(a) /\ a[j] = b[j]
                    /\ i = Len(a) + 1 \/ (i <= Len(a) /\ a[i] < b[i])
<1>0. Len(a) \in Nat /\ Len(b) \in Nat
  OBVIOUS
<1>1. IsStrictPrefix(a, b) <=> Len(a) < Len(b) /\ \A j \in 1 .. Len(a) : a[j] = b[j]
  <2>1. IsPrefix(a, b) <=> Len(a) <= Len(b) /\ \A j \in 1 .. Len(a) : a[j] = b[j]
    <3>1. ASSUME Len(a) <= Len(b)
          PROVE  /\ SubSeq(a, 1, Len(a)) = [j \in 1 .. Len(a) |-> a[j]]
                 /\ SubSeq(b, 1, Len(a)) = [j \in 1 .. Len(a) |-> b[j]]
      BY <1>0, <3>1
    <3> QED
      BY <3>1 DEF IsPrefix
  <2>2. Len(a) = Len(b) /\ (\A j \in 1 .. Len(a) : a[j] = b[j]) => a = b
    OBVIOUS
  <2> QED
    BY <1>0, <2>1, <2>2 DEF IsStrictPrefix
<1>2. ASSUME IsStrictPrefix(a, b) PROVE Len(a) + 1 \in 1 .. Len(b) /\ at(Len(a) + 1)
  BY <1>0, <1>1, <1>2
<1>3. ASSUME NEW i \in 1 .. Len(a), i <= Len(b), a[i] < b[i], \A j \in 1 .. (i - 1) : a[j] = b[j]
      PROVE  i \in 1 .. Len(b) /\ at(i)
  BY <1>0, <1>3
<1>4. ASSUME NEW i \in 1 .. Len(b), at(i) PROVE comesBefore(a, b)
  <2>1. CASE i = Len(a) + 1
    <3>1. Len(a) < Len(b) /\ \A j \in 1 .. Len(a) : a[j] = b[j]
      BY <1>0, <1>4, <2>1
    <3> QED
      BY <1>1, <3>1 DEF comesBefore
  <2>2. CASE i <= Len(a) /\ a[i] < b[i]
    <3>1. i \in 1 .. Len(a) /\ i <= Len(b) /\ \A j \in 1 .. (i - 1) : a[j] = b[j]
      BY <1>0, <1>4, <2>2
    <3> QED
      BY <2>2, <3>1 DEF comesBefore
  <2> QED
    BY <1>4, <2>1, <2>2
<1> QED
  BY <1>2, <1>3, <1>4 DEF comesBefore

\* a and b part at position i, where a ends or has the smaller index.
parts(a, b, i) ==
  /\ \A j \in 1 .. (i - 1) : j <= Len(a) /\ a[j] = b[j]
  /\ i = Len(a) + 1 \/ (i <= Len(a) /\ a[i] < b[i])

LEMMA IndexPathsAreOrdered ==
  /\ \A a \in Seq(Nat) : ~comesBefore(a, a)
  /\ \A a, b, c \in Seq(Nat) : comesBefore(a, b) /\ comesBefore(b, c) => comesBefore(a, c)
  /\ \A a, b \in Seq(Nat) : a = b \/ comesBefore(a, b) \/ comesBefore(b, a)
<1>0. ASSUME NEW a \in Seq(Nat), NEW b \in Seq(Nat)
      PROVE  comesBefore(a, b) <=> \E i \in 1 .. Len(b) : parts(a, b, i)
  BY ComesBeforeIs DEF parts
<1>1. ASSUME NEW a \in Seq(Nat), comesBefore(a, a) PROVE FALSE
  <2>1. PICK i \in 1 .. Len(a) : parts(a, a, i)
    BY <1>0, <1>1
  <2>2. Len(a) \in Nat /\ \A j \in 1 .. Len(a) : a[j] \in Nat
    OBVIOUS
  <2> QED
    BY <2>1, <2>2 DEF parts
<1>2. ASSUME NEW a \in Seq(Nat), NEW b \in Seq(Nat), NEW c \in Seq(Nat),
             comesBefore(a, b), comesBefore(b, c)
      PROVE  comesBefore(a, c)
  <2>1. PICK i \in 1 .. Len(b) : parts(a, b, i)
    BY <1>0, <1>2
  <2>2. PICK k \in 1 .. Len(c) : parts(b, c, k)
    BY <1>0, <1>2
  <2>3. /\ Len(a) \in Nat /\ Len(b) \in Nat /\ Len(c) \in Nat
        /\ \A j \in 1 .. Len(a) : a[j] \in Nat
        /\ \A j \in 1 .. Len(b) : b[j] \in Nat
        /\ \A j \in 1 .. Len(c) : c[j] \in Nat
    OBVIOUS
  <2>4. CASE i <= k
    <3>1. i \in 1 .. Len(c)
      BY <2>1, <2>2, <2>3, <2>4
    <3>2. ASSUME NEW j \in 1 .. (i - 1) PROVE j <= Len(a) /\ a[j] = c[j]
      <4>1. j \in 1 .. (k - 1)
        BY <2>1, <2>2, <2>3, <2>4
      <4> QED
        BY <2>1, <2>2, <4>1 DEF parts
    <3>3. i = Len(a) + 1 \/ (i <= Len(a) /\ a[i] < c[i])
      <4>1. CASE i < k
        BY <2>1, <2>2, <2>3, <4>1 DEF parts
      <4>2. CASE i = k
        BY <2>1, <2>2, <2>3, <4>2, <3>1, SMTT(30) DEF parts
      <4> QED
        BY <2>4, <4>1, <4>2
    <3> QED
      BY <1>0, <3>1, <3>2, <3>3 DEF parts
  <2>5. CASE k < i
    <3>1. k <= Len(a) /\ a[k] = b[k] /\ k <= Len(b)
      BY <2>1, <2>2, <2>3, <2>5 DEF parts
    <3>2. \A j \in 1 .. (k - 1) : j <= Len(a) /\ a[j] = c[j]
      BY <2>1, <2>2, <2>3, <2>5 DEF parts
    <3>3. a[k] < c[k]
      BY <2>2, <2>3, <3>1 DEF parts
    <3> QED
      BY <1>0, <3>1, <3>2, <3>3 DEF parts
  <2> QED
    BY <2>3, <2>4, <2>5
<1>3. ASSUME NEW a \in Seq(Nat), NEW b \in Seq(Nat), a # b, ~comesBefore(a, b)
      PROVE  comesBefore(b, a)
  <2>1. /\ Len(a) \in Nat /\ Len(b) \in Nat
        /\ \A j \in 1 .. Len(a) : a[j] \in Nat
        /\ \A j \in 1 .. Len(b) : b[j] \in Nat
    OBVIOUS
  <2> DEFINE D == {i \in Nat : i > 0 /\ (i > Len(a) \/ i > Len(b) \/ a[i] # b[i])}
  <2>2. D # {}
    <3>1. Len(a) + 1 \in D
      BY <2>1
    <3> QED
      BY <3>1
  <2>3. PICK i \in D : \A j \in D : i <= j
    BY <2>2, LeastNatural
  <2>4. i \in Nat /\ i > 0 /\ (i > Len(a) \/ i > Len(b) \/ a[i] # b[i])
    BY <2>3
  <2>5. \A j \in 1 .. (i - 1) : j <= Len(a) /\ j <= Len(b) /\ a[j] = b[j]
    <3> SUFFICES ASSUME NEW j \in 1 .. (i - 1), j \notin D
                 PROVE  j <= Len(a) /\ j <= Len(b) /\ a[j] = b[j]
      BY <2>3, <2>4
    <3> QED
      BY <2>1, <2>4
  <2> HIDE DEF D
  <2>6. CASE i > Len(a) /\ i > Len(b)
    <3>1. Len(a) = Len(b)
      BY <2>1, <2>4, <2>5, <2>6
    <3>2. \A j \in 1 .. Len(a) : a[j] = b[j]
      BY <2>1, <2>4, <2>5, <2>6
    <3>3. a = b
      BY <3>1, <3>2, <2>1
    <3> QED
      BY <1>3, <3>3
  <2>7. CASE i > Len(a) /\ i <= Len(b)
    <3>1. i = Len(a) + 1 /\ i \in 1 .. Len(b)
      BY <2>1, <2>4, <2>5, <2>7
    <3>2. parts(a, b, i)
      BY <2>1, <2>4, <2>5, <3>1 DEF parts
    <3> QED
      BY <1>0, <1>3, <3>1, <3>2
  <2>8. CASE i <= Len(a) /\ i > Len(b)
    <3>1. i = Len(b) + 1 /\ i \in 1 .. Len(a)
      BY <2>1, <2>4, <2>5, <2>8
    <3>2. parts(b, a, i)
      BY <2>1, <2>4, <2>5, <3>1 DEF parts
    <3> QED
      BY <1>0, <3>1, <3>2
  <2>9. CASE i <= Len(a) /\ i <= Len(b)
    <3>1. i \in 1 .. Len(a) /\ i \in 1 .. Len(b) /\ a[i] # b[i]
      BY <2>1, <2>4, <2>9
    <3>2. a[i] < b[i] \/ b[i] < a[i]
      BY <2>1, <3>1
    <3>3. a[i] < b[i] => parts(a, b, i)
      BY <2>1, <2>5, <2>9 DEF parts
    <3>4. b[i] < a[i] => parts(b, a, i)
      BY <2>1, <2>5, <2>9 DEF parts
    <3> QED
      BY <1>0, <1>3, <3>1, <3>2, <3>3, <3>4
  <2> QED
    BY <2>1, <2>4, <2>6, <2>7, <2>8, <2>9
<1> QED
  BY <1>1, <1>2, <1>3

(* The way down to a path is that to its directory and a step more.        *)
LEMMA ChainIs ==
  ASSUME NEW p \in Paths
  PROVE  /\ Parent[p] = Root => chain[p] = <<p>> /\ above[p] = {}
         /\ Parent[p] # Root => /\ chain[p] = Append(chain[Parent[p]], p)
                                /\ above[p] = above[Parent[p]] \cup {Parent[p]}
         /\ chain[p] \in Seq(Paths) /\ chain[p] # <<>>
         /\ chain[p][Len(chain[p])] = p
<1>1. chain[p] = step(descent, p) /\ chain[p] = descent[p]
  BY DescentIsDefined DEF chain
<1>2. chain[p] \in Seq(Paths) /\ chain[p] # <<>>
  BY <1>1, DescentType
<1>3. ASSUME Parent[p] = Root
      PROVE  chain[p] = <<p>> /\ above[p] = {} /\ chain[p][Len(chain[p])] = p
  BY <1>1, <1>3, AboveType DEF step
<1>4. ASSUME Parent[p] # Root
      PROVE  /\ chain[p] = Append(chain[Parent[p]], p)
             /\ above[p] = ToSet(chain[Parent[p]])
             /\ chain[p][Len(chain[p])] = p
  <2>1. Parent[p] \in Paths /\ chain[Parent[p]] = descent[Parent[p]]
    BY <1>4, ParentIsBefore DEF chain
  <2>2. chain[Parent[p]] \in Seq(Paths)
    BY <2>1, DescentType
  <2>3. chain[p] = Append(chain[Parent[p]], p)
    BY <1>1, <1>4, <2>1 DEF step
  <2>4. Front(chain[p]) = chain[Parent[p]]
    BY <2>2, <2>3 DEF Front
  <2>5. above[p] = ToSet(Front(descent[p]))
    BY DEF above
  <2>6. chain[p][Len(chain[p])] = p
    BY <2>2, <2>3
  <2> QED
    BY <1>1, <2>3, <2>4, <2>5, <2>6
<1>5. ASSUME Parent[p] # Root PROVE ToSet(chain[Parent[p]]) = above[Parent[p]] \cup {Parent[p]}
  <2> DEFINE q == Parent[p]
             s == chain[q]
  <2>1. q \in Paths /\ s = descent[q]
    BY <1>5, ParentIsBefore DEF chain
  <2>2. s \in Seq(Paths) /\ s # <<>>
    BY <2>1, DescentType
  <2>3. s[Len(s)] = q
    <3>1. s = step(descent, q)
      BY <2>1, DescentIsDefined
    <3>2. CASE Parent[q] = Root
      BY <3>1, <3>2 DEF step
    <3>3. CASE Parent[q] # Root
      <4>1. Parent[q] \in Paths
        BY <2>1, <3>3, ParentIsBefore
      <4>2. descent[Parent[q]] \in Seq(Paths)
        BY <4>1, DescentType
      <4> QED
        BY <3>1, <3>3, <4>2 DEF step
    <3> QED
      BY <3>2, <3>3
  <2>4. above[q] = ToSet(Front(s))
    BY <2>1 DEF above
  <2> HIDE DEF q, s
  <2>5. Len(s) \in Nat /\ Len(s) > 0 /\ Len(Front(s)) = Len(s) - 1
        /\ \A i \in 1 .. (Len(s) - 1) : Front(s)[i] = s[i]
    <3>1. Len(s) \in Nat /\ Len(s) > 0
      BY <2>2
    <3>2. Front(s) = [i \in 1 .. (Len(s) - 1) |-> s[i]]
      BY <2>2, <3>1 DEF Front
    <3> QED
      BY <3>1, <3>2
  <2>6. ToSet(s) = {s[i] : i \in 1 .. Len(s)} /\ ToSet(Front(s)) = {s[i] : i \in 1 .. (Len(s) - 1)}
    <3>1. DOMAIN Front(s) = 1 .. (Len(s) - 1)
      BY <2>2, <2>5 DEF Front
    <3> QED
      BY <2>2, <2>5, <3>1 DEF ToSet
  <2>7. 1 .. Len(s) = (1 .. (Len(s) - 1)) \cup {Len(s)}
    BY <2>5
  <2> QED
    BY <2>3, <2>4, <2>6, <2>7 DEF q, s
<1> QED
  BY <1>2, <1>3, <1>4, <1>5

LEMMA PathInduction ==
  ASSUME NEW B \in SUBSET Paths, B # {}
  PROVE  \E p \in B : Parent[p] = Root \/ (Parent[p] \in Paths /\ Parent[p] \notin B)
<1>1. B \in SUBSET Nat
  BY ParentIsBefore
<1>2. PICK p \in B : \A q \in B : p <= q
  BY <1>1, LeastNatural
<1>3. ASSUME Parent[p] # Root PROVE Parent[p] \in Paths /\ Parent[p] \notin B
  <2>1. p \in Nat /\ Parent[p] \in Paths /\ Parent[p] \in Nat /\ Parent[p] < p
    BY <1>2, <1>3, ParentIsBefore
  <2> QED
    BY <1>2, <2>1
<1> QED
  BY <1>2, <1>3

LEMMA NotItsOwnParent ==
  ASSUME NEW q \in Paths PROVE Parent[q] # q
<1>1. q \in Nat /\ q > 0 /\ (Parent[q] = Root \/ Parent[q] < q)
  BY ParentIsBefore
<1> QED
  BY <1>1 DEF Root

(* What is listed is listed in directories that are, and have been, read.  *)
Nested(t) ==
  \A p \in Paths :
    /\ t[p].loaded => listed(t, p)
    /\ listed(t, p) /\ Parent[p] # Root => t[Parent[p]].loaded

siblings(t, p) == {q \in Paths : listed(t, q) /\ Parent[q] = Parent[p]}
sorted(t, p) == {e \in siblings(t, p) \X siblings(t, p) : sortsBefore(t, e[1], e[2])}

LEMMA SiblingsAreOrdered ==
  ASSUME NEW t \in [Paths -> Entries], NEW p \in Paths
  PROVE  IsFiniteSet(siblings(t, p)) /\ IsOrder(sorted(t, p), siblings(t, p))
<1>1. IsFiniteSet(siblings(t, p))
  <2>1. siblings(t, p) \in SUBSET Paths
    BY DEF siblings
  <2> QED
    BY <2>1, TreeIsSound, FS_Subset
<1>2. \A q \in siblings(t, p) : q \in Nat /\ t[q].isDir \in BOOLEAN
  BY ParentIsBefore DEF siblings, Entries
<1>3. \A x, y \in siblings(t, p) : <<x, y>> \in sorted(t, p) <=> sortsBefore(t, x, y)
  BY DEF sorted
<1> QED
  BY <1>1, <1>2, <1>3 DEF IsOrder, sortsBefore

LEMMA PlaceIs ==
  ASSUME NEW t \in [Paths -> Entries], NEW p \in Paths
  PROVE  /\ place(t, p) \in Nat
         /\ \A q \in Paths : listed(t, p) /\ listed(t, q) /\ Parent[q] = Parent[p]
                               /\ place(t, q) = place(t, p) => q = p
<1>1. IsFiniteSet(siblings(t, p)) /\ IsOrder(sorted(t, p), siblings(t, p))
  BY SiblingsAreOrdered
<1>2. place(t, p) \in Nat
  <2> DEFINE S == {q \in Paths : /\ listed(t, q) /\ Parent[q] = Parent[p]
                                 /\ sortsBefore(t, q, p)}
  <2>1. S \in SUBSET Paths
    OBVIOUS
  <2>2. IsFiniteSet(S)
    BY <2>1, TreeIsSound, FS_Subset
  <2> QED
    BY <2>2, FS_CardinalityType DEF place
<1>3. ASSUME NEW q \in siblings(t, p), p \in siblings(t, p)
      PROVE  place(t, q) = first(siblings(t, p), sorted(t, p), q)
  <2>1. \A y \in siblings(t, p) : <<y, q>> \in sorted(t, p) <=> sortsBefore(t, y, q)
    BY DEF sorted
  <2>2. Parent[q] = Parent[p]
    BY DEF siblings
  <2>3. {y \in siblings(t, p) : <<y, q>> \in sorted(t, p)}
          = {y \in Paths : listed(t, y) /\ Parent[y] = Parent[q] /\ sortsBefore(t, y, q)}
    BY <2>1, <2>2 DEF siblings
  <2> QED
    BY <2>3 DEF first, place
<1>4. ASSUME NEW q \in Paths, listed(t, p), listed(t, q), Parent[q] = Parent[p],
             place(t, q) = place(t, p)
      PROVE  q = p
  <2>1. p \in siblings(t, p) /\ q \in siblings(t, p)
    BY <1>4 DEF siblings
  <2>2. first(siblings(t, p), sorted(t, p), q) = first(siblings(t, p), sorted(t, p), p)
    BY <1>3, <1>4, <2>1
  <2> QED
    BY <1>1, <2>1, <2>2, Ranks
<1> QED
  BY <1>2, <1>4

LEMMA IndexPathIs ==
  ASSUME NEW t \in [Paths -> Entries], NEW p \in Paths
  PROVE  /\ indexPath(t, p) \in Seq(Nat) /\ Len(indexPath(t, p)) > 0
         /\ Parent[p] = Root => indexPath(t, p) = <<place(t, p)>>
         /\ Parent[p] # Root => /\ indexPath(t, p) = Append(indexPath(t, Parent[p]), place(t, p))
                                /\ indexPath(t, Parent[p]) \in Seq(Nat)
                                /\ Len(indexPath(t, Parent[p])) > 0
                                /\ Front(indexPath(t, p)) = indexPath(t, Parent[p])
<1>1. ASSUME NEW q \in Paths
      PROVE  /\ indexPath(t, q) \in Seq(Nat) /\ Len(indexPath(t, q)) > 0
             /\ Len(indexPath(t, q)) = Len(chain[q])
             /\ \A i \in 1 .. Len(chain[q]) : indexPath(t, q)[i] = place(t, chain[q][i])
  <2>1. chain[q] \in Seq(Paths) /\ chain[q] # <<>>
    BY ChainIs
  <2>2. Len(chain[q]) \in Nat /\ Len(chain[q]) > 0 /\ \A i \in 1 .. Len(chain[q]) : chain[q][i] \in Paths
    BY <2>1
  <2>3. \A i \in 1 .. Len(chain[q]) : place(t, chain[q][i]) \in Nat
    BY <2>2, PlaceIs
  <2>4. indexPath(t, q) = [i \in 1 .. Len(chain[q]) |-> place(t, chain[q][i])]
    BY DEF indexPath
  <2> QED
    BY <2>2, <2>3, <2>4, IsASeq
<1>2. ASSUME Parent[p] = Root PROVE indexPath(t, p) = <<place(t, p)>>
  <2>1. Len(chain[p]) = 1 /\ chain[p][1] = p
    <3>1. chain[p] = <<p>>
      BY <1>2, ChainIs
    <3> QED
      BY <3>1
  <2>2. Len(indexPath(t, p)) = 1 /\ indexPath(t, p)[1] = place(t, chain[p][1])
    BY <1>1, <2>1
  <2>3. indexPath(t, p) \in Seq(Nat)
    BY <1>1
  <2> QED
    BY <2>1, <2>2, <2>3
<1>3. ASSUME Parent[p] # Root
      PROVE  /\ indexPath(t, p) = Append(indexPath(t, Parent[p]), place(t, p))
             /\ Front(indexPath(t, p)) = indexPath(t, Parent[p])
  <2> DEFINE q == Parent[p]
  <2>1. q \in Paths /\ chain[p] = Append(chain[q], p) /\ chain[q] \in Seq(Paths)
    BY <1>3, ChainIs, ParentIsBefore
  <2> HIDE DEF q
  <2>2. /\ Len(chain[q]) \in Nat /\ Len(chain[p]) = Len(chain[q]) + 1
        /\ chain[p][Len(chain[q]) + 1] = p
        /\ \A i \in 1 .. Len(chain[q]) : chain[p][i] = chain[q][i]
    BY <2>1
  <2>3. /\ indexPath(t, p) \in Seq(Nat) /\ Len(indexPath(t, p)) = Len(chain[q]) + 1
        /\ indexPath(t, q) \in Seq(Nat) /\ Len(indexPath(t, q)) = Len(chain[q])
        /\ indexPath(t, p)[Len(chain[q]) + 1] = place(t, p)
        /\ \A i \in 1 .. Len(chain[q]) : indexPath(t, p)[i] = indexPath(t, q)[i]
    <3>1. /\ indexPath(t, q) \in Seq(Nat) /\ Len(indexPath(t, q)) = Len(chain[q])
          /\ \A i \in 1 .. Len(chain[q]) : indexPath(t, q)[i] = place(t, chain[q][i])
      BY <1>1, <2>1
    <3>2. /\ indexPath(t, p) \in Seq(Nat) /\ Len(indexPath(t, p)) = Len(chain[p])
          /\ \A i \in 1 .. Len(chain[p]) : indexPath(t, p)[i] = place(t, chain[p][i])
      BY <1>1
    <3>3. Len(chain[q]) + 1 \in 1 .. Len(chain[p])
          /\ \A i \in 1 .. Len(chain[q]) : i \in 1 .. Len(chain[p])
      BY <2>2
    <3>4. indexPath(t, p)[Len(chain[q]) + 1] = place(t, p)
      BY <2>2, <3>2, <3>3
    <3>5. \A i \in 1 .. Len(chain[q]) : indexPath(t, p)[i] = indexPath(t, q)[i]
      BY <2>2, <3>1, <3>2, <3>3
    <3> QED
      BY <2>2, <3>1, <3>2, <3>4, <3>5
  <2>4. indexPath(t, p) = Append(indexPath(t, q), place(t, p))
    <3>1. place(t, p) \in Nat
      BY PlaceIs
    <3> QED
      BY <2>2, <2>3, <3>1
  <2>5. Front(indexPath(t, p)) = indexPath(t, q)
    BY <2>3, <2>4 DEF Front
  <2> QED
    BY <2>4, <2>5 DEF q
<1> QED
  BY <1>1, <1>2, <1>3, ParentIsBefore

(* An index path is of one entry.                                          *)
LEMMA IndexPathsDiffer ==
  ASSUME NEW t \in [Paths -> Entries], Nested(t), NEW p \in Paths, NEW q \in Paths,
         listed(t, p), listed(t, q), indexPath(t, p) = indexPath(t, q)
  PROVE  p = q
<1> DEFINE B == {x \in Paths : listed(t, x) /\ \E y \in Paths :
                    listed(t, y) /\ indexPath(t, x) = indexPath(t, y) /\ x # y}
<1> SUFFICES ASSUME B # {} PROVE FALSE
  OBVIOUS
<1>1. PICK x \in B : Parent[x] = Root \/ (Parent[x] \in Paths /\ Parent[x] \notin B)
  BY PathInduction
<1>2. PICK y \in Paths : listed(t, y) /\ indexPath(t, x) = indexPath(t, y) /\ x # y
  BY <1>1
<1>3. x \in Paths /\ listed(t, x) /\ place(t, x) \in Nat /\ place(t, y) \in Nat
  BY <1>1, PlaceIs
<1>4. CASE Parent[x] = Root
  <2>1. indexPath(t, x) = <<place(t, x)>>
    BY <1>3, <1>4, IndexPathIs
  <2>2. Parent[y] = Root
    <3> SUFFICES ASSUME Parent[y] # Root PROVE FALSE
      OBVIOUS
    <3>1. /\ indexPath(t, y) = Append(indexPath(t, Parent[y]), place(t, y))
          /\ indexPath(t, Parent[y]) \in Seq(Nat) /\ Len(indexPath(t, Parent[y])) > 0
      BY IndexPathIs
    <3>2. Len(indexPath(t, y)) = Len(indexPath(t, Parent[y])) + 1 /\ Len(indexPath(t, x)) = 1
      BY <2>1, <3>1
    <3> QED
      BY <1>2, <3>1, <3>2
  <2>3. indexPath(t, y) = <<place(t, y)>>
    BY <2>2, IndexPathIs
  <2>4. place(t, x) = place(t, y)
    <3>1. indexPath(t, x)[1] = place(t, x) /\ indexPath(t, y)[1] = place(t, y)
      BY <2>1, <2>3
    <3> QED
      BY <1>2, <3>1
  <2> QED
    BY <1>2, <1>3, <1>4, <2>2, <2>4, PlaceIs
<1>5. CASE Parent[x] # Root
  <2>1. /\ indexPath(t, x) = Append(indexPath(t, Parent[x]), place(t, x))
        /\ indexPath(t, Parent[x]) \in Seq(Nat) /\ Len(indexPath(t, Parent[x])) > 0
        /\ Front(indexPath(t, x)) = indexPath(t, Parent[x])
    BY <1>3, <1>5, IndexPathIs
  <2>2. Parent[y] # Root
    <3> SUFFICES ASSUME Parent[y] = Root PROVE FALSE
      OBVIOUS
    <3>1. indexPath(t, y) = <<place(t, y)>>
      BY IndexPathIs
    <3>2. Len(indexPath(t, x)) = Len(indexPath(t, Parent[x])) + 1 /\ Len(indexPath(t, y)) = 1
      BY <2>1, <3>1
    <3> QED
      BY <1>2, <2>1, <3>2
  <2>3. /\ indexPath(t, y) = Append(indexPath(t, Parent[y]), place(t, y))
        /\ indexPath(t, Parent[y]) \in Seq(Nat)
        /\ Front(indexPath(t, y)) = indexPath(t, Parent[y])
    BY <2>2, IndexPathIs
  <2>4. indexPath(t, Parent[x]) = indexPath(t, Parent[y])
    BY <1>2, <2>1, <2>3
  <2>5. Parent[x] \in Paths /\ Parent[y] \in Paths /\ listed(t, Parent[x]) /\ listed(t, Parent[y])
    BY <1>2, <1>3, <1>5, <2>2, ParentIsBefore DEF Nested
  <2>6. Parent[x] = Parent[y]
    BY <1>1, <1>5, <2>4, <2>5
  <2>7. place(t, x) = place(t, y)
    <3>1. /\ indexPath(t, x)[Len(indexPath(t, x))] = place(t, x)
          /\ indexPath(t, y)[Len(indexPath(t, y))] = place(t, y)
      BY <1>3, <2>1, <2>3
    <3> QED
      BY <1>2, <3>1
  <2> QED
    BY <1>2, <1>3, <2>6, <2>7, PlaceIs
<1> QED
  BY <1>4, <1>5

LEMMA EntryIs ==
  ASSUME NEW t \in [Paths -> Entries], Nested(t), NEW p \in Paths, listed(t, p)
  PROVE  entryAt(t, indexPath(t, p)) = p
<1>1. {q \in Paths : listed(t, q) /\ indexPath(t, q) = indexPath(t, p)} = {p}
  BY IndexPathsDiffer
<1> QED
  BY <1>1 DEF entryAt

(* What is below an entry comes after it.                                  *)
LEMMA BelowComesAfter ==
  ASSUME NEW t \in [Paths -> Entries], NEW p \in Paths, NEW q \in Paths, p \in above[q]
  PROVE  comesBefore(indexPath(t, p), indexPath(t, q))
<1> DEFINE B == {x \in Paths : p \in above[x] /\ ~comesBefore(indexPath(t, p), indexPath(t, x))}
<1> SUFFICES ASSUME B # {} PROVE FALSE
  OBVIOUS
<1>1. PICK x \in B : Parent[x] = Root \/ (Parent[x] \in Paths /\ Parent[x] \notin B)
  BY PathInduction
<1>2. Parent[x] # Root /\ above[x] = above[Parent[x]] \cup {Parent[x]} /\ Parent[x] \in Paths
  BY <1>1, ChainIs
<1> DEFINE d == Parent[x]
<1>3. /\ indexPath(t, x) = Append(indexPath(t, d), place(t, x))
      /\ indexPath(t, d) \in Seq(Nat) /\ indexPath(t, x) \in Seq(Nat) /\ place(t, x) \in Nat
  BY <1>1, <1>2, IndexPathIs, PlaceIs
<1>4. comesBefore(indexPath(t, d), indexPath(t, x))
  <2> DEFINE a == indexPath(t, d)
             b == indexPath(t, x)
  <2>1. a \in Seq(Nat) /\ b \in Seq(Nat) /\ Len(b) = Len(a) + 1 /\ Len(a) \in Nat
        /\ \A j \in 1 .. Len(a) : a[j] = b[j]
    BY <1>3
  <2> HIDE DEF a, b
  <2>2. Len(a) + 1 \in 1 .. Len(b) /\ \A j \in 1 .. (Len(a) + 1) - 1 : j <= Len(a) /\ a[j] = b[j]
    BY <2>1
  <2>3. comesBefore(a, b)
    BY <2>1, <2>2, ComesBeforeIs
  <2> QED
    BY <2>3 DEF a, b
<1>5. p = d \/ comesBefore(indexPath(t, p), indexPath(t, d))
  BY <1>1, <1>2
<1>6. indexPath(t, p) \in Seq(Nat)
  BY IndexPathIs
<1> QED
  BY <1>1, <1>3, <1>4, <1>5, <1>6, IndexPathsAreOrdered

-----------------------------------------------------------------------------
(* The rows: the visible entries, each once, in the order of their index   *)
(* paths.                                                                  *)
shown(t, f) == {p \in Paths : visible(t, f, p)}
displayed(t, f) ==
  {e \in shown(t, f) \X shown(t, f) : comesBefore(indexPath(t, e[1]), indexPath(t, e[2]))}
rowOf(t, f, p) == first(shown(t, f), displayed(t, f), p)

LEMMA ShownAreOrdered ==
  ASSUME NEW t \in [Paths -> Entries], Nested(t), NEW f
  PROVE  IsFiniteSet(shown(t, f)) /\ IsOrder(displayed(t, f), shown(t, f))
<1>1. IsFiniteSet(shown(t, f))
  <2>1. shown(t, f) \in SUBSET Paths
    BY DEF shown
  <2> QED
    BY <2>1, TreeIsSound, FS_Subset
<1>2. \A p \in shown(t, f) : p \in Paths /\ listed(t, p) /\ indexPath(t, p) \in Seq(Nat)
  BY IndexPathIs DEF shown, visible
<1>3. \A p, q \in shown(t, f) :
        <<p, q>> \in displayed(t, f) <=> comesBefore(indexPath(t, p), indexPath(t, q))
  BY DEF displayed
<1>4. \A p, q \in shown(t, f) : indexPath(t, p) = indexPath(t, q) => p = q
  BY <1>2, IndexPathsDiffer
<1>5. \A p \in shown(t, f) : <<p, p>> \notin displayed(t, f)
  BY <1>2, <1>3, IndexPathsAreOrdered
<1>6. \A p, q \in shown(t, f) : p = q \/ <<p, q>> \in displayed(t, f) \/ <<q, p>> \in displayed(t, f)
  BY <1>2, <1>3, <1>4, IndexPathsAreOrdered
<1>7. \A p, q, s \in shown(t, f) :
        <<p, q>> \in displayed(t, f) /\ <<q, s>> \in displayed(t, f) => <<p, s>> \in displayed(t, f)
  BY <1>2, <1>3, IndexPathsAreOrdered
<1> QED
  BY <1>1, <1>5, <1>6, <1>7 DEF IsOrder

LEMMA RowsAre ==
  ASSUME NEW t \in [Paths -> Entries], Nested(t), NEW f
  PROVE  LET r == collectRows(t, f) IN
         /\ r \in Seq(Seq(Nat)) /\ Len(r) \in Nat
         /\ \A p \in shown(t, f) : /\ rowOf(t, f, p) \in 0 .. Len(r) - 1
                                   /\ r[rowOf(t, f, p) + 1] = indexPath(t, p)
         /\ \A i \in 0 .. Len(r) - 1 : \E p \in shown(t, f) : rowOf(t, f, p) = i
<1> DEFINE S == shown(t, f)
           n == Cardinality(S)
           r == collectRows(t, f)
           at == [p \in S |-> indexPath(t, p)]
           rank == [p \in S |-> Cardinality({q \in S : comesBefore(at[q], at[p])})]
<1>1. /\ n \in Nat
      /\ \A p \in S : rowOf(t, f, p) \in 0 .. n - 1
      /\ \A p, q \in S : rowOf(t, f, p) = rowOf(t, f, q) => p = q
      /\ \A i \in 0 .. n - 1 : \E p \in S : rowOf(t, f, p) = i
  BY ShownAreOrdered, Ranks DEF rowOf
<1>2. r = [i \in 1 .. n |-> at[CHOOSE p \in S : rank[p] = i - 1]]
  BY DEF collectRows, shown
<1>3. \A p \in S : rank[p] = rowOf(t, f, p)
  <2> SUFFICES ASSUME NEW p \in S PROVE rank[p] = rowOf(t, f, p)
    OBVIOUS
  <2>1. \A q \in S : <<q, p>> \in displayed(t, f) <=> comesBefore(at[q], at[p])
    BY DEF displayed
  <2>2. {q \in S : <<q, p>> \in displayed(t, f)} = {q \in S : comesBefore(at[q], at[p])}
    BY <2>1
  <2>3. rank[p] = Cardinality({q \in S : comesBefore(at[q], at[p])})
    OBVIOUS
  <2> QED
    BY <2>2, <2>3, Zenon DEF rowOf, first
<1>4. \A p \in S : at[p] = indexPath(t, p) /\ indexPath(t, p) \in Seq(Nat)
  BY IndexPathIs DEF shown
<1> HIDE DEF n, at, rank, r
<1>5. ASSUME NEW i \in 1 .. n
      PROVE  \E p \in S : rowOf(t, f, p) = i - 1 /\ r[i] = indexPath(t, p)
  <2> DEFINE c == CHOOSE p \in S : rank[p] = i - 1
  <2>1. i - 1 \in 0 .. n - 1
    BY <1>1
  <2>2. \E p \in S : rank[p] = i - 1
    BY <1>1, <1>3, <2>1
  <2>3. c \in S /\ rank[c] = i - 1
    BY <2>2
  <2>4. r[i] = at[c]
    BY <1>2
  <2> HIDE DEF c
  <2> QED
    BY <1>3, <1>4, <2>3, <2>4
<1>6. r \in Seq(Seq(Nat)) /\ Len(r) = n
  <2>1. \A i \in 1 .. n : r[i] \in Seq(Nat)
    BY <1>4, <1>5
  <2>2. r = [i \in 1 .. n |-> r[i]]
    BY <1>2
  <2> QED
    BY <1>1, <2>1, <2>2, IsASeq
<1>7. ASSUME NEW p \in S PROVE r[rowOf(t, f, p) + 1] = indexPath(t, p)
  <2>1. rowOf(t, f, p) \in Nat /\ rowOf(t, f, p) + 1 \in 1 .. n
    BY <1>1
  <2>2. PICK q \in S : /\ rowOf(t, f, q) = (rowOf(t, f, p) + 1) - 1
                       /\ r[rowOf(t, f, p) + 1] = indexPath(t, q)
    BY <1>5, <2>1
  <2>3. rowOf(t, f, q) = rowOf(t, f, p)
    BY <2>1, <2>2
  <2> QED
    BY <1>1, <2>2, <2>3
<1> QED
  BY <1>1, <1>6, <1>7 DEF r

(* The row of an entry, the entry of a row.                                *)
LEMMA RowShows ==
  ASSUME NEW t \in [Paths -> Entries], Nested(t), NEW f, NEW p \in shown(t, f)
  PROVE  rowAt(t, collectRows(t, f), rowOf(t, f, p)) = p
<1> DEFINE r == collectRows(t, f)
           k == rowOf(t, f, p)
<1>1. Len(r) \in Nat /\ k \in 0 .. Len(r) - 1 /\ r[k + 1] = indexPath(t, p)
  BY RowsAre
<1>2. listed(t, p) /\ p \in Paths
  BY DEF shown, visible
<1> HIDE DEF r, k
<1>3. rowAt(t, r, k) = entryAt(t, r[k + 1])
  BY <1>1 DEF rowAt
<1> QED
  BY <1>1, <1>2, <1>3, EntryIs DEF r, k

LEMMA RowIsOf ==
  ASSUME NEW t \in [Paths -> Entries], Nested(t), NEW f, NEW i \in Nat,
         rowAt(t, collectRows(t, f), i) # Root
  PROVE  /\ i < Len(collectRows(t, f))
         /\ rowAt(t, collectRows(t, f), i) \in shown(t, f)
         /\ rowOf(t, f, rowAt(t, collectRows(t, f), i)) = i
<1> DEFINE r == collectRows(t, f)
<1>1. i < Len(r)
  BY DEF rowAt
<1>2. Len(r) \in Nat /\ i \in 0 .. Len(r) - 1
  BY <1>1, RowsAre
<1>3. PICK p \in shown(t, f) : rowOf(t, f, p) = i
  BY <1>2, RowsAre
<1>4. rowAt(t, r, i) = p
  BY <1>3, RowShows
<1> QED
  BY <1>1, <1>3, <1>4

LEMMA FollowFinds ==
  ASSUME NEW t \in [Paths -> Entries], Nested(t), NEW f, NEW p \in shown(t, f), NEW i
  PROVE  LET r == collectRows(t, f) IN
         /\ follow(t, r, p, i) \in 0 .. Len(r) - 1
         /\ rowAt(t, r, follow(t, r, p, i)) = p
<1> DEFINE r == collectRows(t, f)
           here == {k \in 0 .. (Len(r) - 1) : r[k + 1] = indexPath(t, p)}
           k == follow(t, r, p, i)
<1>1. p \in Paths /\ p # Root /\ listed(t, p)
  BY ParentIsBefore DEF shown, visible, Root
<1>2. here # {}
  BY RowsAre
<1>3. k \in here
  BY <1>1, <1>2 DEF follow
<1>4. k \in 0 .. Len(r) - 1 /\ r[k + 1] = indexPath(t, p)
  BY <1>3
<1>5. Len(r) \in Nat
  BY RowsAre
<1> HIDE DEF r, k
<1>6. rowAt(t, r, k) = entryAt(t, r[k + 1])
  BY <1>4, <1>5 DEF rowAt
<1>7. entryAt(t, r[k + 1]) = p
  BY <1>1, <1>4, EntryIs
<1> QED
  BY <1>4, <1>6, <1>7 DEF r, k

-----------------------------------------------------------------------------
(* What happens below an entry moves neither its row nor any row before.   *)
LEMMA AboveIsTransitive ==
  ASSUME NEW p \in Paths, NEW a \in Paths, NEW q \in Paths, a \in above[q], p \in above[a]
  PROVE  p \in above[q]
<1> DEFINE B == {x \in Paths : a \in above[x] /\ p \notin above[x]}
<1> SUFFICES ASSUME B # {} PROVE FALSE
  OBVIOUS
<1>1. PICK x \in B : Parent[x] = Root \/ (Parent[x] \in Paths /\ Parent[x] \notin B)
  BY PathInduction
<1>2. Parent[x] # Root /\ above[x] = above[Parent[x]] \cup {Parent[x]} /\ Parent[x] \in Paths
  BY <1>1, ChainIs
<1> QED
  BY <1>1, <1>2

OutsideIsKept(t, u, p) ==
  /\ u[p].isDir = t[p].isDir /\ u[p].status = t[p].status
  /\ \A q \in Paths : q # p /\ p \notin above[q] => u[q] = t[q]

LEMMA OutsideStays ==
  ASSUME NEW t \in [Paths -> Entries], NEW u \in [Paths -> Entries], NEW p \in Paths,
         OutsideIsKept(t, u, p), NEW q \in Paths, p \notin above[q], NEW f
  PROVE  /\ indexPath(u, q) = indexPath(t, q)
         /\ visible(u, f, q) <=> visible(t, f, q)
<1>1. ASSUME NEW x \in Paths, p \notin above[x] PROVE u[x].isDir = t[x].isDir /\ (listed(u, x) <=> listed(t, x))
  BY <1>1 DEF OutsideIsKept, listed
<1>2. ASSUME NEW x \in Paths, p \notin above[x] PROVE place(u, x) = place(t, x)
  <2>1. ASSUME NEW y \in Paths, Parent[y] = Parent[x] PROVE p \notin above[y]
    <3>1. above[y] = above[x]
      <4>1. CASE Parent[x] = Root
        BY <2>1, <4>1, ChainIs
      <4>2. CASE Parent[x] # Root
        <5>1. above[x] = above[Parent[x]] \cup {Parent[x]}
          BY <4>2, ChainIs
        <5>2. above[y] = above[Parent[y]] \cup {Parent[y]}
          BY <2>1, <4>2, ChainIs
        <5> QED
          BY <2>1, <5>1, <5>2
      <4> QED
        BY <4>1, <4>2
    <3> QED
      BY <1>2, <3>1
  <2>2. ASSUME NEW y \in Paths, Parent[y] = Parent[x]
        PROVE  (listed(u, y) <=> listed(t, y)) /\ (sortsBefore(u, y, x) <=> sortsBefore(t, y, x))
    BY <1>1, <1>2, <2>1, <2>2 DEF sortsBefore
  <2>3. {y \in Paths : listed(u, y) /\ Parent[y] = Parent[x] /\ sortsBefore(u, y, x)}
          = {y \in Paths : listed(t, y) /\ Parent[y] = Parent[x] /\ sortsBefore(t, y, x)}
    BY <2>2
  <2> QED
    BY <2>3 DEF place
<1>3. indexPath(u, q) = indexPath(t, q)
  <2> DEFINE B == {x \in Paths : p \notin above[x] /\ indexPath(u, x) # indexPath(t, x)}
  <2> SUFFICES ASSUME B # {} PROVE FALSE
    OBVIOUS
  <2>1. PICK x \in B : Parent[x] = Root \/ (Parent[x] \in Paths /\ Parent[x] \notin B)
    BY PathInduction
  <2>2. x \in Paths /\ p \notin above[x] /\ place(u, x) = place(t, x) /\ indexPath(u, x) # indexPath(t, x)
    BY <1>2, <2>1
  <2>3. Parent[x] # Root
    <3>1. Parent[x] = Root => indexPath(u, x) = <<place(u, x)>> /\ indexPath(t, x) = <<place(t, x)>>
      BY <2>2, IndexPathIs
    <3> QED
      BY <2>2, <3>1
  <2>4. Parent[x] \in Paths /\ above[x] = above[Parent[x]] \cup {Parent[x]}
    BY <2>2, <2>3, ChainIs, ParentIsBefore
  <2>5. indexPath(u, Parent[x]) = indexPath(t, Parent[x])
    BY <2>1, <2>2, <2>3, <2>4
  <2>6. /\ indexPath(u, x) = Append(indexPath(u, Parent[x]), place(u, x))
        /\ indexPath(t, x) = Append(indexPath(t, Parent[x]), place(t, x))
    BY <2>2, <2>3, IndexPathIs
  <2> QED
    BY <2>2, <2>5, <2>6
<1>4. ASSUME NEW a \in above[q] PROVE a \in Paths /\ u[a] = t[a]
  <2>1. a \in Paths
    BY AboveType
  <2>2. p \notin above[a] /\ a # p
    BY <2>1, AboveIsTransitive
  <2> QED
    BY <2>1, <2>2 DEF OutsideIsKept
<1>5. \A x \in Paths : u[x].isDir = t[x].isDir => (passes(u, f, x) <=> passes(t, f, x))
  BY DEF passes
<1>6. /\ listed(u, q) <=> listed(t, q)
      /\ passes(u, f, q) <=> passes(t, f, q)
  BY <1>1, <1>5
<1>7. \A a \in above[q] : (t[a].isDir /\ t[a].expanded /\ passes(t, f, a))
                            <=> (u[a].isDir /\ u[a].expanded /\ passes(u, f, a))
  BY <1>4, <1>5
<1>8. visible(u, f, q) <=> visible(t, f, q)
  BY <1>6, <1>7 DEF visible
<1> QED
  BY <1>3, <1>8

LEMMA RowStays ==
  ASSUME NEW t \in [Paths -> Entries], NEW u \in [Paths -> Entries], NEW p \in Paths,
         OutsideIsKept(t, u, p), NEW f, p \in shown(t, f)
  PROVE  p \in shown(u, f) /\ rowOf(u, f, p) = rowOf(t, f, p)
<1>0. p \notin above[p]
  <2>1. indexPath(t, p) \in Seq(Nat)
    BY IndexPathIs
  <2> QED
    BY <2>1, BelowComesAfter, IndexPathsAreOrdered
<1>1. visible(u, f, p) /\ indexPath(u, p) = indexPath(t, p)
  BY <1>0, OutsideStays DEF shown
<1>2. ASSUME NEW v \in [Paths -> Entries], NEW q \in Paths, comesBefore(indexPath(v, q), indexPath(v, p))
      PROVE  p \notin above[q]
  <2>1. indexPath(v, q) \in Seq(Nat) /\ indexPath(v, p) \in Seq(Nat)
    BY IndexPathIs
  <2> QED
    BY <1>2, <2>1, BelowComesAfter, IndexPathsAreOrdered
<1>3. \A q \in Paths : (visible(u, f, q) /\ comesBefore(indexPath(u, q), indexPath(u, p)))
                         <=> (visible(t, f, q) /\ comesBefore(indexPath(t, q), indexPath(t, p)))
  <2> SUFFICES ASSUME NEW q \in Paths
               PROVE  (visible(u, f, q) /\ comesBefore(indexPath(u, q), indexPath(u, p)))
                        <=> (visible(t, f, q) /\ comesBefore(indexPath(t, q), indexPath(t, p)))
    OBVIOUS
  <2>1. CASE p \in above[q]
    BY <1>2, <2>1
  <2>2. CASE p \notin above[q]
    BY <1>1, <2>2, OutsideStays
  <2> QED
    BY <2>1, <2>2
<1>4. p \in shown(u, f) /\ p \in shown(t, f)
  BY <1>1 DEF shown
<1>5. \A q \in Paths : (q \in shown(u, f) /\ <<q, p>> \in displayed(u, f))
                         <=> (q \in shown(t, f) /\ <<q, p>> \in displayed(t, f))
  BY <1>3, <1>4 DEF shown, displayed
<1>6. {q \in shown(u, f) : <<q, p>> \in displayed(u, f)} = {q \in shown(t, f) : <<q, p>> \in displayed(t, f)}
  <2>1. shown(u, f) \subseteq Paths /\ shown(t, f) \subseteq Paths
    BY DEF shown
  <2> QED
    BY <1>5, <2>1
<1> QED
  BY <1>4, <1>6 DEF rowOf, first

-----------------------------------------------------------------------------
(* What was read since the last scan.  An entry below directories that the *)
(* indexes know as they are tells of the disk: a refresh with nothing new  *)
(* for the indexes has nothing new at all, and moves no row.               *)
tells(t, p) ==
  IF exists(p) THEN t[p].status = classify(p).status /\ t[p].changedAt = classify(p).changedAt
  ELSE t[p].status \in {"Unlisted", "Deleted"}

SeenSinceTheScan(t) ==
  \A p \in Paths :
    Parent[p] # Root /\ reached(t, p) /\ disk[p] = scanned[p] /\ (\A a \in above[p] : disk[a] = scanned[a])
      => tells(t, p)

GoneHaveNoTime(t) == \A p \in Paths : t[p].status = "Deleted" => t[p].changedAt = 0

WellRead(t) == Nested(t) /\ GoneHaveNoTime(t) /\ SeenSinceTheScan(t)

LEMMA FoldFields ==
  ASSUME NEW t \in [Paths -> Entries], NEW p \in Paths, NEW b \in BOOLEAN
  PROVE  LET u == [t EXCEPT ![p].expanded = b] IN
         /\ u \in [Paths -> Entries]
         /\ \A q \in Paths : /\ u[q].status = t[q].status /\ u[q].changedAt = t[q].changedAt
                             /\ u[q].isDir = t[q].isDir /\ u[q].loaded = t[q].loaded
                             /\ q # p => u[q] = t[q]
<1> DEFINE u == [t EXCEPT ![p].expanded = b]
           e == [t[p] EXCEPT !.expanded = b]
<1>1. u = [q \in Paths |-> IF q = p THEN e ELSE t[q]]
  OBVIOUS
<1>2. /\ e \in Entries /\ e.status = t[p].status /\ e.changedAt = t[p].changedAt
      /\ e.isDir = t[p].isDir /\ e.loaded = t[p].loaded
  <2>1. t[p] \in Entries
    OBVIOUS
  <2> QED
    BY <2>1 DEF Entries
<1> HIDE DEF e, u
<1>3. u \in [Paths -> Entries]
  BY <1>1, <1>2
<1> QED
  BY <1>1, <1>2, <1>3 DEF u

LEMMA WellReadFold ==
  ASSUME NEW t \in [Paths -> Entries], WellRead(t), NEW p \in Paths, NEW b \in BOOLEAN
  PROVE  LET u == [t EXCEPT ![p].expanded = b] IN
         u \in [Paths -> Entries] /\ WellRead(u) /\ OutsideIsKept(t, u, p)
<1> DEFINE u == [t EXCEPT ![p].expanded = b]
<1>1. /\ u \in [Paths -> Entries]
      /\ \A q \in Paths : /\ u[q].status = t[q].status /\ u[q].changedAt = t[q].changedAt
                          /\ u[q].isDir = t[q].isDir /\ u[q].loaded = t[q].loaded
                          /\ q # p => u[q] = t[q]
  BY FoldFields
<1> HIDE DEF u
<1>2. Nested(u)
  <2> SUFFICES ASSUME NEW q \in Paths
               PROVE  /\ u[q].loaded => listed(u, q)
                      /\ listed(u, q) /\ Parent[q] # Root => u[Parent[q]].loaded
    BY DEF Nested
  <2> QED
    BY <1>1, ParentIsBefore DEF WellRead, Nested, listed
<1>3. GoneHaveNoTime(u)
  BY <1>1 DEF WellRead, GoneHaveNoTime
<1>4. \A q \in Paths : (reached(u, q) <=> reached(t, q)) /\ (tells(u, q) <=> tells(t, q))
  BY <1>1, AboveType DEF reached, tells
<1>5. SeenSinceTheScan(u)
  BY <1>4 DEF WellRead, SeenSinceTheScan
<1>6. OutsideIsKept(t, u, p)
  BY <1>1 DEF OutsideIsKept
<1> QED
  BY <1>1, <1>2, <1>3, <1>5, <1>6 DEF WellRead, u

LEMMA LoadFields ==
  ASSUME DiskTypes, Ages, TimesTell, NEW t \in [Paths -> Entries], NEW folder \in Paths,
         ~t[folder].loaded
  PROVE  LET u == loadChildren(t, folder) IN
         /\ u \in [Paths -> Entries]
         /\ u[folder].loaded
         /\ u[folder].status = t[folder].status /\ u[folder].changedAt = t[folder].changedAt
         /\ u[folder].isDir = t[folder].isDir
         /\ \A q \in Paths : Parent[q] = folder /\ exists(q) =>
              ~u[q].loaded /\ tells(u, q) /\ u[q].status \in {"New", "Modified", "Unchanged"}
         /\ \A q \in Paths : q # folder /\ ~(Parent[q] = folder /\ exists(q)) => u[q] = t[q]
<1> DEFINE u == loadChildren(t, folder)
           e == [t[folder] EXCEPT !.loaded = TRUE]
<1>1. u = [q \in Paths |-> IF q = folder THEN e
                           ELSE IF Parent[q] = folder /\ exists(q) THEN retag(q, Unlisted)
                           ELSE t[q]]
  BY Zenon DEF loadChildren
<1>2. /\ e \in Entries /\ e.loaded /\ e.status = t[folder].status
      /\ e.changedAt = t[folder].changedAt /\ e.isDir = t[folder].isDir
  <2>1. t[folder] \in Entries
    OBVIOUS
  <2> QED
    BY <2>1 DEF Entries
<1> HIDE DEF e, u
<1>3. ASSUME NEW q \in Paths, exists(q)
      PROVE  LET r == retag(q, Unlisted) IN
             /\ r \in Entries /\ ~r.loaded
             /\ r.status = classify(q).status /\ r.changedAt = classify(q).changedAt
             /\ r.status \in {"New", "Modified", "Unchanged"}
  <2>1. Unlisted \in Entries /\ ~Unlisted.loaded
    BY UnlistedIs DEF Unlisted
  <2>2. LET r == retag(q, Unlisted) IN
        /\ r \in Entries /\ r.loaded = Unlisted.loaded
        /\ \/ r.status = "New"
           \/ r.status = "Modified"
           \/ r.status = "Unchanged"
    BY <1>3, <2>1, RetagIs
  <2> QED
    BY <1>3, <2>1, <2>2, RetagFields
<1>4. \A q \in Paths : u[q] \in Entries
  BY <1>1, <1>2, <1>3
<1>5. u \in [Paths -> Entries]
  BY <1>1, <1>4
<1>6. u[folder] = e
  BY <1>1
<1>7. ASSUME NEW q \in Paths, Parent[q] = folder, exists(q)
      PROVE  ~u[q].loaded /\ tells(u, q) /\ u[q].status \in {"New", "Modified", "Unchanged"}
  <2>1. q # folder
    BY <1>7, NotItsOwnParent
  <2>2. u[q] = retag(q, Unlisted)
    BY <1>1, <1>7, <2>1
  <2> QED
    BY <1>3, <1>7, <2>2 DEF tells
<1>8. \A q \in Paths : q # folder /\ ~(Parent[q] = folder /\ exists(q)) => u[q] = t[q]
  BY <1>1
<1> QED
  BY <1>2, <1>5, <1>6, <1>7, <1>8 DEF u

(* Nothing is listed below a directory that has not been read.             *)
LEMMA BelowTheUnread ==
  ASSUME NEW t \in [Paths -> Entries], Nested(t), NEW p \in Paths, ~t[p].loaded,
         NEW q \in Paths, p \in above[q]
  PROVE  ~listed(t, q)
<1> DEFINE B == {x \in Paths : p \in above[x] /\ listed(t, x)}
<1> SUFFICES ASSUME B # {} PROVE FALSE
  OBVIOUS
<1>1. PICK x \in B : Parent[x] = Root \/ (Parent[x] \in Paths /\ Parent[x] \notin B)
  BY PathInduction
<1>2. Parent[x] # Root /\ above[x] = above[Parent[x]] \cup {Parent[x]} /\ Parent[x] \in Paths
  BY <1>1, ChainIs
<1>3. t[Parent[x]].loaded /\ listed(t, Parent[x])
  BY <1>1, <1>2 DEF Nested
<1> QED
  BY <1>1, <1>2, <1>3

LEMMA WellReadLoad ==
  ASSUME DiskTypes, Ages, TimesTell, NEW t \in [Paths -> Entries], WellRead(t),
         NEW folder \in Paths, listed(t, folder)
  PROVE  LET u == loadChildren(t, folder) IN
         u \in [Paths -> Entries] /\ WellRead(u) /\ OutsideIsKept(t, u, folder)
<1> DEFINE u == loadChildren(t, folder)
<1>1. CASE t[folder].loaded
  <2>1. u = t
    BY <1>1 DEF loadChildren
  <2> QED
    BY <2>1 DEF OutsideIsKept
<1>2. CASE ~t[folder].loaded
  <2>1. /\ u \in [Paths -> Entries]
        /\ u[folder].loaded
        /\ u[folder].status = t[folder].status /\ u[folder].changedAt = t[folder].changedAt
        /\ u[folder].isDir = t[folder].isDir
        /\ \A q \in Paths : Parent[q] = folder /\ exists(q) =>
             ~u[q].loaded /\ tells(u, q) /\ u[q].status \in {"New", "Modified", "Unchanged"}
        /\ \A q \in Paths : q # folder /\ ~(Parent[q] = folder /\ exists(q)) => u[q] = t[q]
    BY <1>2, LoadFields
  <2> HIDE DEF u
  <2>2. /\ \A q \in Paths : t[q].loaded => listed(t, q)
        /\ \A q \in Paths : listed(t, q) /\ Parent[q] # Root => t[Parent[q]].loaded
    BY DEF WellRead, Nested
  <2>3. ASSUME NEW q \in Paths
        PROVE  /\ u[q].loaded => listed(u, q)
               /\ t[q].loaded => u[q].loaded
    <3>1. CASE q = folder
      BY <2>1, <3>1 DEF listed
    <3>2. CASE q # folder /\ Parent[q] = folder /\ exists(q)
      <4>1. ~listed(t, q)
        BY <1>2, <2>2, <3>2, ParentIsBefore, TreeIsSound
      <4> QED
        BY <2>1, <2>2, <3>2, <4>1
    <3>3. CASE q # folder /\ ~(Parent[q] = folder /\ exists(q))
      BY <2>1, <2>2, <3>3 DEF listed
    <3> QED
      BY <3>1, <3>2, <3>3
  <2>4. ASSUME NEW q \in Paths, listed(u, q), Parent[q] # Root PROVE u[Parent[q]].loaded
    <3>1. Parent[q] \in Paths
      BY <2>4, ParentIsBefore
    <3>2. CASE Parent[q] = folder
      BY <2>1, <3>2
    <3>3. CASE Parent[q] # folder
      <4>1. listed(t, q)
        BY <2>1, <2>4, <3>3 DEF listed
      <4> QED
        BY <2>2, <2>3, <2>4, <3>1, <4>1
    <3> QED
      BY <3>2, <3>3
  <2>5. Nested(u)
    BY <2>3, <2>4 DEF Nested
  <2>6. GoneHaveNoTime(u)
    <3> SUFFICES ASSUME NEW q \in Paths, u[q].status = "Deleted" PROVE u[q].changedAt = 0
      BY DEF GoneHaveNoTime
    <3>1. t[q].status = "Deleted" => t[q].changedAt = 0
      BY DEF WellRead, GoneHaveNoTime
    <3> QED
      BY <2>1, <3>1
  <2>7. ASSUME NEW q \in Paths, Parent[q] # Root, reached(u, q), disk[q] = scanned[q],
               \A a \in above[q] : disk[a] = scanned[a]
        PROVE  tells(u, q)
    <3>1. CASE Parent[q] = folder
      <4>1. exists(q) => tells(u, q)
        BY <2>1, <3>1
      <4>2. ~exists(q) => u[q] = t[q]
        BY <2>1, <3>1, NotItsOwnParent
      <4>3. folder \in above[q]
        BY <2>7, <3>1, ChainIs
      <4>4. ~listed(t, q)
        BY <1>2, <4>3, BelowTheUnread DEF WellRead
      <4> QED
        BY <4>1, <4>2, <4>4 DEF tells, listed
    <3>2. CASE Parent[q] # folder /\ folder \in above[q]
      <4>1. Parent[q] \in Paths /\ above[q] = above[Parent[q]] \cup {Parent[q]}
        BY <2>7, ChainIs, ParentIsBefore
      <4>2. folder \in above[Parent[q]]
        BY <3>2, <4>1
      <4>3. ~listed(t, Parent[q])
        BY <1>2, <4>1, <4>2, BelowTheUnread DEF WellRead
      <4>4. ~t[Parent[q]].loaded
        BY <2>2, <4>1, <4>3
      <4>5. ~u[Parent[q]].loaded
        BY <2>1, <3>2, <4>1, <4>4
      <4> QED
        BY <2>7, <4>1, <4>5 DEF reached
    <3>3. CASE folder \notin above[q]
      <4>1. Parent[q] # folder
        BY <2>7, <3>3, ChainIs
      <4>2. u[q].status = t[q].status /\ u[q].changedAt = t[q].changedAt
        BY <2>1, <4>1
      <4>3. ASSUME NEW a \in above[q] PROVE u[a].loaded => t[a].loaded
        <5>1. a \in Paths /\ a # folder
          BY <3>3, AboveType
        <5>2. u[a] = t[a] \/ ~u[a].loaded
          BY <2>1, <5>1
        <5> QED
          BY <5>2
      <4>4. reached(t, q)
        BY <2>7, <4>3 DEF reached
      <4> QED
        BY <2>7, <4>2, <4>4 DEF WellRead, SeenSinceTheScan, tells
    <3> QED
      BY <3>1, <3>2, <3>3
  <2>8. OutsideIsKept(t, u, folder)
    <3> SUFFICES ASSUME NEW q \in Paths, q # folder, folder \notin above[q] PROVE u[q] = t[q]
      BY <2>1 DEF OutsideIsKept
    <3>1. Parent[q] # folder
      <4>1. Parent[q] = Root \/ Parent[q] \in above[q]
        BY ChainIs
      <4> QED
        BY <4>1, ParentIsBefore DEF Root
    <3> QED
      BY <2>1, <3>1
  <2>9. SeenSinceTheScan(u)
    BY <2>7 DEF SeenSinceTheScan
  <2> QED
    BY <2>1, <2>5, <2>6, <2>8, <2>9 DEF WellRead, u
<1> QED
  BY <1>1, <1>2

LEMMA WellReadRefreshed ==
  ASSUME DiskTypes, Ages, TimesTell, NEW t \in [Paths -> Entries], WellRead(t)
  PROVE  LET u == refreshed(t) IN
         /\ Nested(u) /\ GoneHaveNoTime(u)
         /\ \A p \in Paths : reached(u, p) => tells(u, p)
<1> DEFINE u == refreshed(t)
<1>1. ASSUME NEW p \in Paths
      PROVE  /\ t[p] \in Entries /\ u[p] \in Entries /\ u[p].loaded = t[p].loaded
             /\ ~reached(t, p) => u[p] = t[p]
             /\ reached(t, p) /\ exists(p) => u[p] = retag(p, t[p])
             /\ reached(t, p) /\ ~exists(p) /\ t[p].status # "Unlisted" =>
                  u[p].status = "Deleted" /\ u[p].changedAt = 0
             /\ reached(t, p) /\ ~exists(p) /\ t[p].status = "Unlisted" => u[p] = t[p]
             /\ reached(u, p) <=> reached(t, p)
  BY RefreshedIs, RefreshedType
<1> HIDE DEF u
<1>2. ASSUME NEW p \in Paths, reached(t, p), exists(p)
      PROVE  /\ u[p].status = classify(p).status /\ u[p].changedAt = classify(p).changedAt
             /\ u[p].status \in {"New", "Modified", "Unchanged"}
  <2>1. u[p] = retag(p, t[p]) /\ t[p] \in Entries
    BY <1>1, <1>2
  <2>2. /\ retag(p, t[p]).status = classify(p).status
        /\ retag(p, t[p]).changedAt = classify(p).changedAt
    BY <1>2, <2>1, RetagFields
  <2>3. LET r == retag(p, t[p]) IN r.status = "New" \/ r.status = "Modified" \/ r.status = "Unchanged"
    BY <1>2, <2>1, RetagIs
  <2> QED
    BY <2>1, <2>2, <2>3
<1>3. ASSUME NEW p \in Paths PROVE listed(t, p) => listed(u, p)
  BY <1>1, <1>2 DEF listed
<1>4. ASSUME NEW p \in Paths, listed(u, p), Parent[p] # Root PROVE u[Parent[p]].loaded
  <2>1. Parent[p] \in Paths /\ Parent[p] \in above[p]
    BY <1>4, ChainIs, ParentIsBefore
  <2>2. CASE reached(t, p)
    BY <1>1, <2>1, <2>2 DEF reached
  <2>3. CASE ~reached(t, p)
    BY <1>1, <1>4, <2>1, <2>3 DEF WellRead, Nested, listed
  <2> QED
    BY <2>2, <2>3
<1>5. Nested(u)
  <2>1. ASSUME NEW p \in Paths, u[p].loaded PROVE listed(u, p)
    BY <1>1, <1>3, <2>1 DEF WellRead, Nested
  <2> QED
    BY <1>4, <2>1 DEF Nested
<1>6. GoneHaveNoTime(u)
  <2> SUFFICES ASSUME NEW p \in Paths, u[p].status = "Deleted" PROVE u[p].changedAt = 0
    BY DEF GoneHaveNoTime
  <2>1. t[p].status = "Deleted" => t[p].changedAt = 0
    BY DEF WellRead, GoneHaveNoTime
  <2> QED
    BY <1>1, <1>2, <2>1
<1>7. ASSUME NEW p \in Paths, reached(u, p) PROVE tells(u, p)
  <2>1. reached(t, p)
    BY <1>1, <1>7
  <2>2. CASE exists(p)
    BY <1>2, <2>1, <2>2 DEF tells
  <2>3. CASE ~exists(p)
    BY <1>1, <2>1, <2>3 DEF tells
  <2> QED
    BY <2>2, <2>3
<1> QED
  BY <1>5, <1>6, <1>7 DEF u

(* With nothing new for the indexes, a refresh reports nothing.            *)
LEMMA QuietWhenScanned ==
  ASSUME BInv, WellRead(tree), disk = scanned
  PROVE  ~differs(tree, refreshed(tree))
<1>1. /\ DiskTypes /\ Ages /\ TimesTell /\ tree \in [Paths -> Entries] /\ Indexed(tree, scanned)
  BY DEF BInv, AllTold
<1> DEFINE u == refreshed(tree)
<1>2. ASSUME NEW p \in Paths, reached(tree, p) PROVE tells(tree, p)
  <2>1. CASE Parent[p] = Root
    <3>1. p \in top
      BY <2>1 DEF top
    <3> QED
      BY <1>1, <3>1 DEF Indexed, tells, exists, classify
  <2>2. CASE Parent[p] # Root
    BY <1>2, <2>2 DEF WellRead, SeenSinceTheScan
  <2> QED
    BY <2>1, <2>2
<1>3. ASSUME NEW p \in Paths
      PROVE  u[p].status = tree[p].status /\ u[p].changedAt = tree[p].changedAt
  <2>1. /\ tree[p] \in Entries
        /\ ~reached(tree, p) => u[p] = tree[p]
        /\ reached(tree, p) /\ exists(p) => u[p] = retag(p, tree[p])
        /\ reached(tree, p) /\ ~exists(p) /\ tree[p].status # "Unlisted" =>
             u[p].status = "Deleted" /\ u[p].changedAt = 0
        /\ reached(tree, p) /\ ~exists(p) /\ tree[p].status = "Unlisted" => u[p] = tree[p]
    BY <1>1, RefreshedIs
  <2> HIDE DEF u
  <2>2. CASE ~reached(tree, p)
    BY <2>1, <2>2
  <2>3. CASE reached(tree, p) /\ exists(p)
    <3>1. /\ retag(p, tree[p]).status = classify(p).status
          /\ retag(p, tree[p]).changedAt = classify(p).changedAt
      BY <1>1, <2>1, <2>3, RetagFields
    <3>2. tells(tree, p)
      BY <1>2, <2>3
    <3> QED
      BY <2>1, <2>3, <3>1, <3>2 DEF tells
  <2>4. CASE reached(tree, p) /\ ~exists(p)
    <3>1. tells(tree, p) /\ (tree[p].status = "Deleted" => tree[p].changedAt = 0)
      BY <1>2, <2>4 DEF WellRead, GoneHaveNoTime
    <3> QED
      BY <2>1, <2>4, <3>1 DEF tells
  <2> QED
    BY <2>2, <2>3, <2>4
<1> HIDE DEF u
<1>4. ~differs(tree, u)
  BY <1>3 DEF differs
<1> QED
  BY <1>4 DEF u

-----------------------------------------------------------------------------
(* Where the selection is.                                                 *)
SelectedIsARow == selected \in Nat /\ (selected # 0 => selected < Len(rows))
FilesAreFiles == files \subseteq Files
DiskIsATree == \A p \in Paths : exists(p) /\ Parent[p] # Root => disk[Parent[p]].isDir
SearchTyped ==
  filter \in (SUBSET Files) \cup {Everything} /\ search \in (SUBSET Files) \cup {NoSearch}

PlaceInv ==
  BInv /\ WellRead(tree) /\ SelectedIsARow /\ DiskIsATree /\ FilesAreFiles /\ SearchTyped

LEMMA ClampIs ==
  ASSUME NEW i \in Nat, NEW n \in Nat
  PROVE  /\ clamp(i, n) \in Nat /\ (clamp(i, n) # 0 => clamp(i, n) < n)
         /\ i < n => clamp(i, n) = i
BY DEF clamp

LEMMA FollowIs ==
  ASSUME NEW t \in [Paths -> Entries], Nested(t), NEW f, NEW entry, NEW i \in Nat
  PROVE  LET k == follow(t, collectRows(t, f), entry, i) IN
         k \in Nat /\ (k # 0 => k < Len(collectRows(t, f)))
<1> DEFINE r == collectRows(t, f)
           here == {k \in 0 .. (Len(r) - 1) : r[k + 1] = indexPath(t, entry)}
<1>1. Len(r) \in Nat
  BY RowsAre
<1> HIDE DEF r
<1>2. CASE entry = Root \/ here = {}
  <2>1. follow(t, r, entry, i) = clamp(i, Len(r))
    BY <1>2 DEF follow
  <2> QED
    BY <1>1, <2>1, ClampIs DEF r
<1>3. CASE entry # Root /\ here # {}
  <2>1. follow(t, r, entry, i) = CHOOSE k \in here : TRUE
    BY <1>3 DEF follow
  <2>2. follow(t, r, entry, i) \in here
    BY <1>3, <2>1
  <2>3. follow(t, r, entry, i) \in 0 .. (Len(r) - 1)
    BY <2>2
  <2> QED
    BY <1>1, <2>3 DEF r
<1> QED
  BY <1>2, <1>3

LEMMA PlaceFacts ==
  ASSUME PlaceInv
  PROVE  /\ DiskTypes /\ Ages /\ TimesTell /\ AllTold(tree) /\ RowsShowTheTree
         /\ tree \in [Paths -> Entries] /\ WellRead(tree) /\ Nested(tree)
         /\ selected \in Nat
         /\ rows = collectRows(tree, filter)
BY DEF PlaceInv, BInv, AllTold, WellRead, SelectedIsARow, RowsShowTheTree

LEMMA SelectedIs ==
  ASSUME PlaceInv, selectedEntry # Root
  PROVE  /\ selectedEntry \in shown(tree, filter) /\ selectedEntry \in Paths
         /\ listed(tree, selectedEntry)
         /\ rowOf(tree, filter, selectedEntry) = selected
         /\ rows[selected + 1] = indexPath(tree, selectedEntry)
<1>1. /\ tree \in [Paths -> Entries] /\ Nested(tree) /\ selected \in Nat
      /\ rows = collectRows(tree, filter)
  BY PlaceFacts
<1>2. /\ selectedEntry \in shown(tree, filter)
      /\ rowOf(tree, filter, selectedEntry) = selected
  BY <1>1, RowIsOf DEF selectedEntry
<1>3. rows[selected + 1] = indexPath(tree, selectedEntry)
  BY <1>1, <1>2, RowsAre
<1> QED
  BY <1>2, <1>3 DEF shown, visible

(* The entry that was folded or read keeps its row.                        *)
LEMMA FoldedKeepsPlace ==
  ASSUME PlaceInv, selectedEntry # Root, RebuildRows, filter' = filter,
         tree' \in [Paths -> Entries], Nested(tree'), OutsideIsKept(tree, tree', selectedEntry)
  PROVE  selected' \in Nat /\ selected' < Len(rows') /\ rowAt(tree', rows', selected') = selectedEntry
<1> DEFINE p == selectedEntry
<1>1. /\ p \in shown(tree, filter) /\ p \in Paths /\ rowOf(tree, filter, p) = selected
      /\ tree \in [Paths -> Entries] /\ selected \in Nat
  BY SelectedIs, PlaceFacts
<1>2. rows' = collectRows(tree', filter) /\ selected' = clamp(selected, Len(rows'))
  BY DEF RebuildRows
<1> HIDE DEF p
<1>3. p \in shown(tree', filter) /\ rowOf(tree', filter, p) = selected
  BY <1>1, RowStays DEF p
<1>4. Len(rows') \in Nat /\ selected \in 0 .. Len(rows') - 1
  BY <1>2, <1>3, RowsAre
<1>5. selected' = selected
  BY <1>1, <1>2, <1>4, ClampIs
<1>6. rowAt(tree', rows', selected) = p
  BY <1>2, <1>3, RowShows
<1> QED
  BY <1>1, <1>4, <1>5, <1>6 DEF p

LEMMA UnfoldingIs ==
  ASSUME PlaceInv, selectedEntry # Root, NEW b \in BOOLEAN,
         \/ tree' = [tree EXCEPT ![selectedEntry].expanded = b]
         \/ tree' = [loadChildren(tree, selectedEntry) EXCEPT ![selectedEntry].expanded = b]
  PROVE  /\ tree' \in [Paths -> Entries] /\ WellRead(tree')
         /\ OutsideIsKept(tree, tree', selectedEntry)
<1> DEFINE p == selectedEntry
           u == loadChildren(tree, p)
<1>1. p \in Paths /\ listed(tree, p) /\ tree \in [Paths -> Entries] /\ WellRead(tree)
      /\ DiskTypes /\ Ages /\ TimesTell
  BY SelectedIs, PlaceFacts
<1> HIDE DEF p
<1>2. CASE tree' = [tree EXCEPT ![p].expanded = b]
  BY <1>1, <1>2, WellReadFold DEF p
<1>3. CASE tree' = [u EXCEPT ![p].expanded = b]
  <2>1. u \in [Paths -> Entries] /\ WellRead(u) /\ OutsideIsKept(tree, u, p)
    BY <1>1, WellReadLoad
  <2> HIDE DEF u
  <2>2. tree' \in [Paths -> Entries] /\ WellRead(tree') /\ OutsideIsKept(u, tree', p)
    BY <1>1, <1>3, <2>1, WellReadFold
  <2>3. OutsideIsKept(tree, tree', p)
    BY <2>1, <2>2 DEF OutsideIsKept
  <2> QED
    BY <2>2, <2>3 DEF p
<1> QED
  BY <1>2, <1>3 DEF p

LEMMA ParentIsShown ==
  ASSUME NEW t, Nested(t), NEW f, NEW p \in shown(t, f), Parent[p] # Root
  PROVE  Parent[p] \in shown(t, f)
<1>1. p \in Paths /\ visible(t, f, p)
  BY DEF shown
<1>2. above[p] = above[Parent[p]] \cup {Parent[p]} /\ Parent[p] \in Paths
  BY <1>1, ChainIs, ParentIsBefore
<1>3. listed(t, Parent[p])
  BY <1>1, <1>2 DEF visible, Nested
<1> QED
  BY <1>1, <1>2, <1>3 DEF visible, shown

LEMMA InitPlaceInv == Init => PlaceInv
<1> SUFFICES ASSUME Init PROVE PlaceInv
  OBVIOUS
<1>1. /\ disk \in InitialDisks /\ selected = 0 /\ filter = Everything /\ search = NoSearch
      /\ tree = [p \in Paths |-> IF Parent[p] = Root /\ exists(p)
                                 THEN retag(p, Unlisted) ELSE Unlisted]
  BY DEF Init
<1>2. BInv
  BY InitInv
<1>3. ASSUME NEW p \in Paths
      PROVE  ~tree[p].loaded /\ tree[p].status # "Deleted" /\ (listed(tree, p) => Parent[p] = Root)
  <2>1. CASE Parent[p] = Root /\ exists(p)
    <3>1. tree[p] = retag(p, Unlisted)
      BY <1>1, <2>1
    <3>2. LET r == retag(p, Unlisted) IN
          /\ r.loaded = Unlisted.loaded
          /\ r.status = "New" \/ r.status = "Modified" \/ r.status = "Unchanged"
      BY <1>2, <2>1, UnlistedIs, RetagIs DEF BInv
    <3> QED
      BY <2>1, <3>1, <3>2 DEF Unlisted
  <2>2. CASE ~(Parent[p] = Root /\ exists(p))
    <3>1. tree[p] = Unlisted
      BY <1>1, <2>2
    <3> QED
      BY <3>1 DEF Unlisted, listed
  <2> QED
    BY <2>1, <2>2
<1>4. WellRead(tree)
  <2>1. Nested(tree) /\ GoneHaveNoTime(tree)
    BY <1>3 DEF Nested, GoneHaveNoTime
  <2>2. SeenSinceTheScan(tree)
    <3> SUFFICES ASSUME NEW p \in Paths, Parent[p] # Root, reached(tree, p) PROVE FALSE
      BY DEF SeenSinceTheScan
    <3>1. Parent[p] \in above[p] /\ Parent[p] \in Paths
      BY ChainIs, ParentIsBefore
    <3> QED
      BY <1>3, <3>1 DEF reached
  <2> QED
    BY <2>1, <2>2 DEF WellRead
<1>5. ASSUME NEW p \in Paths, disk[p] # Absent
      PROVE  /\ p \in IF disk[p].isDir THEN Folders ELSE Files
             /\ Parent[p] # Root => disk[Parent[p]].isDir
  BY <1>1, <1>5 DEF InitialDisks
<1>6. DiskIsATree /\ FilesAreFiles
  BY <1>5 DEF DiskIsATree, FilesAreFiles, files, exists
<1>7. SelectedIsARow
  BY <1>1 DEF SelectedIsARow
<1>8. SearchTyped
  <2>1. filter \in {Everything} /\ search \in {NoSearch}
    BY <1>1
  <2> QED
    BY <2>1, Zenon DEF SearchTyped
<1> QED
  BY <1>2, <1>4, <1>6, <1>7, <1>8 DEF PlaceInv

(* What another program does to the disk.  The entry that changes, and the *)
(* directory it comes into or leaves, have a time no index knows.          *)
AfterChange(q, p, as) ==
  /\ within(q, p) => disk'[q] = IF q = p THEN as ELSE Absent
  /\ ~within(q, p) => /\ disk'[q].isDir = disk[q].isDir
                      /\ disk'[q] = disk[q] \/ q = Parent[p]
  /\ disk'[q].mtime = clock + 1 => disk'[q] # scanned[q]
  /\ ~within(q, p) /\ q = Parent[p] /\ as = Absent => disk'[q] # scanned[q]
  /\ as # Absent => as # scanned[p]

LEMMA ChangedDisk ==
  ASSUME BInv, NEW p \in Paths, NEW as, Change(p, as),
         as = Absent \/ as \in [isDir : BOOLEAN, mtime : {clock + 1}],
         NEW q \in Paths
  PROVE  AfterChange(q, p, as)
<1>1. DiskTypes /\ Ages
  BY DEF BInv
<1>2. disk'[q] = IF within(q, p) THEN (IF q = p THEN as ELSE Absent)
                 ELSE IF q = Parent[p] /\ (as = Absent \/ ~exists(p))
                 THEN [disk[q] EXCEPT !.mtime = clock + 1]
                 ELSE disk[q]
  BY Zenon DEF Change
<1>3. LET d == [disk[q] EXCEPT !.mtime = clock + 1] IN
      d.isDir = disk[q].isDir /\ d.mtime = clock + 1
  <2>1. disk[q] = [isDir |-> disk[q].isDir, mtime |-> disk[q].mtime]
    BY <1>1, DiskEntry DEF DiskTypes
  <2> QED
    BY <2>1
<1>4. scanned[q].mtime \in Nat /\ scanned[q].mtime <= clock /\ clock \in Nat
      /\ scanned[p].mtime \in Nat /\ scanned[p].mtime <= clock
  BY <1>1, TimeType DEF DiskTypes, Ages
<1>5. scanned[q].mtime # clock + 1 /\ scanned[p].mtime # clock + 1
  BY <1>4
<1>6. as # Absent => as.mtime = clock + 1
  OBVIOUS
<1> QED
  BY <1>2, <1>3, <1>5, <1>6 DEF AfterChange

LEMMA NotWithin ==
  ASSUME NEW p \in Paths, NEW q \in Paths, ~within(q, p), Parent[q] # Root
  PROVE  Parent[q] \in Paths /\ ~within(Parent[q], p)
BY ChainIs, ParentIsBefore DEF within

LEMMA ParentNotWithin ==
  ASSUME NEW p \in Paths, Parent[p] # Root PROVE Parent[p] \in Paths /\ ~within(Parent[p], p)
<1>1. Parent[p] \in Paths /\ Parent[p] # p /\ p \in Nat /\ Parent[p] \in Nat
  BY ParentIsBefore, NotItsOwnParent
<1>2. p \notin above[Parent[p]]
  <2> DEFINE t == [x \in Paths |-> Unlisted]
  <2>1. t \in [Paths -> Entries]
    BY UnlistedIs
  <2> HIDE DEF t
  <2> SUFFICES ASSUME p \in above[Parent[p]] PROVE FALSE
    OBVIOUS
  <2>2. p \in above[p]
    BY ChainIs
  <2>3. indexPath(t, p) \in Seq(Nat) /\ comesBefore(indexPath(t, p), indexPath(t, p))
    BY <2>1, <2>2, IndexPathIs, BelowComesAfter
  <2> QED
    BY <2>3, IndexPathsAreOrdered
<1> QED
  BY <1>1, <1>2 DEF within

LEMMA ChangeKeepsRead ==
  ASSUME BInv, WellRead(tree), NEW p \in Paths, NEW as, Change(p, as),
         as = Absent \/ as \in [isDir : BOOLEAN, mtime : {clock + 1}]
  PROVE  WellRead(tree)'
<1>1. UNCHANGED <<initial, tree, scanned>>
  BY DEF Change, browser
<1>0. ASSUME NEW q \in Paths
      PROVE  /\ within(q, p) => disk'[q] = IF q = p THEN as ELSE Absent
             /\ disk'[q].mtime = clock + 1 => disk'[q] # scanned[q]
             /\ ~within(q, p) /\ q = Parent[p] /\ as = Absent => disk'[q] # scanned[q]
             /\ as # Absent => as # scanned[p]
  <2>1. AfterChange(q, p, as)
    BY ChangedDisk
  <2> QED
    BY <2>1 DEF AfterChange
<1>2. ASSUME NEW x \in Paths, Parent[x] # Root, reached(tree, x)', disk'[x] = scanned[x],
             \A a \in above[x] : disk'[a] = scanned[a]
      PROVE  tells(tree, x)'
  <2>1. \A a \in above[x] : a \in Paths /\ disk'[a].isDir /\ tree[a].loaded
    BY <1>1, <1>2, AboveType DEF reached
  <2>2. ASSUME NEW a \in above[x] PROVE disk'[a] = disk[a] /\ a # p /\ p \notin above[a]
    <3>1. a \in Paths /\ disk'[a].isDir /\ disk'[a] = scanned[a]
      BY <1>2, <2>1
    <3>2. ~within(a, p)
      <4> SUFFICES ASSUME within(a, p) PROVE FALSE
        OBVIOUS
      <4>1. disk'[a] = IF a = p THEN as ELSE Absent
        BY <3>1, <1>0
      <4>2. ~Absent.isDir
        BY DEF Absent
      <4>3. a = p
        BY <3>1, <4>1, <4>2
      <4>4. disk'[a] = as /\ as # Absent
        BY <3>1, <4>1, <4>2, <4>3
      <4>5. as # scanned[p]
        BY <1>0, <4>4
      <4> QED
        BY <3>1, <4>3, <4>4, <4>5
    <3>3. disk'[a] = disk[a]
      <4> SUFFICES ASSUME disk'[a] # disk[a] PROVE FALSE
        OBVIOUS
      <4>1. disk'[a].mtime = clock + 1
        <5>1. disk'[a] = [disk[a] EXCEPT !.mtime = clock + 1]
          BY <3>1, <3>2, Zenon DEF Change
        <5>2. disk[a] = [isDir |-> disk[a].isDir, mtime |-> disk[a].mtime]
          BY <3>1, DiskEntry DEF BInv, DiskTypes
        <5> QED
          BY <5>1, <5>2
      <4> QED
        BY <3>1, <4>1, <1>0
    <3> QED
      BY <3>2, <3>3 DEF within
  <2>3. disk'[x] = disk[x]
    <3> SUFFICES ASSUME disk'[x] # disk[x] PROVE FALSE
      OBVIOUS
    <3>1. p \notin above[x]
      BY <2>2
    <3>2. CASE x = p
      <4>1. disk'[x] = as
        BY <3>2, <1>0 DEF within
      <4>2. as = Absent
        BY <1>2, <3>2, <4>1, <1>0
      <4>3. Parent[p] \in Paths /\ ~within(Parent[p], p) /\ Parent[p] \in above[p]
        BY <1>2, <3>2, ParentNotWithin, ChainIs
      <4>4. disk'[Parent[p]] # scanned[Parent[p]]
        BY <4>2, <4>3, <1>0
      <4> QED
        BY <1>2, <3>2, <4>3, <4>4
    <3>3. CASE x # p
      <4>1. ~within(x, p)
        BY <3>1, <3>3 DEF within
      <4>2. disk'[x] = [disk[x] EXCEPT !.mtime = clock + 1]
        BY <4>1, Zenon DEF Change
      <4>3. disk[x] = [isDir |-> disk[x].isDir, mtime |-> disk[x].mtime]
        BY DiskEntry DEF BInv, DiskTypes
      <4>4. disk'[x].mtime = clock + 1
        BY <4>2, <4>3
      <4> QED
        BY <1>2, <4>4, <1>0
    <3> QED
      BY <3>2, <3>3
  <2>4. reached(tree, x) /\ disk[x] = scanned[x] /\ \A a \in above[x] : disk[a] = scanned[a]
    BY <1>2, <2>1, <2>2, <2>3 DEF reached
  <2>5. tells(tree, x)
    BY <1>2, <2>4 DEF WellRead, SeenSinceTheScan
  <2> QED
    BY <1>1, <2>3, <2>5 DEF tells, exists, classify
<1>3. SeenSinceTheScan(tree)'
  BY <1>1, <1>2 DEF SeenSinceTheScan
<1>4. Nested(tree)' /\ GoneHaveNoTime(tree)'
  BY <1>1 DEF WellRead, Nested, GoneHaveNoTime, listed
<1> QED
  BY <1>3, <1>4 DEF WellRead

LEMMA ChangeKeepsPlace ==
  ASSUME PlaceInv, NEW p \in Paths, NEW as, Change(p, as),
         as = Absent \/ as \in [isDir : BOOLEAN, mtime : {clock + 1}],
         Parent[p] # Root => disk[Parent[p]].isDir,
         as # Absent /\ ~as.isDir => p \in Files
  PROVE  PlaceInv'
<1>1. BInv /\ WellRead(tree) /\ SelectedIsARow /\ DiskIsATree /\ FilesAreFiles /\ SearchTyped
  BY DEF PlaceInv
<1>2. BInv' /\ WellRead(tree)'
  BY <1>1, ChangeKeeps, ChangeKeepsRead
<1>3. UNCHANGED <<rows, selected, filter, search>>
  BY DEF Change, browser
<1>4. SelectedIsARow' /\ SearchTyped'
  BY <1>1, <1>3 DEF SelectedIsARow, SearchTyped
<1>0. ASSUME NEW q \in Paths
      PROVE  /\ within(q, p) => disk'[q] = IF q = p THEN as ELSE Absent
             /\ ~within(q, p) => /\ disk'[q].isDir = disk[q].isDir
                                 /\ disk'[q] = disk[q] \/ q = Parent[p]
  <2>1. AfterChange(q, p, as)
    BY <1>1, ChangedDisk
  <2> QED
    BY <2>1 DEF AfterChange
<1>5. ASSUME NEW q \in Paths, disk'[q] # Absent
      PROVE  \/ q = p /\ disk'[q] = as
             \/ ~within(q, p) /\ exists(q) /\ disk'[q].isDir = disk[q].isDir
  <2>1. CASE within(q, p)
    BY <1>0, <1>5, <2>1
  <2>2. CASE ~within(q, p)
    <3>1. disk'[q].isDir = disk[q].isDir /\ (disk'[q] = disk[q] \/ q = Parent[p])
      BY <1>0, <2>2
    <3>2. CASE disk'[q] = disk[q]
      BY <1>5, <2>2, <3>1, <3>2 DEF exists
    <3>3. CASE q = Parent[p]
      <4>1. Parent[p] # Root
        BY <3>3, ParentIsBefore DEF Root
      <4>2. disk[q].isDir
        BY <3>3, <4>1
      <4>3. exists(q)
        BY <4>2 DEF exists, Absent
      <4> QED
        BY <2>2, <3>1, <4>3, Zenon
    <3> QED
      BY <3>1, <3>2, <3>3
  <2> QED
    BY <2>1, <2>2, Zenon
<1>6. DiskIsATree'
  <2> SUFFICES ASSUME NEW q \in Paths, disk'[q] # Absent, Parent[q] # Root
               PROVE  disk'[Parent[q]].isDir
    BY DEF DiskIsATree, exists
  <2>1. disk[Parent[q]].isDir /\ Parent[q] \in Paths /\ ~within(Parent[q], p)
    <3>1. CASE q = p
      BY <3>1, ParentNotWithin
    <3>2. CASE ~within(q, p) /\ exists(q)
      BY <1>1, <3>2, NotWithin DEF DiskIsATree
    <3> QED
      BY <1>5, <3>1, <3>2
  <2> QED
    BY <1>0, <2>1
<1>7. FilesAreFiles'
  <2> SUFFICES ASSUME NEW q \in Paths, disk'[q] # Absent, ~disk'[q].isDir PROVE q \in Files
    BY DEF FilesAreFiles, files, exists
  <2>1. CASE q = p /\ disk'[q] = as
    BY <2>1
  <2>2. CASE exists(q) /\ disk'[q].isDir = disk[q].isDir
    BY <1>1, <2>2 DEF FilesAreFiles, files
  <2> QED
    BY <1>5, <2>1, <2>2
<1> QED
  BY <1>2, <1>4, <1>6, <1>7 DEF PlaceInv

(* The timer and the keys.  A step that leaves the disk and the indexes as *)
(* they are keeps what was read, if it does so in the tree.                *)
LEMMA ReadAsBefore ==
  ASSUME UNCHANGED <<disk, initial, scanned>>, WellRead(tree')
  PROVE  WellRead(tree)'
BY DEF WellRead, Nested, GoneHaveNoTime, SeenSinceTheScan, listed, reached, tells, exists, classify

LEMMA SameDisk ==
  ASSUME PlaceInv, disk' = disk PROVE DiskIsATree' /\ FilesAreFiles'
BY DEF PlaceInv, DiskIsATree, FilesAreFiles, files, exists

LEMMA SelectionStep ==
  ASSUME PlaceInv, BInv', UNCHANGED <<disk, initial, scanned, tree, filter, search, rows>>,
         selected' \in Nat, selected' # 0 => selected' < Len(rows)
  PROVE  PlaceInv'
<1>1. WellRead(tree)'
  BY ReadAsBefore DEF PlaceInv
<1>2. SelectedIsARow' /\ SearchTyped'
  BY DEF PlaceInv, SelectedIsARow, SearchTyped
<1> QED
  BY <1>1, <1>2, SameDisk DEF PlaceInv

LEMMA FoldStep ==
  ASSUME PlaceInv, BInv', UNCHANGED <<disk, initial, scanned, filter, search>>, RebuildRows,
         selectedEntry # Root, NEW b \in BOOLEAN,
         \/ tree' = [tree EXCEPT ![selectedEntry].expanded = b]
         \/ tree' = [loadChildren(tree, selectedEntry) EXCEPT ![selectedEntry].expanded = b]
  PROVE  PlaceInv' /\ rowAt(tree', rows', selected') = selectedEntry
<1>1. /\ tree' \in [Paths -> Entries] /\ WellRead(tree')
      /\ OutsideIsKept(tree, tree', selectedEntry)
  BY UnfoldingIs
<1>2. WellRead(tree)' /\ Nested(tree')
  BY <1>1, ReadAsBefore DEF WellRead
<1>3. /\ selected' \in Nat /\ selected' < Len(rows')
      /\ rowAt(tree', rows', selected') = selectedEntry
  BY <1>1, <1>2, FoldedKeepsPlace
<1>4. SelectedIsARow' /\ SearchTyped'
  BY <1>3 DEF PlaceInv, SelectedIsARow, SearchTyped
<1> QED
  BY <1>2, <1>3, <1>4, SameDisk DEF PlaceInv

LEMMA FilterStep ==
  ASSUME PlaceInv, BInv', UNCHANGED <<disk, initial, scanned>>,
         NEW f \in (SUBSET Files) \cup {Everything}, SetFilter(f),
         search' \in (SUBSET Files) \cup {NoSearch}
  PROVE  PlaceInv'
<1>1. /\ tree' = tree /\ filter' = f /\ rows' = collectRows(tree, f)
      /\ selected' = follow(tree, rows', selectedEntry, selected)
  BY DEF SetFilter
<1>2. tree \in [Paths -> Entries] /\ Nested(tree) /\ selected \in Nat
  BY PlaceFacts
<1>3. SelectedIsARow'
  BY <1>1, <1>2, FollowIs DEF SelectedIsARow
<1>4. WellRead(tree)'
  BY <1>1, ReadAsBefore DEF PlaceInv
<1>5. SearchTyped'
  BY <1>1 DEF SearchTyped
<1> QED
  BY <1>3, <1>4, <1>5, SameDisk DEF PlaceInv

LEMMA RefreshKeepsPlace ==
  ASSUME PlaceInv, BInv', Refresh PROVE PlaceInv'
<1>1. /\ tree' = refreshed(tree) /\ disk' = disk /\ initial' = initial
      /\ DiskTypes /\ Ages /\ TimesTell /\ AllTold(tree)
      /\ tree \in [Paths -> Entries] /\ WellRead(tree) /\ selected \in Nat
  BY PlaceFacts DEF Refresh
<1>2. DiskIsATree' /\ FilesAreFiles' /\ files \in SUBSET Files /\ SearchTyped
  BY <1>1, SameDisk DEF PlaceInv, FilesAreFiles
<1>3. CASE ~differs(tree, tree')
  <2>1. UNCHANGED <<rows, selected, filter, search, scanned>> /\ tree' = tree
    BY <1>1, <1>3, QuietRefresh DEF Refresh
  <2>2. WellRead(tree)'
    BY <1>1, <2>1, ReadAsBefore
  <2>3. SelectedIsARow' /\ SearchTyped'
    BY <2>1 DEF PlaceInv, SelectedIsARow, SearchTyped
  <2> QED
    BY <1>2, <2>2, <2>3 DEF PlaceInv
<1>4. CASE differs(tree, tree')
  <2> DEFINE r == collectRows(tree', filter)
             i == follow(tree', r, rowAt(tree', rows, selected), selected)
  <2>1. /\ scanned' = disk
        /\ search' = IF search = NoSearch THEN NoSearch ELSE files
        /\ \/ filter' = filter /\ rows' = r /\ selected' = i
           \/ /\ filter' \in SUBSET files
              /\ rows' = collectRows(tree', filter')
              /\ selected' = follow(tree', rows', rowAt(tree', r, i), i)
    BY <1>4 DEF Refresh
  <2>2. /\ tree' \in [Paths -> Entries] /\ Nested(tree') /\ GoneHaveNoTime(tree')
        /\ \A p \in Paths : reached(tree', p) => tells(tree', p)
    BY <1>1, RefreshedType, WellReadRefreshed
  <2>3. WellRead(tree)'
    <3>1. SeenSinceTheScan(tree')
      BY <2>2 DEF SeenSinceTheScan
    <3>2. Nested(tree)' /\ GoneHaveNoTime(tree)'
      BY <2>2 DEF Nested, GoneHaveNoTime, listed
    <3>3. \A p \in Paths : (reached(tree', p) <=> reached(tree, p)') /\ (tells(tree', p) <=> tells(tree, p)')
      BY <1>1 DEF reached, tells, exists, classify
    <3>4. SeenSinceTheScan(tree)'
      BY <2>2, <3>3 DEF SeenSinceTheScan
    <3> QED
      BY <3>2, <3>4 DEF WellRead
  <2>4. i \in Nat /\ (i # 0 => i < Len(r))
    BY <1>1, <2>2, FollowIs
  <2>5. SelectedIsARow'
    <3>1. CASE rows' = r /\ selected' = i
      BY <2>4, <3>1 DEF SelectedIsARow
    <3>2. CASE /\ rows' = collectRows(tree', filter')
               /\ selected' = follow(tree', rows', rowAt(tree', r, i), i)
      <4> HIDE DEF i, r
      <4> QED
        BY <2>2, <2>4, <3>2, FollowIs DEF SelectedIsARow
    <3> QED
      BY <2>1, <3>1, <3>2
  <2>6. SearchTyped'
    <3>1. filter' \in (SUBSET Files) \cup {Everything}
      BY <1>2, <2>1 DEF SearchTyped
    <3>2. search' \in (SUBSET Files) \cup {NoSearch}
      BY <1>2, <2>1
    <3> QED
      BY <3>1, <3>2 DEF SearchTyped
  <2> QED
    BY <1>2, <2>3, <2>5, <2>6 DEF PlaceInv
<1> QED
  BY <1>3, <1>4

LEMMA ClimbIs ==
  ASSUME PlaceInv, selectedEntry # Root, Parent[selectedEntry] # Root,
         NEW k, k = CHOOSE j \in 0..(Len(rows) - 1) : rows[j + 1] = Front(rows[selected + 1])
  PROVE  k \in Nat /\ k < Len(rows)
<1> DEFINE p == selectedEntry
<1>1. /\ tree \in [Paths -> Entries] /\ Nested(tree) /\ rows = collectRows(tree, filter)
      /\ p \in shown(tree, filter) /\ p \in Paths /\ rows[selected + 1] = indexPath(tree, p)
  BY PlaceFacts, SelectedIs
<1>2. Parent[p] \in shown(tree, filter)
  BY <1>1, ParentIsShown
<1>3. Front(indexPath(tree, p)) = indexPath(tree, Parent[p])
  BY <1>1, IndexPathIs
<1>4. /\ Len(rows) \in Nat /\ rowOf(tree, filter, Parent[p]) \in 0 .. Len(rows) - 1
      /\ rows[rowOf(tree, filter, Parent[p]) + 1] = indexPath(tree, Parent[p])
  BY <1>1, <1>2, RowsAre
<1> HIDE DEF p
<1>5. \E j \in 0..(Len(rows) - 1) : rows[j + 1] = Front(rows[selected + 1])
  BY <1>1, <1>3, <1>4
<1>6. k \in 0..(Len(rows) - 1)
  BY <1>5
<1> QED
  BY <1>4, <1>6

LEMMA PlaceStep == PlaceInv /\ [Next]_vars => PlaceInv'
<1> SUFFICES ASSUME PlaceInv, [Next]_vars PROVE PlaceInv'
  OBVIOUS
<1>1. BInv' /\ SearchTyped /\ FilesAreFiles /\ DiskIsATree
  BY InvStep DEF PlaceInv
<1>2. selected \in Nat /\ (selected # 0 => selected < Len(rows)) /\ Len(rows) \in Nat
  BY PlaceFacts, RowsAre DEF PlaceInv, SelectedIsARow
<1>3. CASE Refresh
  BY <1>1, <1>3, RefreshKeepsPlace
<1>4. ASSUME NEW d \in {-15, -1, 1, 15}, Move(d) PROVE PlaceInv'
  <2>1. selected' = (IF selected + d < 0 THEN 0 ELSE clamp(selected + d, Len(rows)))
        /\ UNCHANGED <<disk, initial, scanned, tree, filter, search, rows>>
    BY <1>4 DEF Move
  <2>2. selected' \in Nat /\ (selected' # 0 => selected' < Len(rows))
    <3>1. CASE selected + d < 0
      BY <2>1, <3>1
    <3>2. CASE ~(selected + d < 0)
      <4>1. selected + d \in Nat
        BY <1>2, <3>2
      <4> QED
        BY <1>2, <2>1, <3>2, <4>1, ClampIs
    <3> QED
      BY <3>1, <3>2
  <2> QED
    BY <1>1, <2>1, <2>2, SelectionStep
<1>5. CASE ToggleExpand
  <2>1. /\ selectedEntry # Root /\ RebuildRows
        /\ UNCHANGED <<disk, initial, scanned, filter, search>>
        /\ \/ tree' = [tree EXCEPT ![selectedEntry].expanded = FALSE]
           \/ tree' = [loadChildren(tree, selectedEntry) EXCEPT ![selectedEntry].expanded = TRUE]
    BY <1>5, Zenon DEF ToggleExpand
  <2> QED
    BY <1>1, <2>1, FoldStep
<1>6. CASE CollapseOrParent
  <2>1. selectedEntry # Root /\ UNCHANGED <<disk, initial, scanned, filter, search>>
    BY <1>6 DEF CollapseOrParent
  <2>2. CASE tree[selectedEntry].isDir /\ tree[selectedEntry].expanded
    <3>1. tree' = [tree EXCEPT ![selectedEntry].expanded = FALSE] /\ RebuildRows
      BY <1>6, <2>2, Zenon DEF CollapseOrParent
    <3> QED
      BY <1>1, <2>1, <3>1, FoldStep
  <2>3. CASE ~(tree[selectedEntry].isDir /\ tree[selectedEntry].expanded)
    <3>1. /\ Parent[selectedEntry] # Root
          /\ selected' = CHOOSE k \in 0..(Len(rows) - 1) : rows[k + 1] = Front(rows[selected + 1])
          /\ UNCHANGED <<tree, rows>>
      BY <1>6, <2>3 DEF CollapseOrParent
    <3>2. selected' \in Nat /\ selected' < Len(rows)
      BY <2>1, <3>1, ClimbIs
    <3> QED
      BY <1>1, <2>1, <3>1, <3>2, SelectionStep
  <2> QED
    BY <2>2, <2>3
<1>7. CASE ExpandOrChild
  <2>1. selectedEntry # Root /\ UNCHANGED <<disk, initial, scanned, filter, search>>
    BY <1>7 DEF ExpandOrChild
  <2>2. CASE ~tree[selectedEntry].expanded
    <3>1. tree' = [loadChildren(tree, selectedEntry) EXCEPT ![selectedEntry].expanded = TRUE]
          /\ RebuildRows
      BY <1>7, <2>2, Zenon DEF ExpandOrChild
    <3> QED
      BY <1>1, <2>1, <3>1, FoldStep
  <2>3. CASE tree[selectedEntry].expanded
    <3>1. selected' = clamp(selected + 1, Len(rows)) /\ UNCHANGED <<tree, rows>>
      BY <1>7, <2>3 DEF ExpandOrChild
    <3>2. selected + 1 \in Nat
      BY <1>2
    <3>3. selected' \in Nat /\ (selected' # 0 => selected' < Len(rows))
      BY <1>2, <3>1, <3>2, ClampIs
    <3> QED
      BY <1>1, <2>1, <3>1, <3>3, SelectionStep
  <2> QED
    BY <2>2, <2>3
<1>8. CASE StartBrowserSearch
  <2>1. PICK f \in {Everything} \cup SUBSET files : SetFilter(f)
    BY <1>8 DEF StartBrowserSearch
  <2>2. search' = files /\ UNCHANGED <<disk, initial, scanned>>
    BY <1>8 DEF StartBrowserSearch
  <2>3. f \in (SUBSET Files) \cup {Everything} /\ search' \in (SUBSET Files) \cup {NoSearch}
    BY <1>1, <2>1, <2>2 DEF FilesAreFiles
  <2> QED
    BY <1>1, <2>1, <2>2, <2>3, FilterStep
<1>9. CASE TypeInSearch
  <2>1. PICK f \in {Everything} \cup SUBSET search : SetFilter(f)
    BY <1>9 DEF TypeInSearch
  <2>2. search # NoSearch /\ search' = search /\ UNCHANGED <<disk, initial, scanned>>
    BY <1>9 DEF TypeInSearch
  <2>3. f \in (SUBSET Files) \cup {Everything} /\ search' \in (SUBSET Files) \cup {NoSearch}
    BY <1>1, <2>1, <2>2 DEF SearchTyped
  <2> QED
    BY <1>1, <2>1, <2>2, <2>3, FilterStep
<1>10. CASE ClearSearch
  BY <1>1, <1>10, FilterStep DEF ClearSearch
<1>11. ASSUME NEW p \in Paths, Create(p) PROVE PlaceInv'
  <2>1. Parent[p] # Root => disk[Parent[p]].isDir
    BY <1>11 DEF Create
  <2>2. PICK isDir \in BOOLEAN : /\ p \in IF isDir THEN Folders ELSE Files
                                 /\ Change(p, [isDir |-> isDir, mtime |-> clock + 1])
    BY <1>11 DEF Create
  <2> DEFINE as == [isDir |-> isDir, mtime |-> clock + 1]
  <2>3. as \in [isDir : BOOLEAN, mtime : {clock + 1}] /\ (as # Absent /\ ~as.isDir => p \in Files)
    BY <2>2
  <2>4. Change(p, as)
    BY <2>2
  <2> HIDE DEF as
  <2> QED
    BY <2>1, <2>3, <2>4, ChangeKeepsPlace
<1>12. ASSUME NEW p \in Paths, Write(p) PROVE PlaceInv'
  <2> DEFINE as == [isDir |-> FALSE, mtime |-> clock + 1]
  <2>1. p \in files /\ Change(p, as)
    BY <1>12 DEF Write
  <2>2. as \in [isDir : BOOLEAN, mtime : {clock + 1}]
    OBVIOUS
  <2>3. p \in Files /\ (Parent[p] # Root => disk[Parent[p]].isDir)
    BY <1>1, <2>1 DEF FilesAreFiles, DiskIsATree, files
  <2> HIDE DEF as
  <2> QED
    BY <2>1, <2>2, <2>3, ChangeKeepsPlace
<1>13. ASSUME NEW p \in Paths, Delete(p) PROVE PlaceInv'
  <2>1. exists(p) /\ Change(p, Absent)
    BY <1>13 DEF Delete
  <2>2. Parent[p] # Root => disk[Parent[p]].isDir
    BY <1>1, <2>1 DEF DiskIsATree
  <2> QED
    BY <2>1, <2>2, ChangeKeepsPlace
<1>14. CASE UNCHANGED vars
  BY <1>1, <1>2, <1>14, SelectionStep DEF vars, browser
<1> QED
  BY <1>3, <1>4, <1>5, <1>6, <1>7, <1>8, <1>9, <1>10, <1>11, <1>12, <1>13, <1>14
     DEF Next, Key, Others

LEMMA FilterKeepsPlace ==
  ASSUME PlaceInv, NEW f, SetFilter(f), selectedEntry # Root, visible(tree, f, selectedEntry)
  PROVE  rowAt(tree, rows', selected') = selectedEntry
<1> DEFINE p == selectedEntry
<1>1. rows' = collectRows(tree, f) /\ selected' = follow(tree, rows', p, selected)
  BY DEF SetFilter
<1>2. tree \in [Paths -> Entries] /\ Nested(tree) /\ p \in shown(tree, f)
  BY PlaceFacts, SelectedIs DEF shown
<1> HIDE DEF p
<1>3. rowAt(tree, collectRows(tree, f), follow(tree, collectRows(tree, f), p, selected)) = p
  BY <1>2, FollowFinds
<1>4. rowAt(tree, rows', selected') = p
  BY <1>1, <1>3
<1> QED
  BY <1>4 DEF p

LEMMA StepKeepsPlace ==
  ASSUME PlaceInv, [Next]_vars, UNCHANGED <<disk, scanned>>, <<tree, filter>>' # <<tree, filter>>,
         selectedEntry # Root, visible(tree', filter', selectedEntry)
  PROVE  rowAt(tree', rows', selected') = selectedEntry
<1>1. BInv'
  BY InvStep DEF PlaceInv
<1>2. ~(tree' = tree /\ filter' = filter)
  OBVIOUS
<1>3. ~Refresh
  <2> SUFFICES ASSUME Refresh PROVE FALSE
    OBVIOUS
  <2>1. DiskTypes /\ Ages /\ TimesTell /\ AllTold(tree) /\ BInv /\ WellRead(tree)
    BY PlaceFacts DEF PlaceInv
  <2>2. tree' = refreshed(tree)
    BY DEF Refresh
  <2>3. CASE differs(tree, tree')
    <3>1. scanned' = disk
      BY <2>3 DEF Refresh
    <3>2. disk = scanned
      BY <3>1
    <3> QED
      BY <2>1, <2>2, <2>3, <3>2, QuietWhenScanned
  <2>4. CASE ~differs(tree, tree')
    <3>1. filter' = filter /\ tree' = tree
      BY <2>1, <2>2, <2>4, QuietRefresh DEF Refresh
    <3> QED
      BY <1>2, <3>1
  <2> QED
    BY <2>3, <2>4
<1>4. CASE ToggleExpand
  <2>1. /\ selectedEntry # Root /\ RebuildRows
        /\ UNCHANGED <<disk, initial, scanned, filter, search>>
        /\ \/ tree' = [tree EXCEPT ![selectedEntry].expanded = FALSE]
           \/ tree' = [loadChildren(tree, selectedEntry) EXCEPT ![selectedEntry].expanded = TRUE]
    BY <1>4, Zenon DEF ToggleExpand
  <2> QED
    BY <1>1, <2>1, FoldStep
<1>5. CASE CollapseOrParent
  <2>1. UNCHANGED <<disk, initial, scanned, filter, search>>
    BY <1>5 DEF CollapseOrParent
  <2>2. tree' = [tree EXCEPT ![selectedEntry].expanded = FALSE] /\ RebuildRows
    BY <1>2, <1>5, <2>1, Zenon DEF CollapseOrParent
  <2> QED
    BY <1>1, <2>1, <2>2, FoldStep
<1>6. CASE ExpandOrChild
  <2>1. UNCHANGED <<disk, initial, scanned, filter, search>>
    BY <1>6 DEF ExpandOrChild
  <2>2. /\ tree' = [loadChildren(tree, selectedEntry) EXCEPT ![selectedEntry].expanded = TRUE]
        /\ RebuildRows
    BY <1>2, <1>6, <2>1, Zenon DEF ExpandOrChild
  <2> QED
    BY <1>1, <2>1, <2>2, FoldStep
<1>7. ASSUME NEW f, SetFilter(f) PROVE rowAt(tree', rows', selected') = selectedEntry
  <2>1. tree' = tree /\ filter' = f
    BY <1>7 DEF SetFilter
  <2>2. visible(tree, f, selectedEntry)
    BY <2>1
  <2> QED
    BY <1>7, <2>1, <2>2, FilterKeepsPlace
<1>8. CASE StartBrowserSearch \/ TypeInSearch \/ ClearSearch
  BY <1>7, <1>8 DEF StartBrowserSearch, TypeInSearch, ClearSearch
<1>9. ~(\E d \in {-15, -1, 1, 15} : Move(d)) /\ ~UNCHANGED vars
  BY <1>2 DEF Move, vars, browser
<1>10. ~Others
  BY <1>2 DEF Others, Create, Write, Delete, Change, browser
<1> QED
  BY <1>3, <1>4, <1>5, <1>6, <1>8, <1>9, <1>10 DEF Next, Key

(***************************************************************************)
(* Every variable of the browser keeps its type, for every tree of paths,  *)
(* and the selected row is one of the rows: whatever is folded, unfolded,  *)
(* searched for, gone from the disk or new there (browser.rs, selected and *)
(* rebuild_rows).                                                          *)
(***************************************************************************)
THEOREM TypeCorrect == Spec => []TypeOK
<1>1. PlaceInv => TypeOK
  <2> SUFFICES ASSUME PlaceInv PROVE TypeOK
    OBVIOUS
  <2>1. DiskTypes /\ tree \in [Paths -> Entries] /\ Nested(tree) /\ rows = collectRows(tree, filter)
    BY PlaceFacts
  <2>2. rows \in Seq(Seq(Nat))
    BY <2>1, RowsAre
  <2>3. SelectedIsARow /\ SearchTyped
    BY DEF PlaceInv
  <2> QED
    BY <2>1, <2>2, <2>3 DEF TypeOK, DiskTypes, SelectedIsARow, SearchTyped
<1> QED
  BY <1>1, InitPlaceInv, PlaceStep, PTL DEF Spec

(***************************************************************************)
(* Folding, unfolding and narrowing keep the place: the entry that was     *)
(* selected is so afterwards if it has a row, wherever the rows around it  *)
(* went (FileBrowser::rebuild_rows, select_path).                          *)
(***************************************************************************)
THEOREM PlaceIsKept == Spec => KeepsPlace
<1> DEFINE Kept ==
             UNCHANGED <<disk, scanned>> /\ <<tree, filter>>' # <<tree, filter>>
             /\ selectedEntry # Root /\ visible(tree', filter', selectedEntry)
               => rowAt(tree', rows', selected') = selectedEntry
<1>1. PlaceInv /\ [Next]_vars => [Kept]_vars
  BY StepKeepsPlace
<1> HIDE DEF Kept
<1>2. Spec => [][Kept]_vars
  BY <1>1, InitPlaceInv, PlaceStep, PTL DEF Spec
<1>3. KeepsPlace <=> [][Kept]_vars
  BY PTL DEF KeepsPlace, Kept
<1> QED
  BY <1>2, <1>3
=============================================================================
