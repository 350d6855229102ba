---------------------------- MODULE SessionProofs ----------------------------
(***************************************************************************)
(* Proofs about module Session, for every set of paths and elements and    *)
(* every start-up.                                                         *)
(***************************************************************************)
EXTENDS Session, Integers, FiniteSetTheorems, WellFoundedInduction, TLAPS

(***************************************************************************)
(* Documents: the forests that editing produces are forests.               *)
(***************************************************************************)
LEMMA ContentMembers ==
  ASSUME NEW s
  PROVE  s \in Content <=> s \in Seq(Elems) /\ Len(s) <= MaxLen /\ IsInjective(s)
<1> USE BoundsAssumption
<1>1. s \in BoundedSeq(Elems, MaxLen) <=> s \in Seq(Elems) /\ Len(s) <= MaxLen
  <2>1. ASSUME s \in BoundedSeq(Elems, MaxLen) PROVE s \in Seq(Elems) /\ Len(s) <= MaxLen
    <3>1. PICK m \in 0 .. MaxLen : s \in [1 .. m -> Elems]
      BY <2>1 DEF BoundedSeq, SeqOf
    <3> QED
      BY <3>1
  <2>2. ASSUME s \in Seq(Elems), Len(s) <= MaxLen PROVE s \in BoundedSeq(Elems, MaxLen)
    <3>1. Len(s) \in 0 .. MaxLen /\ s \in [1 .. Len(s) -> Elems]
      BY <2>2
    <3> QED
      BY <3>1 DEF BoundedSeq, SeqOf
  <2> QED
    BY <2>1, <2>2
<1> QED
  BY <1>1 DEF Content

LEMMA EmptyContent == <<>> \in Content
<1>1. <<>> \in Seq(Elems) /\ Len(<<>>) <= MaxLen
  BY BoundsAssumption
<1>2. IsInjective(<<>>)
  BY DEF IsInjective
<1> QED
  BY <1>1, <1>2, ContentMembers

LEMMA SingletonContent ==
  ASSUME NEW e \in Elems, MaxLen > 0
  PROVE  <<e>> \in Content
<1>1. <<e>> \in Seq(Elems) /\ Len(<<e>>) <= MaxLen
  BY BoundsAssumption
<1>2. IsInjective(<<e>>)
  BY DEF IsInjective
<1> QED
  BY <1>1, <1>2, ContentMembers

\* An element takes the place of another.
LEMMA ReplaceContent ==
  ASSUME NEW s \in Content, NEW k \in DOMAIN s, NEW e \in Elems \ Range(s)
  PROVE  [s EXCEPT ![k] = e] \in Content
<1>1. s \in Seq(Elems) /\ Len(s) <= MaxLen /\ IsInjective(s)
  BY ContentMembers
<1>2. [s EXCEPT ![k] = e] \in Seq(Elems) /\ Len([s EXCEPT ![k] = e]) = Len(s)
  BY <1>1
<1>3. \A i \in DOMAIN s : s[i] # e
  BY DEF Range
<1>4. IsInjective([s EXCEPT ![k] = e])
  BY <1>1, <1>2, <1>3 DEF IsInjective
<1> QED
  BY <1>1, <1>2, <1>4, ContentMembers

\* Two elements change places.
LEMMA SwapContent ==
  ASSUME NEW s \in Content, NEW k \in DOMAIN s, NEW j \in DOMAIN s
  PROVE  [s EXCEPT ![k] = s[j], ![j] = s[k]] \in Content
<1> DEFINE t == [s EXCEPT ![k] = s[j], ![j] = s[k]]
<1>1. s \in Seq(Elems) /\ Len(s) <= MaxLen /\ IsInjective(s)
  BY ContentMembers
<1>2. t \in Seq(Elems) /\ Len(t) = Len(s)
  BY <1>1
<1>3. IsInjective(t)
  BY <1>1, <1>2 DEF IsInjective
<1> QED
  BY <1>1, <1>2, <1>3, ContentMembers

\* An element is taken out.
LEMMA RemoveContent ==
  ASSUME NEW s \in Content, NEW k \in DOMAIN s
  PROVE  RemoveAt(s, k) \in Content
<1> DEFINE front == SubSeq(s, 1, k - 1)
           back == SubSeq(s, k + 1, Len(s))
           t == front \o back
<1>1. s \in Seq(Elems) /\ Len(s) \in Nat /\ Len(s) <= MaxLen /\ IsInjective(s) /\ k \in 1 .. Len(s)
  BY ContentMembers
<1>2. front \in Seq(Elems) /\ Len(front) = k - 1 /\ \A i \in 1 .. k - 1 : front[i] = s[i]
  BY <1>1
<1>3. back \in Seq(Elems) /\ Len(back) = Len(s) - k /\ \A i \in 1 .. Len(s) - k : back[i] = s[i + k]
  BY <1>1
<1> HIDE DEF front, back
<1>4. t \in Seq(Elems) /\ Len(t) = Len(s) - 1
  BY <1>1, <1>2, <1>3
<1>5. \A i \in 1 .. Len(t) : t[i] = IF i < k THEN s[i] ELSE s[i + 1]
  <2> TAKE i \in 1 .. Len(t)
  <2>1. CASE i < k
    BY <1>1, <1>2, <1>3, <1>4, <2>1
  <2>2. CASE i >= k
    <3>1. t[i] = back[i - (k - 1)] /\ i - (k - 1) \in 1 .. Len(s) - k
      BY <1>1, <1>2, <1>3, <1>4, <2>2
    <3>2. i - (k - 1) + k = i + 1
      BY <1>1, <1>4
    <3> QED
      BY <1>1, <1>3, <1>4, <2>2, <3>1, <3>2
  <2> QED
    BY <1>1, <1>4, <2>1, <2>2
<1>6. IsInjective(t)
  <2> HIDE DEF t
  <2> SUFFICES ASSUME NEW i \in DOMAIN t, NEW j \in DOMAIN t, t[i] = t[j] PROVE i = j
    BY DEF IsInjective
  <2>1. \A x, y \in 1 .. Len(s) : s[x] = s[y] => x = y
    BY <1>1 DEF IsInjective
  <2>2. i \in 1 .. Len(t) /\ j \in 1 .. Len(t)
    BY <1>4
  <2> QED
    BY <1>1, <1>4, <1>5, <2>1, <2>2, SMTT(30)
<1>7. RemoveAt(s, k) = t
  BY DEF RemoveAt, front, back
<1>8. Len(t) <= MaxLen
  BY <1>1, <1>4, BoundsAssumption
<1> HIDE DEF t
<1> QED
  BY <1>4, <1>6, <1>7, <1>8, ContentMembers

\* An element is put in behind another.
LEMMA InsertContent ==
  ASSUME NEW s \in Content, NEW m \in 1 .. Len(s) + 1, NEW e \in Elems \ Range(s), Len(s) < MaxLen
  PROVE  InsertAt(s, m, e) \in Content
<1> DEFINE front == SubSeq(s, 1, m - 1)
           back == SubSeq(s, m, Len(s))
           head == front \o <<e>>
           t == head \o back
<1>1. s \in Seq(Elems) /\ Len(s) \in Nat /\ IsInjective(s) /\ MaxLen \in Nat /\ m \in 1 .. Len(s) + 1
  BY ContentMembers, BoundsAssumption
<1>2. front \in Seq(Elems) /\ Len(front) = m - 1 /\ \A i \in 1 .. m - 1 : front[i] = s[i]
  BY <1>1
<1>3. back \in Seq(Elems) /\ Len(back) = Len(s) - m + 1
        /\ \A i \in 1 .. Len(s) - m + 1 : back[i] = s[i + m - 1]
  BY <1>1
<1>4. InsertAt(s, m, e) = t
  BY DEF InsertAt
<1> HIDE DEF front, back
<1>5. head \in Seq(Elems) /\ Len(head) = m
        /\ \A i \in 1 .. m : head[i] = IF i < m THEN s[i] ELSE e
  BY <1>1, <1>2
<1> HIDE DEF head
<1>6. t \in Seq(Elems) /\ Len(t) = Len(s) + 1
  <2>1. t \in Seq(Elems) /\ Len(t) = Len(head) + Len(back)
    BY <1>3, <1>5
  <2>2. Len(head) + Len(back) = Len(s) + 1
    BY <1>1, <1>3, <1>5
  <2> QED
    BY <2>1, <2>2
<1>7. \A i \in 1 .. Len(t) :
        t[i] = IF i < m THEN s[i] ELSE IF i = m THEN e ELSE s[i - 1]
  <2> TAKE i \in 1 .. Len(t)
  <2>1. CASE i <= m
    BY <1>1, <1>3, <1>5, <1>6, <2>1
  <2>2. CASE i > m
    <3>1. t[i] = back[i - m] /\ i - m \in 1 .. Len(s) - m + 1
      BY <1>1, <1>3, <1>5, <1>6, <2>2
    <3>2. i - m + m - 1 = i - 1
      BY <1>1, <1>6
    <3> QED
      BY <1>1, <1>3, <1>6, <2>2, <3>1, <3>2
  <2> QED
    BY <1>1, <1>6, <2>1, <2>2
<1> HIDE DEF t
<1>8. IsInjective(t)
  <2> DEFINE old(x) == IF x < m THEN x ELSE x - 1
  <2> SUFFICES ASSUME NEW i \in 1 .. Len(t), NEW j \in 1 .. Len(t), i < j
               PROVE  t[i] # t[j]
    BY <1>1, <1>6 DEF IsInjective
  <2>1. \A x, y \in 1 .. Len(s) : s[x] = s[y] => x = y
    BY <1>1 DEF IsInjective
  <2>2. \A x \in 1 .. Len(s) : s[x] # e
    BY <1>1 DEF Range
  <2>3. \A x \in 1 .. Len(t) : x # m => old(x) \in 1 .. Len(s) /\ t[x] = s[old(x)]
    BY <1>1, <1>6, <1>7
  <2>4. t[m] = e
    BY <1>1, <1>6, <1>7
  <2>5. i # m /\ j # m => old(i) # old(j)
    BY <1>1, <1>6
  <2> HIDE DEF old
  <2> QED
    BY <2>1, <2>2, <2>3, <2>4, <2>5
<1>9. Len(t) <= MaxLen
  BY <1>1, <1>6
<1> QED
  BY <1>4, <1>6, <1>8, <1>9, ContentMembers

(***************************************************************************)
(* Rows: the selection arithmetic stays within the natural numbers, and a  *)
(* selection that has a row names an element.                              *)
(***************************************************************************)
LEMMA RowsFinite ==
  ASSUME NEW s \in Content, NEW f
  PROVE  rowsOf(s, f) \subseteq DOMAIN s /\ IsFiniteSet(rowsOf(s, f)) /\ IsFiniteSet(DOMAIN s)
<1>1. s \in Seq(Elems) /\ DOMAIN s = 1 .. Len(s) /\ Len(s) \in Nat
  BY ContentMembers
<1>2. IsFiniteSet(1 .. Len(s))
  BY <1>1, FS_Interval
<1>3. rowsOf(s, f) \subseteq DOMAIN s
  BY DEF rowsOf
<1> QED
  BY <1>1, <1>2, <1>3, FS_Subset

LEMMA RankIsNatural ==
  ASSUME NEW S, IsFiniteSet(S), NEW r
  PROVE  rank(r, S) \in Nat
<1>1. {q \in S : q < r} \subseteq S
  OBVIOUS
<1> QED
  BY <1>1, FS_Subset, FS_CardinalityType DEF rank

LEMMA ClampIsNatural ==
  ASSUME NEW S, IsFiniteSet(S), NEW i \in Nat
  PROVE  clamp(i, S) \in Nat
<1>1. Cardinality(S) \in Nat
  BY FS_CardinalityType
<1>2. S # {} => Cardinality(S) # 0
  BY FS_EmptySet
<1> QED
  BY <1>1, <1>2 DEF clamp

LEMMA NthIsThere == ASSUME NEW S, NEW i, hasRow(S, i) PROVE nth(S, i) \in S
BY DEF hasRow, nth

LEMMA EntryAtIsAnEntry == ASSUME NEW S, NEW i PROVE entryAt(S, i) \in S \cup {NoPath}
BY NthIsThere DEF entryAt

LEMMA EditableHasRow == ASSUME roots \in Content, editable PROVE selectedRow \in DOMAIN roots
<1>1. selectedRow \in rows
  BY NthIsThere DEF editable, selectedRow
<1> QED
  BY <1>1 DEF rows, rowsOf

(***************************************************************************)
(* Type correctness.                                                       *)
(***************************************************************************)
DocumentTypeOK ==
  /\ path \in Paths \cup {NoPath}
  /\ outPath \in Paths \cup {NoPath}
  /\ roots \in Content
  /\ selected \in Nat
  /\ dirty \in BOOLEAN
  /\ persisted \in [at : Paths \cup {NoPath}, what : Content]

LEMMA OpenFileType ==
  ASSUME TypeOK, NEW p \in Paths \cup {NoPath}, readable(p), OpenFile(p)
  PROVE  DocumentTypeOK' /\ mode' = "Browse" /\ quitConfirm' = FALSE /\ deleteConfirm' = FALSE
<1>1. p \in Paths /\ disk[p] \in Content
  BY DEF readable
<1> QED
  BY <1>1 DEF OpenFile, DocumentTypeOK

LEMMA PreviewType ==
  ASSUME TypeOK, NEW p \in Paths \cup {NoPath}, NEW m \in Modes, PreviewBrowserSelection(p, m)
  PROVE  DocumentTypeOK' /\ mode' \in Modes /\ quitConfirm' = FALSE /\ deleteConfirm' \in BOOLEAN
<1>1. CASE previewable(p)
  BY <1>1, OpenFileType DEF PreviewBrowserSelection, previewable, Modes
<1>2. CASE ~previewable(p)
  BY <1>2 DEF PreviewBrowserSelection, document, TypeOK, DocumentTypeOK
<1> QED
  BY <1>1, <1>2

LEMMA WriteCurrentType ==
  ASSUME TypeOK, NEW forest \in Content, NEW d \in BOOLEAN, WriteCurrent(forest, d)
  PROVE  /\ disk' \in [Paths -> OnDisk]
         /\ dirty' \in BOOLEAN
         /\ persisted' \in [at : Paths \cup {NoPath}, what : Content]
<1>1. disk \in [Paths -> OnDisk] /\ outPath \in Paths \cup {NoPath}
  BY DEF TypeOK
<1>2. ASSUME NEW c \in OnDisk PROVE [disk EXCEPT ![outPath] = c] \in [Paths -> OnDisk]
  BY <1>1
<1>3. disk' \in [Paths -> OnDisk]
  BY <1>1, <1>2 DEF WriteCurrent, OnDisk
<1>4. dirty' \in BOOLEAN
  BY DEF WriteCurrent
<1>5. persisted' \in [at : Paths \cup {NoPath}, what : Content]
  BY <1>1 DEF WriteCurrent, TypeOK
<1> QED
  BY <1>3, <1>4, <1>5

LEMMA SaveType ==
  ASSUME TypeOK, Save
  PROVE  disk' \in [Paths -> OnDisk] /\ external' = external /\ DocumentTypeOK'
<1>1. CASE ~fileOpen /\ UNCHANGED <<world, document>>
  BY <1>1 DEF world, document, TypeOK, DocumentTypeOK
<1>2. CASE WriteCurrent(roots, dirty) /\ UNCHANGED <<external, path, outPath, roots, selected>>
  <2>1. roots \in Content /\ dirty \in BOOLEAN
    BY DEF TypeOK
  <2> QED
    BY <1>2, <2>1, WriteCurrentType DEF TypeOK, DocumentTypeOK
<1> QED
  BY <1>1, <1>2 DEF Save

LEMMA RefreshType ==
  ASSUME entries \subseteq Paths, NEW d
  PROVE  /\ refreshedEntries(d) \subseteq Paths
         /\ refreshedSelection(d) \in Paths \cup {NoPath}
BY EntryAtIsAnEntry DEF refreshedEntries, refreshedSelection

\* What Remember records has its type, as long as the confirmations are asked
\* about something.
LEMMA RememberType ==
  ASSUME TypeOK, Remember, deleteConfirm' => deleteConfirm \/ editable
  PROVE  warned' \in [quit : BOOLEAN, open : Paths \cup {NoPath}, delete : Elems \cup {NoElem}]
<1>1. editable => roots[selectedRow] \in Elems
  BY EditableHasRow, ContentMembers DEF TypeOK
<1> QED
  BY <1>1 DEF Remember, TypeOK

\* In every reachable state the session's variables have their types; the
\* selection arithmetic of the panes never underflows, the selected browser
\* entry is a path or none, and the documents are forests of distinct elements.
THEOREM TypeCorrect == Spec => []TypeOK
<1>1. Init => TypeOK
  <2> SUFFICES ASSUME Init PROVE TypeOK
    OBVIOUS
  <2>1. disk \in [Paths -> OnDisk] /\ external \in 0 .. MaxExternal
    BY StartupAssumption, BoundsAssumption DEF Init
  <2>2. mode \in Modes /\ focus \in {"Browser", "Document"}
    BY DEF Init, Modes
  <2>3. path \in Paths \cup {NoPath} /\ outPath \in Paths \cup {NoPath} /\ roots \in Content
    BY StartupAssumption, EmptyContent DEF Init
  <2>4. entries \subseteq Paths
    BY DEF Init
  <2>5. bsel \in Paths \cup {NoPath}
    BY <2>4, EntryAtIsAnEntry DEF Init
  <2>6. singleFile \in BOOLEAN
    BY DEF Init
  <2> QED
    BY <2>1, <2>2, <2>3, <2>4, <2>5, <2>6 DEF Init, TypeOK
<1>2. TypeOK /\ [Next]_vars => TypeOK'
  <2> SUFFICES ASSUME TypeOK, [Next]_vars PROVE TypeOK'
    OBVIOUS
  <2> DEFINE Rest == /\ disk' \in [Paths -> OnDisk]
                     /\ external' \in 0 .. MaxExternal
                     /\ running' \in BOOLEAN
                     /\ mode' \in Modes
                     /\ focus' \in {"Browser", "Document"}
                     /\ DocumentTypeOK'
                     /\ filter' \in Filters \cup {NoFilter}
                     /\ filterGlobal' \in BOOLEAN
                     /\ entries' \subseteq Paths
                     /\ bsel' \in Paths \cup {NoPath}
                     /\ quitConfirm' \in BOOLEAN
                     /\ openConfirm' \in BOOLEAN
                     /\ deleteConfirm' \in BOOLEAN
  <2>0. singleFile' \in BOOLEAN
    BY DEF TypeOK, Next, BrowserStep, DocumentStep, DialogStep, Step, vars
  <2>1. Rest /\ warned' \in [quit : BOOLEAN, open : Paths \cup {NoPath}, delete : Elems \cup {NoElem}]
          => TypeOK'
    BY <2>0 DEF TypeOK, DocumentTypeOK
  <2>2. Rest /\ Remember /\ (deleteConfirm' => deleteConfirm \/ editable) => TypeOK'
    BY <2>1, RememberType
  <2>3. roots \in Content /\ selected \in Nat /\ bsel \in Paths \cup {NoPath}
    BY DEF TypeOK
  <2>4. IsFiniteSet(rows) /\ IsFiniteSet(DOMAIN roots)
    BY <2>3, RowsFinite DEF rows
  <2>5. Modes = {"Browse", "MenuBar", "NewFile", "Popup", "Dialog", "Password",
                 "Crypto", "Filter", "Progress"}
    BY DEF Modes
  <2> USE DEF world, document, searching, browser, confirms
  <2>10. CASE UNCHANGED vars
    BY <2>10 DEF TypeOK, vars
  <2>11. CASE Step(MoveBrowser)
    <3>1. PICK p \in entries : bsel' = p /\ PreviewBrowserSelection(p, "Browse")
      BY <2>11 DEF Step, MoveBrowser
    <3>2. p \in Paths
      BY <3>1 DEF TypeOK
    <3>3. DocumentTypeOK' /\ mode' \in Modes /\ quitConfirm' = FALSE /\ deleteConfirm' \in BOOLEAN
      BY <3>1, <3>2, <2>5, PreviewType
    <3>4. deleteConfirm' => deleteConfirm
      BY <3>1 DEF PreviewBrowserSelection, OpenFile
    <3> QED
      BY <2>2, <2>11, <3>1, <3>2, <3>3, <3>4 DEF Step, MoveBrowser, TypeOK
  <2>12. CASE Step(ActivateBrowserEntry)
    <3>1. CASE readable(bsel) /\ OpenFile(bsel) /\ focus' = "Document" /\ openConfirm' = FALSE
      BY <2>2, <2>3, <2>5, <2>12, <3>1, OpenFileType DEF Step, ActivateBrowserEntry, TypeOK
    <3>2. CASE UNCHANGED <<mode, document, deleteConfirm>> /\ quitConfirm' = FALSE
      BY <2>2, <2>12, <3>2 DEF Step, ActivateBrowserEntry, TypeOK, DocumentTypeOK
    <3> QED
      BY <2>12, <3>1, <3>2 DEF Step, ActivateBrowserEntry
  <2>13. CASE Step(StartBrowserSearch)
    <3>1. DocumentTypeOK' /\ mode' \in Modes /\ quitConfirm' = FALSE /\ deleteConfirm' \in BOOLEAN
      BY <2>3, <2>5, <2>13, PreviewType DEF Step, StartBrowserSearch
    <3>2. deleteConfirm' => deleteConfirm
      BY <2>13 DEF Step, StartBrowserSearch, PreviewBrowserSelection, OpenFile
    <3> QED
      BY <2>2, <2>13, <3>1, <3>2 DEF Step, StartBrowserSearch, TypeOK
  <2>14. CASE Step(OtherBrowserKey)
    <3>1. CASE quitConfirm' = FALSE /\ UNCHANGED <<mode, document, deleteConfirm>>
      BY <2>2, <2>14, <3>1 DEF Step, OtherBrowserKey, TypeOK, DocumentTypeOK
    <3>2. ASSUME NEW m \in Modes, PreviewBrowserSelection(bsel, m) PROVE TypeOK'
      <4>1. DocumentTypeOK' /\ mode' \in Modes /\ quitConfirm' = FALSE /\ deleteConfirm' \in BOOLEAN
        BY <2>3, <3>2, PreviewType
      <4>2. deleteConfirm' => deleteConfirm
        BY <3>2 DEF PreviewBrowserSelection, OpenFile
      <4> QED
        BY <2>2, <2>14, <4>1, <4>2 DEF Step, OtherBrowserKey, TypeOK
    <3> QED
      BY <2>5, <2>14, <3>1, <3>2 DEF Step, OtherBrowserKey
  <2>15. CASE Step(ToggleFocus) \/ Step(Quit) \/ Step(ToggleMenuBar)
    BY <2>2, <2>5, <2>15 DEF Step, ToggleFocus, Quit, ToggleMenuBar, TypeOK, DocumentTypeOK
  <2>16. CASE Step(MoveSelection)
    <3>1. selected' \in Nat
      BY <2>3, <2>4, <2>16, RankIsNatural DEF Step, MoveSelection
    <3> QED
      BY <2>2, <2>16, <3>1 DEF Step, MoveSelection, documentKey, TypeOK, DocumentTypeOK
  <2>17. CASE Step(DeleteSelected)
    <3>1. CASE editable /\ deleteConfirm
      <4>1. roots' \in Content
        BY <2>3, <2>17, <3>1, EditableHasRow, RemoveContent DEF Step, DeleteSelected
      <4>2. selected' \in Nat
        BY <2>3, <2>17, <3>1, <4>1, RowsFinite, ClampIsNatural DEF Step, DeleteSelected
      <4> QED
        BY <2>2, <2>17, <3>1, <4>1, <4>2
        DEF Step, DeleteSelected, documentKey, TypeOK, DocumentTypeOK
    <3>2. CASE ~(editable /\ deleteConfirm)
      BY <2>2, <2>17, <3>2 DEF Step, DeleteSelected, documentKey, TypeOK, DocumentTypeOK
    <3> QED
      BY <3>1, <3>2
  <2>18. CASE Step(MoveSelected)
    <3>1. PICK j \in DOMAIN roots :
            /\ roots' = [roots EXCEPT ![selectedRow] = roots[j], ![j] = roots[selectedRow]]
            /\ selected' = rank(j, rowsOf(roots', filter))
      BY <2>18 DEF Step, MoveSelected
    <3>2. roots' \in Content
      BY <2>3, <2>18, <3>1, EditableHasRow, SwapContent DEF Step, MoveSelected
    <3>3. selected' \in Nat
      BY <3>1, <3>2, RowsFinite, RankIsNatural
    <3> QED
      BY <2>2, <2>18, <3>2, <3>3 DEF Step, MoveSelected, documentKey, TypeOK, DocumentTypeOK
  <2>19. CASE Step(OpenDialog) \/ Step(StartFilter)
    BY <2>2, <2>5, <2>19
    DEF Step, OpenDialog, StartFilter, documentKey, TypeOK, DocumentTypeOK
  <2>20. CASE Step(SaveKey)
    BY <2>2, <2>20, SaveType DEF Step, SaveKey, documentKey, TypeOK
  <2>21. CASE Step(Cancel) \/ Step(SpawnRekey) \/ Step(FilterAccept)
    BY <2>2, <2>5, <2>21
    DEF Step, Cancel, SpawnRekey, FilterAccept, TypeOK, DocumentTypeOK
  <2>22. CASE Step(CommitEdit)
    <3>1. PICK e \in Elems \ Range(roots) : roots' = [roots EXCEPT ![selectedRow] = e]
      BY <2>22 DEF Step, CommitEdit
    <3>2. roots' \in Content
      BY <2>3, <2>22, <3>1, EditableHasRow, ReplaceContent DEF Step, CommitEdit
    <3>3. selected' \in Nat
      BY <2>3, <2>22, <3>2, RowsFinite, ClampIsNatural DEF Step, CommitEdit
    <3> QED
      BY <2>2, <2>5, <2>22, <3>2, <3>3 DEF Step, CommitEdit, TypeOK, DocumentTypeOK
  <2>23. CASE Step(CommitInsert)
    <3>1. PICK e \in Elems \ Range(roots) :
            \/ roots = <<>> /\ roots' = <<e>> /\ selected' = 0
            \/ /\ editable
               /\ roots' = InsertAt(roots, selectedRow + 1, e)
               /\ selected' = rank(selectedRow + 1, rowsOf(roots', filter))
      BY <2>23 DEF Step, CommitInsert
    <3>2. Len(roots) < MaxLen /\ Len(roots) \in Nat /\ MaxLen \in Nat
      BY <2>3, <2>23, ContentMembers, BoundsAssumption DEF Step, CommitInsert
    <3>3. roots' \in Content /\ selected' \in Nat
      <4>1. CASE roots = <<>> /\ roots' = <<e>> /\ selected' = 0
        BY <3>2, <4>1, SingletonContent
      <4>2. CASE /\ editable
                 /\ roots' = InsertAt(roots, selectedRow + 1, e)
                 /\ selected' = rank(selectedRow + 1, rowsOf(roots', filter))
        <5>1. selectedRow + 1 \in 1 .. Len(roots) + 1
          BY <2>3, <3>2, <4>2, EditableHasRow, ContentMembers
        <5>2. roots' \in Content
          BY <2>3, <3>2, <4>2, <5>1, InsertContent
        <5> QED
          BY <4>2, <5>2, RowsFinite, RankIsNatural
      <4> QED
        BY <3>1, <4>1, <4>2
    <3> QED
      BY <2>2, <2>5, <2>23, <3>3 DEF Step, CommitInsert, TypeOK, DocumentTypeOK
  <2>24. ASSUME Resigned, Remember, UNCHANGED running PROVE TypeOK'
    <3>1. PICK k \in DOMAIN roots, e \in Elems \ Range(roots) : roots' = [roots EXCEPT ![k] = e]
      BY <2>24 DEF Resigned
    <3>2. roots' \in Content
      BY <2>3, <3>1, ReplaceContent
    <3>3. selected' \in Nat
      BY <2>3, <2>24, <3>2, RowsFinite, ClampIsNatural DEF Resigned
    <3>4. /\ disk' \in [Paths -> OnDisk]
          /\ dirty' \in BOOLEAN
          /\ persisted' \in [at : Paths \cup {NoPath}, what : Content]
      BY <2>24, <3>2, WriteCurrentType DEF Resigned
    <3> QED
      BY <2>2, <2>5, <2>24, <3>2, <3>3, <3>4 DEF Resigned, TypeOK, DocumentTypeOK
  <2>25. CASE Step(SubmitResign) \/ Step(PollRekeyProgress)
    <3>1. CASE Resigned
      BY <2>24, <2>25, <3>1 DEF Step, Resigned
    <3>2. CASE mode' = "Browse" /\ UNCHANGED <<world, running, focus, document, searching, browser, confirms>>
      BY <2>2, <2>5, <2>25, <3>2 DEF Step, TypeOK, DocumentTypeOK
    <3> QED
      BY <2>25, <3>1, <3>2 DEF Step, SubmitResign, PollRekeyProgress
  <2>26. CASE Step(FilterType)
    <3>1. selected' \in Nat
      BY <2>3, <2>26, RowsFinite, ClampIsNatural DEF Step, FilterType
    <3> QED
      BY <2>2, <2>26, <3>1 DEF Step, FilterType, TypeOK, DocumentTypeOK
  <2>27. CASE Step(FilterClear)
    <3>1. selected' \in Nat
      BY <2>3, <2>4, <2>27, ClampIsNatural DEF Step, FilterClear
    <3> QED
      BY <2>2, <2>5, <2>27, <3>1 DEF Step, FilterClear, TypeOK, DocumentTypeOK
  <2>28. CASE Step(ActivateMenuEntry)
    <3>1. CASE mode' = "Browse" /\ Save
      BY <2>2, <2>5, <2>28, <3>1, SaveType DEF Step, ActivateMenuEntry, TypeOK
    <3>2. CASE mode' \in {"NewFile", "Popup"} /\ UNCHANGED <<world, document>>
      BY <2>2, <2>5, <2>28, <3>2 DEF Step, ActivateMenuEntry, TypeOK, DocumentTypeOK
    <3> QED
      BY <2>28, <3>1, <3>2 DEF Step, ActivateMenuEntry
  <2>29. CASE Step(CommitNewDer)
    <3>1. PICK p \in Paths :
            /\ disk' = [disk EXCEPT ![p] = <<>>]
            /\ path' = p /\ outPath' = p
            /\ persisted' = [at |-> p, what |-> <<>>]
            /\ entries' = refreshedEntries(disk')
            /\ bsel' = IF p \in entries' THEN p ELSE bsel
      BY <2>29 DEF Step, CommitNewDer
    <3>2. disk' \in [Paths -> OnDisk]
      BY <3>1, EmptyContent DEF OnDisk, TypeOK
    <3>3. DocumentTypeOK'
      BY <2>29, <3>1, EmptyContent DEF Step, CommitNewDer, DocumentTypeOK
    <3>4. entries' \subseteq Paths /\ bsel' \in Paths \cup {NoPath}
      BY <2>3, <3>1, RefreshType DEF TypeOK
    <3> QED
      BY <2>2, <2>5, <2>29, <3>2, <3>3, <3>4 DEF Step, CommitNewDer, TypeOK
  <2>30. CASE Step(PollFilesystem)
    <3>1. entries' \subseteq Paths /\ bsel' \in Paths \cup {NoPath}
      BY <2>30, RefreshType DEF Step, PollFilesystem, TypeOK
    <3> QED
      BY <2>2, <2>30, <3>1 DEF Step, PollFilesystem, TypeOK, DocumentTypeOK
  <2>31. CASE Step(External)
    <3>1. external' \in 0 .. MaxExternal
      BY <2>31, BoundsAssumption DEF Step, External, TypeOK
    <3>2. disk' \in [Paths -> OnDisk]
      BY <2>31 DEF Step, External, TypeOK
    <3> QED
      BY <2>2, <2>31, <3>1, <3>2 DEF Step, External, TypeOK, DocumentTypeOK
  <2> QED
    BY <2>10, <2>11, <2>12, <2>13, <2>14, <2>15, <2>16, <2>17, <2>18, <2>19, <2>20, <2>21, <2>22,
       <2>23, <2>25, <2>26, <2>27, <2>28, <2>29, <2>30, <2>31
    DEF Next, BrowserStep, DocumentStep, DialogStep
<1> QED
  BY <1>1, <1>2, PTL DEF Spec

(***************************************************************************)
(* A clean document is one that was read or written: inductive by itself.  *)
(***************************************************************************)
(* Every reachable state satisfies CleanMeansPersisted: App::dirty is only *)
(* cleared where document and file agree.                                  *)
THEOREM CleanDocumentsArePersisted == Spec => []CleanMeansPersisted
<1>1. Init => CleanMeansPersisted
  BY DEF Init, CleanMeansPersisted, fileOpen
<1>2. CleanMeansPersisted /\ [Next]_vars => CleanMeansPersisted'
  <2> SUFFICES ASSUME CleanMeansPersisted, [Next]_vars
               PROVE  CleanMeansPersisted'
    OBVIOUS
  <2> USE DEF CleanMeansPersisted, fileOpen
  <2>1. CASE UNCHANGED <<path, outPath, roots, dirty, persisted>>
    BY <2>1
  <2>2. CASE BrowserStep
    <3>1. ASSUME NEW p, OpenFile(p) PROVE CleanMeansPersisted'
      BY <3>1 DEF OpenFile
    <3>2. ASSUME NEW p, NEW m, PreviewBrowserSelection(p, m) PROVE CleanMeansPersisted'
      BY <2>1, <3>1, <3>2 DEF PreviewBrowserSelection, document
    <3>3. CASE ActivateBrowserEntry
      BY <2>1, <3>1, <3>3 DEF ActivateBrowserEntry, document
    <3> QED
      BY <2>1, <2>2, <3>2, <3>3
      DEF BrowserStep, Step, MoveBrowser, StartBrowserSearch, OtherBrowserKey, document
  <2>3. CASE DocumentStep
    <3>1. CASE Save
      BY <2>1, <3>1 DEF Save, WriteCurrent, document
    <3>2. CASE dirty'
      BY <3>2
    <3> QED
      BY <2>1, <2>3, <3>1, <3>2
      DEF DocumentStep, Step, MoveSelection, DeleteSelected, MoveSelected, OpenDialog,
          StartFilter, SaveKey, document
  <2>4. CASE DialogStep
    <3>1. CASE Resigned
      <4>1. outPath' = outPath
        BY <3>1 DEF Resigned
      <4>2. dirty' \/ persisted' = [at |-> outPath, what |-> roots']
        BY <3>1 DEF Resigned, WriteCurrent
      <4> QED
        BY <4>1, <4>2
    <3>2. CASE CommitNewDer
      BY <3>2 DEF CommitNewDer
    <3>3. CASE dirty'
      BY <3>3
    <3> QED
      BY <2>1, <2>4, <3>1, <3>2, <3>3
      DEF DialogStep, Step, Cancel, CommitEdit, CommitInsert, SubmitResign, SpawnRekey,
          PollRekeyProgress, FilterType, FilterAccept, FilterClear, document
  <2>5. CASE Step(ActivateMenuEntry)
    BY <2>1, <2>5 DEF Step, ActivateMenuEntry, Save, WriteCurrent, document
  <2> QED
    BY <2>1, <2>2, <2>3, <2>4, <2>5
    DEF Next, Step, ToggleFocus, Quit, ToggleMenuBar, PollFilesystem, External, vars, document
<1> QED
  BY <1>1, <1>2, PTL DEF Spec

(***************************************************************************)
(* The quit confirmation.  It is armed only where the keys that change the *)
(* document are out of reach, and a modified document was modified before  *)
(* it was armed.                                                           *)
(***************************************************************************)
QuitConfirmed ==
  /\ quitConfirm => mode \in {"Browse", "MenuBar", "NewFile", "Popup"}
  /\ quitConfirm /\ dirty => warned.quit

LEMMA QuitConfirmedStep == QuitConfirmed /\ [Next]_vars => QuitConfirmed'
<1> SUFFICES ASSUME QuitConfirmed, [Next]_vars PROVE QuitConfirmed'
  OBVIOUS
<1> USE DEF QuitConfirmed, world, document, searching, browser, confirms
<1>1. ASSUME Remember, UNCHANGED <<path, roots>> PROVE warned.quit => warned'.quit
  BY <1>1 DEF Remember
<1>2. ASSUME Remember, UNCHANGED <<path, roots, dirty, quitConfirm>>,
             mode' \in {"Browse", "MenuBar", "NewFile", "Popup"} \/ ~quitConfirm
      PROVE  QuitConfirmed'
  BY <1>1, <1>2
<1>3. CASE UNCHANGED vars
  BY <1>3 DEF vars
<1>4. CASE quitConfirm' = FALSE
  BY <1>4
<1>5. CASE BrowserStep
  <2>1. ASSUME NEW p, NEW m, PreviewBrowserSelection(p, m) PROVE quitConfirm' = FALSE
    BY <2>1 DEF PreviewBrowserSelection, OpenFile
  <2>2. ASSUME ActivateBrowserEntry PROVE quitConfirm' = FALSE
    BY <2>2 DEF ActivateBrowserEntry, OpenFile
  <2> QED
    BY <1>4, <1>5, <2>1, <2>2
    DEF BrowserStep, Step, MoveBrowser, StartBrowserSearch, OtherBrowserKey
<1>6. CASE DocumentStep
  BY <1>4, <1>6
  DEF DocumentStep, Step, MoveSelection, DeleteSelected, MoveSelected, OpenDialog, StartFilter,
      SaveKey, documentKey
<1>7. CASE DialogStep
  <2>1. CASE Step(Cancel)
    BY <1>2, <2>1 DEF Step, Cancel
  <2>2. CASE Step(CommitNewDer)
    BY <1>4, <2>2 DEF Step, CommitNewDer
  <2>3. ASSUME mode \notin {"Browse", "MenuBar", "NewFile", "Popup"}, UNCHANGED quitConfirm
        PROVE  QuitConfirmed'
    BY <2>3
  <2> QED
    BY <1>7, <2>1, <2>2, <2>3
    DEF DialogStep, Step, CommitEdit, CommitInsert, SubmitResign, SpawnRekey, PollRekeyProgress,
        Resigned, FilterType, FilterAccept, FilterClear
<1>8. CASE Step(ToggleFocus)
  BY <1>4, <1>8 DEF Step, ToggleFocus
<1>9. CASE Step(Quit)
  <2>1. CASE UNCHANGED quitConfirm
    BY <1>2, <1>9, <2>1 DEF Step, Quit
  <2>2. CASE ~quitConfirm /\ quitConfirm'
    BY <1>9, <2>2 DEF Step, Quit, Remember
  <2> QED
    BY <1>9, <2>1, <2>2 DEF Step, Quit
<1>10. CASE Step(ActivateMenuEntry)
  <2>1. dirty' => dirty
    BY <1>10 DEF Step, ActivateMenuEntry, Save, WriteCurrent
  <2>2. UNCHANGED <<path, roots, quitConfirm>> /\ mode' \in {"Browse", "NewFile", "Popup"}
    BY <1>10 DEF Step, ActivateMenuEntry, Save
  <2> QED
    BY <1>1, <1>10, <2>1, <2>2 DEF Step
<1>11. CASE Step(ToggleMenuBar) \/ Step(PollFilesystem) \/ Step(External)
  BY <1>2, <1>11 DEF Step, ToggleMenuBar, PollFilesystem, External
<1> QED
  BY <1>3, <1>5, <1>6, <1>7, <1>8, <1>9, <1>10, <1>11 DEF Next

\* Whatever the documents and the paths are, quitting loses unsaved changes
\* only after a warning that came after the last of them.
THEOREM QuitIsConfirmed == Spec => QuitDiscardsOnlyAfterWarning
<1>1. Init => QuitConfirmed
  BY DEF Init, QuitConfirmed
<1>2. QuitConfirmed /\ [Next]_vars => [dirty /\ running /\ ~running' => warned.quit]_vars
  <2> SUFFICES ASSUME QuitConfirmed, Next, dirty, running, ~running' PROVE warned.quit
    OBVIOUS
  <2> USE DEF world, document, searching, browser, confirms
  <2>1. CASE Step(Quit)
    BY <2>1 DEF QuitConfirmed, Step, Quit
  <2>2. UNCHANGED running => FALSE
    OBVIOUS
  <2> QED
    BY <2>1, <2>2
    DEF Next, BrowserStep, DocumentStep, DialogStep, Step, MoveBrowser, ActivateBrowserEntry,
        StartBrowserSearch, OtherBrowserKey, MoveSelection, DeleteSelected, MoveSelected,
        OpenDialog, StartFilter, SaveKey, Cancel, CommitEdit, CommitInsert, SubmitResign, Resigned,
        SpawnRekey, PollRekeyProgress, CommitNewDer, FilterType, FilterAccept, FilterClear,
        ToggleFocus, ToggleMenuBar, ActivateMenuEntry, PollFilesystem, External, vars
<1> QED
  BY <1>1, <1>2, QuitConfirmedStep, PTL DEF Spec, QuitDiscardsOnlyAfterWarning

(***************************************************************************)
(* The open confirmation.  A modified document is an open one; a dialog    *)
(* that can modify it while the browser has the focus disarms the          *)
(* confirmation; and no dialog hands the focus back to the browser with it *)
(* still armed.                                                            *)
(***************************************************************************)
OpenConfirmed ==
  /\ ~fileOpen => ~dirty /\ roots = <<>> /\ selected = 0
  /\ mode \in {"Dialog", "Crypto", "Password", "Progress"} => fileOpen
  /\ mode = "Dialog" => focus = "Document"
  /\ mode \in {"Crypto", "Password", "Progress"} /\ focus = "Browser" => ~openConfirm
  /\ mode = "Filter" /\ filterGlobal => focus = "Browser"
  /\ focus = "Browser" /\ openConfirm /\ dirty => warned.open # NoPath

\* Nothing can be edited while no file is open.
LEMMA NothingToEdit ==
  ASSUME roots = <<>>
  PROVE  /\ ~editable
         /\ rows = {}
         /\ \A f : clamp(0, rowsOf(roots, f)) = 0
         /\ clamp(0, DOMAIN roots) = 0
<1>1. DOMAIN roots = {} /\ \A f : rowsOf(roots, f) = {}
  BY DEF rowsOf
<1>2. Cardinality({}) = 0
  BY FS_EmptySet
<1> QED
  BY <1>1, <1>2 DEF editable, hasRow, rows, clamp

LEMMA OpenConfirmedStep == OpenConfirmed /\ [Next]_vars => OpenConfirmed'
<1> SUFFICES ASSUME OpenConfirmed, [Next]_vars PROVE OpenConfirmed'
  OBVIOUS
<1> USE DEF OpenConfirmed, fileOpen, world, document, searching, browser, confirms
<1>1. ASSUME Remember, UNCHANGED <<path, roots>>, openConfirm' => openConfirm
      PROVE  warned'.open = warned.open
  BY <1>1 DEF Remember
<1>2. CASE UNCHANGED vars
  BY <1>2 DEF vars
<1>3. ASSUME NEW p, readable(p), OpenFile(p), openConfirm' = FALSE PROVE OpenConfirmed'
  BY <1>3 DEF readable, OpenFile
<1>4. CASE BrowserStep
  <2>1. ASSUME NEW p, NEW m, PreviewBrowserSelection(p, m), openConfirm' = FALSE,
               m \in {"Crypto", "Password"} => fileOpen,
               m \in {"Browse", "Crypto", "Password", "Filter"},
               UNCHANGED focus, focus = "Browser"
        PROVE  OpenConfirmed'
    <3>1. CASE previewable(p)
      BY <1>3, <2>1, <3>1 DEF PreviewBrowserSelection, previewable
    <3>2. CASE ~previewable(p)
      BY <2>1, <3>2 DEF PreviewBrowserSelection
    <3> QED
      BY <3>1, <3>2
  <2>2. CASE Step(MoveBrowser)
    BY <2>1, <2>2 DEF Step, MoveBrowser, browserKey
  <2>3. CASE Step(StartBrowserSearch)
    BY <2>1, <2>3 DEF Step, StartBrowserSearch, browserKey
  <2>4. CASE Step(OtherBrowserKey)
    <3>1. CASE UNCHANGED <<mode, document>>
      BY <1>1, <2>4, <3>1 DEF Step, OtherBrowserKey, browserKey
    <3> QED
      BY <2>1, <2>4, <3>1 DEF Step, OtherBrowserKey, browserKey
  <2>5. CASE Step(ActivateBrowserEntry)
    <3>1. CASE readable(bsel) /\ OpenFile(bsel) /\ openConfirm' = FALSE
      BY <1>3, <3>1
    <3>2. CASE openConfirm' = FALSE /\ UNCHANGED <<mode, document>> /\ mode = "Browse"
      BY <3>2
    <3>3. CASE ~openConfirm /\ openConfirm' /\ UNCHANGED <<mode, focus, document>>
      <4>1. warned'.open = bsel /\ bsel # NoPath /\ mode = "Browse"
        BY <2>5, <3>3 DEF Step, ActivateBrowserEntry, browserKey, Remember
      <4> QED
        BY <3>3, <4>1
    <3> QED
      BY <2>5, <3>1, <3>2, <3>3 DEF Step, ActivateBrowserEntry, browserKey
  <2> QED
    BY <1>4, <2>2, <2>3, <2>4, <2>5 DEF BrowserStep
<1>5. CASE DocumentStep
  <2>1. focus' = "Document" /\ path' = path /\ UNCHANGED openConfirm
    BY <1>5 DEF DocumentStep, Step, MoveSelection, DeleteSelected, MoveSelected, OpenDialog,
       StartFilter, SaveKey, documentKey, Save
  <2>2. CASE Step(OpenDialog) \/ Step(StartFilter)
    BY <2>1, <2>2 DEF Step, OpenDialog, StartFilter
  <2>3. ~fileOpen /\ ~Step(OpenDialog) /\ ~Step(StartFilter)
          => ~dirty' /\ roots' = <<>> /\ selected' = 0 /\ mode' = "Browse"
    BY <1>5, NothingToEdit DEF DocumentStep, Step, MoveSelection, DeleteSelected, MoveSelected,
       SaveKey, documentKey, Save
  <2>4. ~Step(OpenDialog) /\ ~Step(StartFilter) => mode' = "Browse"
    BY <1>5 DEF DocumentStep, Step, MoveSelection, DeleteSelected, MoveSelected, SaveKey, documentKey
  <2> QED
    BY <2>1, <2>2, <2>3, <2>4
<1>6. CASE DialogStep
  <2>1. CASE Step(Cancel)
    BY <1>1, <2>1 DEF Step, Cancel
  <2>2. CASE Step(CommitEdit) \/ Step(CommitInsert)
    BY <2>2 DEF Step, CommitEdit, CommitInsert
  <2>3. ASSUME Resigned, mode \in {"Crypto", "Progress"} PROVE OpenConfirmed'
    BY <2>3 DEF Resigned
  <2>4. CASE Step(SubmitResign) \/ Step(SpawnRekey) \/ Step(PollRekeyProgress)
    BY <1>1, <2>3, <2>4 DEF Step, SubmitResign, SpawnRekey, PollRekeyProgress
  <2>5. CASE Step(CommitNewDer)
    BY <2>5, PathsAssumption DEF Step, CommitNewDer
  <2>6. CASE Step(FilterType)
    BY <1>1, <2>6, NothingToEdit DEF Step, FilterType
  <2>7. CASE Step(FilterAccept)
    BY <1>1, <2>7 DEF Step, FilterAccept
  <2>8. CASE Step(FilterClear)
    BY <1>1, <2>8, NothingToEdit DEF Step, FilterClear
  <2> QED
    BY <1>6, <2>1, <2>2, <2>4, <2>5, <2>6, <2>7, <2>8 DEF DialogStep
<1>7. CASE Step(ToggleFocus)
  BY <1>1, <1>7 DEF Step, ToggleFocus
<1>8. CASE Step(ActivateMenuEntry)
  <2>1. dirty' => dirty
    BY <1>8 DEF Step, ActivateMenuEntry, Save, WriteCurrent
  <2>2. /\ UNCHANGED <<path, roots, selected, openConfirm, focus>>
        /\ mode' \in {"Browse", "NewFile", "Popup"}
    BY <1>8 DEF Step, ActivateMenuEntry, Save
  <2> QED
    BY <1>1, <1>8, <2>1, <2>2 DEF Step
<1>9. CASE Step(Quit) \/ Step(ToggleMenuBar) \/ Step(PollFilesystem) \/ Step(External)
  BY <1>1, <1>9 DEF Step, Quit, ToggleMenuBar, PollFilesystem, External
<1> QED
  BY <1>2, <1>4, <1>5, <1>6, <1>7, <1>8, <1>9 DEF Next

\* Whatever the documents and the paths are, opening another file from the
\* browser loses unsaved changes only after a warning that came after the last
\* of them.
THEOREM SwitchIsConfirmed == Spec => SwitchDiscardsOnlyAfterWarning
<1>1. Init => OpenConfirmed
  BY StartupAssumption, PathsAssumption DEF Init, OpenConfirmed, fileOpen
<1>2. OpenConfirmed /\ [Next]_vars
        => [dirty /\ mode # "NewFile" /\ path' # path => warned.open # NoPath]_vars
  <2> SUFFICES ASSUME OpenConfirmed, Next, dirty, mode # "NewFile", path' # path
               PROVE  warned.open # NoPath
    OBVIOUS
  <2> USE DEF world, document, searching, browser, confirms
  <2>1. fileOpen
    BY DEF OpenConfirmed
  <2>2. ASSUME NEW p, NEW m, PreviewBrowserSelection(p, m) PROVE FALSE
    BY <2>1, <2>2 DEF PreviewBrowserSelection, previewable
  <2>3. CASE Step(ActivateBrowserEntry)
    BY <2>1, <2>3 DEF OpenConfirmed, Step, ActivateBrowserEntry, browserKey
  <2>4. CASE BrowserStep
    BY <2>2, <2>3, <2>4 DEF BrowserStep, Step, MoveBrowser, StartBrowserSearch, OtherBrowserKey
  <2>5. CASE Step(CommitNewDer)
    BY <2>5 DEF Step, CommitNewDer
  <2> QED
    BY <2>4, <2>5
    DEF Next, DocumentStep, DialogStep, Step, MoveSelection, DeleteSelected, MoveSelected,
        OpenDialog, StartFilter, SaveKey, Save, Cancel, CommitEdit, CommitInsert, SubmitResign,
        Resigned, SpawnRekey, PollRekeyProgress, FilterType, FilterAccept, FilterClear,
        ToggleFocus, Quit, ToggleMenuBar, ActivateMenuEntry, PollFilesystem, External, vars
<1> QED
  BY <1>1, <1>2, OpenConfirmedStep, PTL DEF Spec, SwitchDiscardsOnlyAfterWarning

(***************************************************************************)
(* The selection.  What every action leaves of it is a row, because there  *)
(* is a row for every number below their count.                            *)
(***************************************************************************)
LEMMA RankGrows ==
  ASSUME NEW S \in SUBSET Nat, IsFiniteSet(S), NEW m \in Nat
  PROVE  rank(m + 1, S) = rank(m, S) + IF m \in S THEN 1 ELSE 0
<1> DEFINE low == {q \in S : q < m}
<1>1. IsFiniteSet(low) /\ Cardinality(low) \in Nat
  BY FS_Subset, FS_CardinalityType
<1>2. \A q \in S : q \in Nat /\ (q < m + 1 <=> q < m \/ q = m)
  OBVIOUS
<1>3. CASE m \in S
  <2>1. m \notin low
    OBVIOUS
  <2>2. {q \in S : q < m + 1} = low \cup {m}
    BY <1>2, <1>3, Zenon
  <2> QED
    BY <1>1, <1>3, <2>1, <2>2, FS_AddElement DEF rank
<1>4. CASE m \notin S
  <2>1. {q \in S : q < m + 1} = low
    BY <1>2, <1>4
  <2> QED
    BY <1>1, <1>4, <2>1 DEF rank
<1> QED
  BY <1>3, <1>4

LEMMA RowAtEachIndex ==
  ASSUME NEW n \in Nat, NEW S \in SUBSET (1 .. n), NEW i \in Nat, i < Cardinality(S)
  PROVE  hasRow(S, i)
<1>1. IsFiniteSet(S) /\ S \in SUBSET Nat
  <2>1. 1 \in Int /\ n \in Int
    OBVIOUS
  <2>2. IsFiniteSet(1 .. n)
    BY <2>1, FS_Interval
  <2>3. IsFiniteSet(S)
    BY <2>2, FS_Subset
  <2>4. S \in SUBSET Nat
    OBVIOUS
  <2> QED
    BY <2>3, <2>4
<1>2. Cardinality(S) \in Nat /\ \A m \in Nat : rank(m, S) \in Nat
  BY <1>1, FS_CardinalityType, RankIsNatural
<1> DEFINE D == {m \in Nat : rank(m + 1, S) > i}
<1>3. n \in D
  <2>0. \A q \in S : q < n + 1
    OBVIOUS
  <2>1. {q \in S : q < n + 1} = S
    BY <2>0
  <2> QED
    BY <2>1 DEF rank
<1>4. PICK m \in D : \A l \in D : m <= l
  <2> DEFINE R == OpToRel(<, Nat)
  <2>1. IsWellFoundedOn(R, Nat)
    BY NatLessThanWellFounded
  <2>2. R = {ss \in Nat \X Nat : ss[1] < ss[2]}
    BY DEF OpToRel
  <2>3. D \in SUBSET Nat /\ D # {}
    BY <1>3
  <2> HIDE DEF R, D
  <2>4. PICK m \in D : \A y \in D : ~(<<y, m>> \in R)
    BY <2>1, <2>3, WFMin
  <2>5. \A y \in D : ~(y < m)
    BY <2>2, <2>3, <2>4
  <2> QED
    BY <2>3, <2>4, <2>5
<1>5. rank(m, S) <= i
  <2>1. CASE m = 0
    <3>0. \A q \in S : ~(q < 0)
      OBVIOUS
    <3>1. {q \in S : q < 0} = {}
      BY <3>0
    <3> QED
      BY <2>1, <3>1, FS_EmptySet DEF rank
  <2>2. CASE m # 0
    <3>1. m - 1 \in Nat /\ (m - 1) + 1 = m /\ ~(m <= m - 1)
      BY <1>4, <2>2
    <3>2. ~(rank(m, S) > i)
      BY <1>4, <3>1
    <3> QED
      BY <1>2, <1>4, <3>2
  <2> QED
    BY <2>1, <2>2
<1>6. rank(m + 1, S) = rank(m, S) + IF m \in S THEN 1 ELSE 0
  BY <1>1, <1>4, RankGrows
<1>7. m \in S /\ rank(m, S) = i
  BY <1>2, <1>4, <1>5, <1>6
<1> QED
  BY <1>7 DEF hasRow

(* A selection i of a forest seen through a filter.                        *)
OnARow(forest, f, i) ==
  hasRow(rowsOf(forest, f), i) \/ (rowsOf(forest, f) = {} /\ i = 0)

LEMMA ClampedIsOnARow ==
  ASSUME NEW s \in Content, NEW f, NEW i \in Nat
  PROVE  OnARow(s, f, clamp(i, rowsOf(s, f)))
<1> DEFINE S == rowsOf(s, f)
<1>1. Len(s) \in Nat /\ S \in SUBSET (1 .. Len(s)) /\ IsFiniteSet(S)
  BY ContentMembers, RowsFinite
<1>2. Cardinality(S) \in Nat /\ (S # {} => Cardinality(S) # 0)
  BY <1>1, FS_CardinalityType, FS_EmptySet
<1> HIDE DEF S
<1>3. S # {} => clamp(i, S) \in Nat /\ clamp(i, S) < Cardinality(S)
  BY <1>2 DEF clamp
<1>4. S # {} => hasRow(S, clamp(i, S))
  BY <1>1, <1>3, RowAtEachIndex
<1>5. S = {} => clamp(i, S) = 0
  BY <1>2, FS_EmptySet DEF clamp
<1> QED
  BY <1>4, <1>5 DEF OnARow, S

LEMMA FirstIsOnARow == ASSUME NEW s \in Content, NEW f PROVE OnARow(s, f, 0)
<1>1. IsFiniteSet(rowsOf(s, f))
  BY RowsFinite
<1>2. Cardinality(rowsOf(s, f)) \in Nat
  BY <1>1, FS_CardinalityType
<1>3. clamp(0, rowsOf(s, f)) = 0
  <2>1. rowsOf(s, f) # {} => Cardinality(rowsOf(s, f)) # 0
    BY <1>1, FS_EmptySet
  <2> QED
    BY <1>2, <2>1 DEF clamp
<1> QED
  BY <1>3, ClampedIsOnARow

LEMMA RowIsOnARow ==
  ASSUME NEW s, NEW f, NEW r \in rowsOf(s, f)
  PROVE  OnARow(s, f, rank(r, rowsOf(s, f)))
BY DEF OnARow, hasRow

(* An element moved by one place takes its row with it.                    *)
LEMMA MovedIsARow ==
  ASSUME NEW s \in Content, NEW f, NEW k \in DOMAIN s, NEW j \in DOMAIN s, shown(s[k], f)
  PROVE  j \in rowsOf([s EXCEPT ![k] = s[j], ![j] = s[k]], f)
<1> DEFINE t == [s EXCEPT ![k] = s[j], ![j] = s[k]]
<1>1. s \in Seq(Elems)
  BY ContentMembers
<1>2. j \in DOMAIN t /\ t[j] = s[k]
  BY <1>1
<1> HIDE DEF t
<1>3. shown(t[j], f)
  BY <1>2
<1>4. j \in rowsOf(t, f)
  BY <1>2, <1>3 DEF rowsOf
<1> QED
  BY <1>4 DEF t

(* What is inserted behind a row that is shown has a row, shown or not.    *)
LEMMA InsertedIsARow ==
  ASSUME NEW s \in Content, NEW f, NEW k \in DOMAIN s, NEW e \in Elems, shown(s[k], f)
  PROVE  k + 1 \in rowsOf(InsertAt(s, k + 1, e), f)
<1> DEFINE front == SubSeq(s, 1, k)
           back == SubSeq(s, k + 1, Len(s))
           t == (front \o <<e>>) \o back
<1>1. s \in Seq(Elems) /\ Len(s) \in Nat /\ k \in 1 .. Len(s)
  BY ContentMembers
<1>2. front \in Seq(Elems) /\ Len(front) = k /\ front[k] = s[k]
  BY <1>1
<1>3. back \in Seq(Elems) /\ Len(back) = Len(s) - k
  BY <1>1
<1>4. InsertAt(s, k + 1, e) = t
  <2>1. (k + 1) - 1 = k
    BY <1>1
  <2> QED
    BY <2>1 DEF InsertAt
<1> HIDE DEF front, back
<1>5. t \in Seq(Elems) /\ Len(t) = Len(s) + 1 /\ t[k] = front[k]
  BY <1>1, <1>2, <1>3
<1> HIDE DEF t
<1>6. k + 1 \in DOMAIN t /\ t[(k + 1) - 1] = s[k]
  BY <1>1, <1>2, <1>5
<1>7. shown(t[(k + 1) - 1], f)
  BY <1>6
<1>8. k + 1 \in rowsOf(t, f)
  BY <1>6, <1>7 DEF rowsOf
<1> QED
  BY <1>4, <1>8

LEMMA UnfilteredRows == ASSUME NEW s PROVE rowsOf(s, NoFilter) = DOMAIN s
BY DEF rowsOf, shown

\* Whatever the documents and filters are, the selection of the structure pane
\* is a row of it, or the pane is empty.
THEOREM SelectedIsARow == Spec => []SelectionIsARow
<1> DEFINE Selected == OnARow(roots, filter, selected)
<1>1. TypeOK /\ Init => Selected
  BY FirstIsOnARow DEF Init, TypeOK
<1>2. TypeOK /\ TypeOK' /\ Selected /\ [Next]_vars => Selected'
  <2> SUFFICES ASSUME TypeOK, TypeOK', Selected, [Next]_vars PROVE OnARow(roots', filter', selected')
    OBVIOUS
  <2>0. roots \in Content /\ roots' \in Content /\ selected \in Nat
    BY DEF TypeOK
  <2> USE DEF document, searching
  <2>1. CASE UNCHANGED <<roots, filter, selected>>
    BY <2>1
  <2>2. CASE selected' = 0
    BY <2>0, <2>2, FirstIsOnARow
  <2>3. CASE selected' = clamp(selected, rowsOf(roots', filter'))
    BY <2>0, <2>3, ClampedIsOnARow
  <2>4. CASE BrowserStep
    <3>1. ASSUME NEW p, NEW m, PreviewBrowserSelection(p, m)
          PROVE selected' = 0 \/ UNCHANGED <<roots, selected>>
      BY <3>1 DEF PreviewBrowserSelection, OpenFile
    <3>2. CASE ActivateBrowserEntry
      BY <2>1, <2>2, <3>2 DEF ActivateBrowserEntry, OpenFile
    <3> QED
      BY <2>1, <2>2, <2>4, <3>1, <3>2
      DEF BrowserStep, Step, MoveBrowser, StartBrowserSearch, OtherBrowserKey
  <2>5. CASE DocumentStep
    <3>1. CASE Step(MoveSelection)
      <4>1. UNCHANGED <<roots, filter>>
        BY <3>1 DEF Step, MoveSelection
      <4>2. selected' = selected \/ \E r \in rowsOf(roots, filter) :
                                      selected' = rank(r, rowsOf(roots, filter))
        BY <3>1 DEF Step, MoveSelection, rows
      <4> QED
        BY <2>1, <4>1, <4>2, RowIsOnARow
    <3>2. CASE Step(MoveSelected)
      <4>1. editable /\ filter' = filter
        BY <3>2 DEF Step, MoveSelected
      <4>2. PICK j \in DOMAIN roots :
              /\ roots' = [roots EXCEPT ![selectedRow] = roots[j], ![j] = roots[selectedRow]]
              /\ selected' = rank(j, rowsOf(roots', filter))
        BY <3>2 DEF Step, MoveSelected
      <4>3. selectedRow \in DOMAIN roots /\ shown(roots[selectedRow], filter)
        BY <2>0, <4>1, EditableHasRow DEF editable
      <4>4. j \in rowsOf(roots', filter)
        BY <2>0, <4>2, <4>3, MovedIsARow
      <4> QED
        BY <4>1, <4>2, <4>4, RowIsOnARow
    <3>3. CASE Step(DeleteSelected)
      BY <2>1, <2>3, <3>3 DEF Step, DeleteSelected
    <3> QED
      BY <2>1, <2>5, <3>1, <3>2, <3>3
      DEF DocumentStep, Step, OpenDialog, StartFilter, SaveKey, Save
  <2>6. CASE DialogStep
    <3>1. CASE Step(CommitInsert)
      <4>1. filter' = filter /\ Len(roots) < MaxLen
        BY <3>1 DEF Step, CommitInsert
      <4>2. PICK e \in Elems :
              \/ selected' = 0
              \/ /\ editable
                 /\ roots' = InsertAt(roots, selectedRow + 1, e)
                 /\ selected' = rank(selectedRow + 1, rowsOf(roots', filter))
        BY <3>1 DEF Step, CommitInsert
      <4>3. CASE selected' # 0
        <5>1. selectedRow \in DOMAIN roots /\ shown(roots[selectedRow], filter)
          BY <2>0, <4>2, <4>3, EditableHasRow DEF editable
        <5>2. selectedRow + 1 \in rowsOf(roots', filter)
          BY <2>0, <4>2, <4>3, <5>1, InsertedIsARow
        <5> QED
          BY <4>1, <4>2, <4>3, <5>2, RowIsOnARow
      <4> QED
        BY <2>2, <4>3
    <3>2. CASE Resigned
      BY <2>3, <3>2 DEF Resigned
    <3>3. CASE Step(FilterClear)
      <4>1. roots' = roots /\ filter' = NoFilter /\ selected' = clamp(selected, DOMAIN roots)
        BY <3>3 DEF Step, FilterClear
      <4> QED
        BY <2>3, <4>1, UnfilteredRows
    <3>4. CASE Step(FilterType)
      BY <2>3, <3>4 DEF Step, FilterType
    <3>5. CASE Step(CommitEdit)
      BY <2>3, <3>5 DEF Step, CommitEdit
    <3>6. CASE Step(CommitNewDer)
      BY <2>2, <3>6 DEF Step, CommitNewDer
    <3> QED
      BY <2>1, <2>6, <3>1, <3>2, <3>3, <3>4, <3>5, <3>6
      DEF DialogStep, Step, Cancel, SubmitResign, SpawnRekey, PollRekeyProgress, FilterAccept
  <2> QED
    BY <2>1, <2>4, <2>5, <2>6
    DEF Next, Step, ToggleFocus, Quit, ToggleMenuBar, ActivateMenuEntry, Save, PollFilesystem,
        External, vars
<1>3. Selected => SelectionIsARow
  BY DEF SelectionIsARow, OnARow, rows
<1> HIDE DEF Selected
<1> QED
  BY <1>1, <1>2, <1>3, TypeCorrect, PTL DEF Spec
=============================================================================
