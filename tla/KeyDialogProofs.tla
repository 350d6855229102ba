--------------------------- MODULE KeyDialogProofs ---------------------------
(***************************************************************************)
(* Proofs about module KeyDialog, for every table of algorithms and every  *)
(* set of keys.                                                            *)
(***************************************************************************)
EXTENDS KeyDialog, Integers, FiniteSetTheorems, WellFoundedInduction,
        SequenceTheorems, TLAPS

-----------------------------------------------------------------------------
(* Filters.                                                                *)
(* Every nonempty set of naturals has a least element.                     *)
LEMMA LeastNatural ==
  ASSUME NEW S \in SUBSET Nat, S # {}
  PROVE  \E m \in S : \A n \in S : m <= n
<1> DEFINE R == OpToRel(<, Nat)
<1>1. IsWellFoundedOn(R, Nat)
  BY NatLessThanWellFounded
<1>2. R = {ss \in Nat \X Nat : ss[1] < ss[2]}
  BY DEF OpToRel
<1> HIDE DEF R
<1>3. PICK m \in S : \A y \in S : ~(<<y, m>> \in R)
  BY <1>1, WFMin
<1>4. \A y \in S : ~(y < m)
  BY <1>2, <1>3
<1> QED
  BY <1>4

(* What a filter leaves of a list are elements of the kind that is kept.   *)
filtered(s, I, f) ==
  [n \in 0 .. Len(s) |->
     IF n = 0 THEN <<>> ELSE IF n \in I THEN Append(f[n - 1], s[n]) ELSE f[n - 1]]

partial(s, I, n, f) ==
  /\ f = [k \in 0 .. n |-> f[k]]
  /\ \A k \in 0 .. n :
       f[k] = IF k = 0 THEN <<>> ELSE IF k \in I THEN Append(f[k - 1], s[k]) ELSE f[k - 1]

LEMMA FilterGoesOn ==
  ASSUME NEW s, NEW I, NEW n \in Nat
  PROVE  \E f : partial(s, I, n, f)
<1> DEFINE W == {m \in Nat : ~\E f : partial(s, I, m, f)}
<1> SUFFICES ASSUME W # {} PROVE FALSE
  OBVIOUS
<1>1. PICK m \in W : \A k \in W : m <= k
  <2>1. W \in SUBSET Nat
    OBVIOUS
  <2> HIDE DEF W
  <2> QED
    BY <2>1, LeastNatural
<1>2. m \in Nat /\ ~\E f : partial(s, I, m, f)
  OBVIOUS
<1>3. CASE m = 0
  <2> DEFINE z == [k \in 0 .. m |-> <<>>]
  <2>1. z = [k \in 0 .. m |-> z[k]]
    OBVIOUS
  <2>2. \A k \in 0 .. m : z[k] = <<>> /\ k = 0
    BY <1>3
  <2>3. \A k \in 0 .. m :
          z[k] = IF k = 0 THEN <<>> ELSE IF k \in I THEN Append(z[k - 1], s[k]) ELSE z[k - 1]
    BY <2>2
  <2> QED
    BY <1>2, <2>1, <2>3 DEF partial
<1>4. CASE m # 0
  <2>1. m - 1 \in Nat /\ ~(m <= m - 1)
    BY <1>2, <1>4
  <2>2. PICK f : partial(s, I, m - 1, f)
    BY <1>1, <2>1
  <2> DEFINE e == IF m \in I THEN Append(f[m - 1], s[m]) ELSE f[m - 1]
             g == [k \in 0 .. m |-> IF k = m THEN e ELSE f[k]]
  <2>3. g = [k \in 0 .. m |-> g[k]]
    OBVIOUS
  <2>4. \A k \in 0 .. m :
          g[k] = IF k = 0 THEN <<>> ELSE IF k \in I THEN Append(g[k - 1], s[k]) ELSE g[k - 1]
    <3> TAKE k \in 0 .. m
    <3>1. k = m \/ k \in 0 .. (m - 1)
      BY <1>2
    <3>2. k # 0 => k - 1 \in 0 .. m /\ k - 1 # m /\ g[k - 1] = f[k - 1]
      BY <1>2
    <3>3. CASE k = m
      <4>1. g[k] = e /\ g[k - 1] = f[k - 1]
        BY <1>4, <3>2, <3>3
      <4> HIDE DEF g
      <4> QED
        BY <1>4, <3>3, <4>1
    <3>4. CASE k # m
      <4>1. /\ g[k] = f[k] /\ k \in 0 .. (m - 1)
            /\ f[k] = IF k = 0 THEN <<>> ELSE IF k \in I THEN Append(f[k - 1], s[k])
                       ELSE f[k - 1]
        BY <2>2, <3>1, <3>4 DEF partial
      <4> HIDE DEF g
      <4> QED
        BY <3>2, <4>1
    <3> QED
      BY <3>3, <3>4
  <2> HIDE DEF g
  <2> QED
    BY <1>2, <2>3, <2>4 DEF partial
<1> QED
  BY <1>3, <1>4

LEMMA FilteredIs ==
  ASSUME NEW T, NEW s \in Seq(T), NEW I \in SUBSET (1 .. Len(s))
  PROVE  (CHOOSE f : f = filtered(s, I, f))[Len(s)] \in Seq({s[i] : i \in I})
<1> DEFINE U == {s[i] : i \in I}
           f == CHOOSE h : h = filtered(s, I, h)
<1>1. Len(s) \in Nat
  BY LenProperties
<1>2. PICK g : partial(s, I, Len(s), g)
  BY <1>1, FilterGoesOn
<1>3. g = filtered(s, I, g)
  BY <1>2 DEF partial, filtered
<1>4. f = filtered(s, I, f)
  BY <1>3
<1> HIDE DEF f
<1>5. \A n \in 0 .. Len(s) :
        f[n] = IF n = 0 THEN <<>> ELSE IF n \in I THEN Append(f[n - 1], s[n]) ELSE f[n - 1]
  <2> TAKE n \in 0 .. Len(s)
  <2>1. \A h : filtered(s, I, h)[n]
           = IF n = 0 THEN <<>> ELSE IF n \in I THEN Append(h[n - 1], s[n]) ELSE h[n - 1]
    BY DEF filtered
  <2> QED
    BY <1>4, <2>1
<1>6. \A i \in I : s[i] \in U
  OBVIOUS
<1> HIDE DEF U
<1> DEFINE W == {n \in 0 .. Len(s) : f[n] \notin Seq(U)}
<1>7. W = {}
  <2> SUFFICES ASSUME W # {} PROVE FALSE
    OBVIOUS
  <2>1. PICK m \in W : \A n \in W : m <= n
    <3>1. W \in SUBSET Nat
      OBVIOUS
    <3> HIDE DEF W
    <3> QED
      BY <3>1, LeastNatural
  <2>2. m \in 0 .. Len(s) /\ f[m] \notin Seq(U)
    OBVIOUS
  <2>3. m # 0 => m - 1 \in 0 .. Len(s) /\ ~(m <= m - 1)
    BY <1>1, <2>2
  <2>4. m # 0 => f[m - 1] \in Seq(U)
    BY <2>1, <2>3
  <2>5. m = 0 => f[m] \in Seq(U)
    <3>1. <<>> \in Seq(U)
      BY EmptySeq
    <3> HIDE DEF W
    <3> QED
      BY <1>5, <2>2, <3>1
  <2>6. m # 0 /\ m \in I => f[m] \in Seq(U)
    <3> SUFFICES ASSUME m # 0, m \in I PROVE f[m] \in Seq(U)
      OBVIOUS
    <3> DEFINE t == f[m - 1]
               x == s[m]
    <3>1. f[m] = Append(t, x)
      BY <1>5, <2>2
    <3>2. t \in Seq(U) /\ x \in U
      BY <1>6, <2>4
    <3> HIDE DEF t, x
    <3>3. Append(t, x) \in Seq(U)
      BY ONLY <3>2, AppendProperties
    <3> QED
      BY ONLY <3>1, <3>3
  <2>7. m # 0 /\ m \notin I => f[m] \in Seq(U)
    BY <1>5, <2>2, <2>4
  <2> QED
    BY <2>2, <2>5, <2>6, <2>7
<1>8. Len(s) \in 0 .. Len(s)
  BY <1>1
<1> QED
  BY <1>7, <1>8 DEF f, U


(***************************************************************************)
(* Lists, and what the tables promise of a family.                         *)
(***************************************************************************)
LEMMA ListIs ==
  ASSUME NEW s, isList(s)
  PROVE  Len(s) \in Nat /\ DOMAIN s = 1 .. Len(s) /\ (s # <<>> <=> Len(s) > 0)
<1> DEFINE T == {s[i] : i \in DOMAIN s}
<1>1. s \in Seq(T)
  BY DEF isList
<1> HIDE DEF T
<1> QED
  BY <1>1, LenProperties, EmptySeq

LEMMA IsListIn ==
  ASSUME NEW T, NEW s \in Seq(T)
  PROVE  isList(s)
<1>1. s \in [1 .. Len(s) -> T] /\ Len(s) \in Nat
  BY LenProperties
<1>2. s \in [1 .. Len(s) -> {s[i] : i \in DOMAIN s}]
  BY <1>1
<1>3. s \in Seq({s[i] : i \in DOMAIN s})
  BY <1>1, <1>2, SeqDef
<1> QED
  BY <1>3 DEF isList

LEMMA FamilyIs ==
  ASSUME NEW f \in 0 .. Len(Families) - 1
  PROVE  LET fam == Families[f + 1] IN
         /\ Len(fam.members) \in Nat /\ fam.default \in 0 .. Len(fam.members) - 1
         /\ fam.members[1] = HssLms => fam.default = 0
<1>1. Len(Families) \in Nat /\ DOMAIN Families = 1 .. Len(Families)
  BY FamiliesAssumption, ListIs DEF FamiliesAssumption
<1>2. f + 1 \in DOMAIN Families
  BY <1>1
<1>3. Len(Families[f + 1].members) \in Nat
  BY <1>2, FamiliesAssumption, ListIs DEF FamiliesAssumption
<1> QED
  BY <1>2, <1>3, FamiliesAssumption DEF FamiliesAssumption

LEMMA FirstFamilyIs == 0 \in 0 .. Len(Families) - 1
BY FamiliesAssumption, ListIs DEF FamiliesAssumption

(***************************************************************************)
(* The default name depends on the algorithm's fields alone, and so does   *)
(* whether it is followed.                                                 *)
(***************************************************************************)
Follows(d) == d.auto => d.filename = defaultFilename(d)

Fields ==
  {"open", "family", "param", "bits", "hss", "picker", "useExisting", "filename", "auto",
   "editing", "cursor", "password", "existing", "checked", "column", "optionField", "issuedIdx"}
Choosers == {"mode", "hash", "height", "winternitz"}
IsDialog(d) ==
  /\ Fields \subseteq DOMAIN d /\ d.open
  /\ d.picker = NoPicker \/ ("kind" \in DOMAIN d.picker /\ d.picker.kind \in Choosers)

\* e has the algorithm and the name of d.
SameName(d, e) ==
  /\ e.family = d.family /\ e.param = d.param /\ e.bits = d.bits /\ e.hss = d.hss
  /\ e.filename = d.filename /\ e.auto = d.auto

LEMMA DefaultDepends ==
  ASSUME NEW d, NEW e,
         e.family = d.family, e.param = d.param, e.bits = d.bits, e.hss = d.hss
  PROVE  defaultFilename(e) = defaultFilename(d)
<1>1. family(e) = family(d) /\ isHssFamily(e) = isHssFamily(d)
  BY DEF family, isHssFamily
<1>2. customSelected(e) = customSelected(d)
  BY <1>1 DEF customSelected
<1>3. alg(e) = alg(d)
  BY <1>1, <1>2 DEF alg
<1> QED
  BY <1>1, <1>3 DEF defaultFilename

LEMMA SameNameFollows ==
  ASSUME NEW d, NEW e, SameName(d, e), Follows(d)
  PROVE  Follows(e)
BY DefaultDepends DEF SameName, Follows

\* Whatever changed, the name follows after algorithmChanged.
LEMMA ChangedFollows ==
  ASSUME NEW d, IsDialog(d)
  PROVE  IsDialog(algorithmChanged(d)) /\ Follows(algorithmChanged(d))
<1> DEFINE named == IF d.auto THEN [d EXCEPT !.filename = defaultFilename(d)] ELSE d
<1>1. IsDialog(named) /\ named.auto = d.auto
  BY DEF IsDialog, Fields
<1>2. /\ named.family = d.family /\ named.param = d.param
      /\ named.bits = d.bits /\ named.hss = d.hss
  BY DEF IsDialog, Fields
<1>3. named.auto => named.filename = defaultFilename(d)
  BY DEF IsDialog, Fields
<1>4. Follows(named)
  BY <1>2, <1>3, DefaultDepends DEF Follows
<1> DEFINE result == [named EXCEPT !.optionField = least(@, maxOptionField(d))]
<1>5. IsDialog(result) /\ SameName(named, result)
  <2> HIDE DEF named
  <2> QED BY <1>1 DEF IsDialog, Fields, SameName
<1>6. Follows(result)
  BY <1>4, <1>5, SameNameFollows
<1>7. algorithmChanged(d) = result
  BY DEF algorithmChanged
<1> HIDE DEF result
<1> QED
  BY <1>5, <1>6, <1>7

-----------------------------------------------------------------------------
(* Each change of the dialog leaves the name as it was, or follows.        *)
Good(d) == IsDialog(d) /\ Follows(d)

LEMMA Kept ==
  ASSUME NEW d, NEW e, Good(d), SameName(d, e), IsDialog(e)
  PROVE  Good(e)
BY SameNameFollows DEF Good

LEMMA FreshIsGood == Good(fresh)
<1>1. IsDialog(fresh)
  BY DEF IsDialog, Fields, fresh
<1>2. fresh.family = 0 /\ fresh.param = Families[1].default
  BY DEF fresh
<1>3. family(fresh) = Families[1]
  BY <1>2 DEF family
<1>a. Len(Families[1].members) \in Nat /\ Families[1].default # Len(Families[1].members)
  <2>1. /\ Len(Families[0 + 1].members) \in Nat
        /\ Families[0 + 1].default \in 0 .. Len(Families[0 + 1].members) - 1
    BY FirstFamilyIs, FamilyIs
  <2> QED BY <2>1
<1>4. ~isHssFamily(fresh) /\ ~customSelected(fresh)
  BY <1>2, <1>3, <1>a, FirstFamilyAssumption
  DEF FirstFamilyAssumption, isHssFamily, customSelected
<1>5. alg(fresh) = [name |-> Families[1].members[Families[1].default + 1], bits |-> 0]
  BY <1>2, <1>3, <1>4 DEF alg
<1>6. fresh.filename = <<shortName([name |-> Families[1].members[Families[1].default + 1], bits |-> 0])>>
  BY DEF fresh
<1>7. fresh.filename = defaultFilename(fresh)
  BY <1>4, <1>5, <1>6 DEF defaultFilename
<1> QED
  BY <1>1, <1>7 DEF Good, Follows

LEMMA MoveFamilyIsGood ==
  ASSUME NEW d, Good(d), NEW delta
  PROVE  Good(moveFamily(d, delta))
<1> DEFINE new == clamped(d.family + delta, 0, Len(Families) - 1)
           moved == [d EXCEPT !.family = new, !.param = Families[new + 1].default]
<1>1. IsDialog(moved)
  <2> HIDE DEF new
  <2> QED BY DEF Good, IsDialog, Fields
<1>2. moveFamily(d, delta) = IF new = d.family THEN d ELSE algorithmChanged(moved)
  BY DEF moveFamily
<1> HIDE DEF moved, new
<1> QED
  BY <1>1, <1>2, ChangedFollows DEF Good

LEMMA MoveRowIsGood ==
  ASSUME NEW d, Good(d), NEW delta
  PROVE  Good(moveRow(d, delta))
<1> DEFINE param == clamped(d.param + delta, 0, paramRows(d) - 1)
           option == clamped(d.optionField + delta, 0, maxOptionField(d))
           issued == clamped(d.issuedIdx + delta, 0, Len(IssuedObjects) - 1)
           byParam == [d EXCEPT !.param = param]
           byOption == [d EXCEPT !.optionField = option]
           byIssued == [d EXCEPT !.issuedIdx = issued]
<1>1. /\ IsDialog(byParam)
      /\ IsDialog(byOption) /\ SameName(d, byOption)
      /\ IsDialog(byIssued) /\ SameName(d, byIssued)
  <2> HIDE DEF param, option, issued
  <2> QED BY DEF Good, IsDialog, Fields, SameName
<1>2. moveRow(d, delta) \in {moveFamily(d, delta), algorithmChanged(byParam), byOption, byIssued, d}
  BY DEF moveRow
<1> HIDE DEF byParam, byOption, byIssued, param, option, issued
<1>3. /\ Good(moveFamily(d, delta)) /\ Good(algorithmChanged(byParam))
      /\ Good(byOption) /\ Good(byIssued)
  BY <1>1, MoveFamilyIsGood, ChangedFollows, Kept DEF Good
<1> QED
  BY <1>2, <1>3

LEMMA MoveColumnIsGood ==
  ASSUME NEW d, Good(d), NEW delta
  PROVE  Good(moveColumn(d, delta))
<1> DEFINE column == clamped(d.column + delta, 0, IF d.useExisting THEN 3 ELSE 4)
           option == least(d.optionField, maxOptionField(d))
           moved == [d EXCEPT !.column = column, !.optionField = option]
<1>1. IsDialog(moved) /\ SameName(d, moved)
  <2> HIDE DEF column, option
  <2> QED BY DEF Good, IsDialog, Fields, SameName
<1>2. moveColumn(d, delta) = moved
  BY DEF moveColumn, Good, IsDialog, Fields
<1> HIDE DEF moved
<1> QED
  BY <1>1, <1>2, Kept

LEMMA ToggledIsGood ==
  ASSUME NEW d, Good(d)
  PROVE  Good(toggled(d))
<1> DEFINE other == [d EXCEPT !.useExisting = ~@]
           option == IF other.useExisting /\ fittingKeys(other) # <<>> THEN 1 ELSE 0
           switched == [other EXCEPT !.optionField = option]
           ticked == [d EXCEPT !.checked[d.issuedIdx + 1] = ~@]
<1>1. IsDialog(other) /\ SameName(d, other)
  BY DEF Good, IsDialog, Fields, SameName
<1>2. IsDialog(switched) /\ SameName(d, switched)
  <2> HIDE DEF other, option
  <2> QED BY <1>1 DEF IsDialog, Fields, SameName
<1>3. IsDialog(ticked) /\ SameName(d, ticked)
  BY DEF Good, IsDialog, Fields, SameName
<1>4. toggled(d) \in {switched, ticked, d}
  BY DEF toggled
<1> HIDE DEF switched, ticked
<1> QED
  BY <1>2, <1>3, <1>4, Kept

LEMMA WithFocusIsDialog ==
  ASSUME NEW d, IsDialog(d)
  PROVE  IsDialog(withFocus(d))
BY DEF withFocus, IsDialog, Fields

LEMMA LevelsAreDialogs ==
  ASSUME NEW d, IsDialog(d)
  PROVE  IsDialog(addLevel(d)) /\ IsDialog(removeLevel(d))
<1> DEFINE n == Len(d.hss.levels)
           longer == [d EXCEPT !.hss.levels = Append(@, @[n]), !.param = 2 + 2 * n]
           shorter == [d EXCEPT !.hss.levels = withoutLevel(@, hssFocused(d).level)]
<1>1. IsDialog(longer) /\ IsDialog(shorter)
  BY DEF IsDialog, Fields
<1>2. addLevel(d) \in {d, longer}
  BY DEF addLevel
<1>3. removeLevel(d) \in {d, withFocus(shorter)}
  BY DEF removeLevel
<1> HIDE DEF longer, shorter
<1> QED
  BY <1>1, <1>2, <1>3, WithFocusIsDialog

LEMMA ConfirmedIsDialog ==
  ASSUME NEW d, IsDialog(d), d.picker # NoPicker
  PROVE  IsDialog(confirmed(d))
<1> DEFINE closed == [d EXCEPT !.picker = NoPicker]
           p == d.picker
           moded == [closed EXCEPT !.hss.isHss = (p.selected = 1),
                        !.hss.levels = IF p.selected = 1 THEN @ ELSE SubSeq(@, 1, 1)]
           hashed == [closed EXCEPT !.hss.hash = p.selected]
           grown == [closed EXCEPT !.hss.levels[p.level].height = p.selected]
           widened == [closed EXCEPT !.hss.levels[p.level].winternitz = p.selected]
<1>1. IsDialog(closed)
  BY DEF IsDialog, Fields
<1>2. IsDialog(moded) /\ IsDialog(hashed) /\ IsDialog(grown) /\ IsDialog(widened)
  <2> HIDE DEF closed
  <2> QED BY <1>1 DEF IsDialog, Fields
<1>3. confirmed(d) \in {withFocus(moded), hashed, grown, widened}
  BY DEF confirmed, withMode, IsDialog, Choosers
<1> HIDE DEF moded, hashed, grown, widened
<1> QED
  BY <1>2, <1>3, WithFocusIsDialog

-----------------------------------------------------------------------------
(* One step of the specification.                                          *)
KInv == pubkey.open => Good(pubkey)

LEMMA MoveKeeps ==
  ASSUME NEW d, Good(d), move(d)
  PROVE  KInv'
BY DEF move, KInv

LEMMA ChangeKeeps ==
  ASSUME NEW d, Good(d), change(d)
  PROVE  KInv'
BY DEF change, KInv

LEMMA ClosedKeeps ==
  ASSUME pubkey' = NoDialog
  PROVE  KInv'
BY DEF KInv, NoDialog

LEMMA PickerKeysKeep ==
  ASSUME Good(pubkey), pubkey.picker # NoPicker, PickerKeys
  PROVE  KInv'
<1>1. CASE PickerMove
  <2>1. PICK delta \in {-1, 1} : move([pubkey EXCEPT !.picker.selected =
                                        clamped(@ + delta, 0, choices(pubkey.picker.kind) - 1)])
    BY <1>1 DEF PickerMove
  <2> DEFINE selected == clamped(pubkey.picker.selected + delta, 0, choices(pubkey.picker.kind) - 1)
             moved == [pubkey EXCEPT !.picker.selected = selected]
  <2>2. IsDialog(moved) /\ SameName(pubkey, moved)
    <3> HIDE DEF selected
    <3>1. moved.picker = [pubkey.picker EXCEPT !.selected = selected]
      BY DEF Good, IsDialog, Fields
    <3>2. moved.picker.kind = pubkey.picker.kind
      BY <3>1 DEF Good, IsDialog, Choosers
    <3> QED BY <3>2 DEF Good, IsDialog, Fields, SameName
  <2>3. move(moved)
    BY <2>1
  <2> HIDE DEF moved
  <2> QED
    BY <2>2, <2>3, Kept, MoveKeeps
<1>2. CASE move(algorithmChanged(confirmed(pubkey)))
  BY <1>2, ConfirmedIsDialog, ChangedFollows, MoveKeeps DEF Good
<1>3. CASE move([pubkey EXCEPT !.picker = NoPicker])
  <2> DEFINE closed == [pubkey EXCEPT !.picker = NoPicker]
  <2>1. IsDialog(closed) /\ SameName(pubkey, closed)
    BY DEF Good, IsDialog, Fields, SameName
  <2>2. move(closed)
    BY <1>3
  <2> HIDE DEF closed
  <2> QED
    BY <2>1, <2>2, Kept, MoveKeeps
<1> QED
  BY <1>1, <1>2, <1>3 DEF PickerKeys

\* What is typed is no longer followed.
LEMMA FilenameKeysKeep ==
  ASSUME Good(pubkey), FilenameKeys
  PROVE  KInv'
<1>1. CASE move([pubkey EXCEPT !.editing = FALSE])
  <2> DEFINE left == [pubkey EXCEPT !.editing = FALSE]
  <2>1. IsDialog(left) /\ SameName(pubkey, left)
    BY DEF Good, IsDialog, Fields, SameName
  <2>2. move(left)
    BY <1>1
  <2> HIDE DEF left
  <2> QED
    BY <2>1, <2>2, Kept, MoveKeeps
<1>2. CASE \E n \in {pubkey.cursor - 1, pubkey.cursor + 1, 0, Len(pubkey.filename)} :
             move([pubkey EXCEPT !.cursor = clamped(n, 0, Len(pubkey.filename))])
  <2>1. PICK n : move([pubkey EXCEPT !.cursor = clamped(n, 0, Len(pubkey.filename))])
    BY <1>2
  <2> DEFINE cursor == clamped(n, 0, Len(pubkey.filename))
             moved == [pubkey EXCEPT !.cursor = cursor]
  <2>2. IsDialog(moved) /\ SameName(pubkey, moved)
    <3> HIDE DEF cursor
    <3> QED BY DEF Good, IsDialog, Fields, SameName
  <2>3. move(moved)
    BY <2>1
  <2> HIDE DEF moved
  <2> QED
    BY <2>2, <2>3, Kept, MoveKeeps
<1>3. CASE \E c \in Chars : change(typedIn(pubkey, c))
  <2>1. PICK c \in Chars : change(typedIn(pubkey, c))
    BY <1>3
  <2>2. Good(typedIn(pubkey, c))
    BY DEF typedIn, Good, IsDialog, Follows, Fields
  <2> QED
    BY <2>1, <2>2, ChangeKeeps
<1>4. CASE change(erased(pubkey))
  <2>1. Good(erased(pubkey))
    BY DEF erased, Good, IsDialog, Follows, Fields
  <2> QED
    BY <1>4, <2>1, ChangeKeeps
<1> QED
  BY <1>1, <1>2, <1>3, <1>4 DEF FilenameKeys

\* The size is part of the name, the password is not.
LEMMA TypingKeeps ==
  ASSUME Good(pubkey), InsertChar \/ Backspace
  PROVE  KInv'
<1>1. CASE \E c \in Digits : change(algorithmChanged([pubkey EXCEPT !.bits = Append(@, c)]))
  <2>1. PICK c \in Digits : change(algorithmChanged([pubkey EXCEPT !.bits = Append(@, c)]))
    BY <1>1
  <2>2. IsDialog([pubkey EXCEPT !.bits = Append(@, c)])
    BY DEF Good, IsDialog, Fields
  <2> QED
    BY <2>1, <2>2, ChangedFollows, ChangeKeeps DEF Good
<1>2. CASE change(algorithmChanged([pubkey EXCEPT !.bits = SubSeq(@, 1, Len(@) - 1)]))
  <2>1. IsDialog([pubkey EXCEPT !.bits = SubSeq(@, 1, Len(@) - 1)])
    BY DEF Good, IsDialog, Fields
  <2> QED
    BY <1>2, <2>1, ChangedFollows, ChangeKeeps DEF Good
<1>3. CASE \/ change([pubkey EXCEPT !.password = @ + 1])
           \/ change([pubkey EXCEPT !.password = @ - 1])
  <2> DEFINE longer == [pubkey EXCEPT !.password = @ + 1]
             shorter == [pubkey EXCEPT !.password = @ - 1]
  <2>1. /\ IsDialog(longer) /\ SameName(pubkey, longer)
        /\ IsDialog(shorter) /\ SameName(pubkey, shorter)
    BY DEF Good, IsDialog, Fields, SameName
  <2>2. change(longer) \/ change(shorter)
    BY <1>3
  <2> HIDE DEF longer, shorter
  <2> QED
    BY <2>1, <2>2, Kept, ChangeKeeps
<1> QED
  BY <1>1, <1>2, <1>3 DEF InsertChar, Backspace

LEMMA DialogKeysKeep ==
  ASSUME Good(pubkey), DialogKeys
  PROVE  KInv'
<1>1. CASE CancelPubkey \/ SubmitPubkey
  BY <1>1, ClosedKeeps DEF CancelPubkey, SubmitPubkey, submit
<1>2. CASE \E delta \in {-1, 1} : move(moveColumn(pubkey, delta)) \/ move(moveRow(pubkey, delta))
  BY <1>2, MoveColumnIsGood, MoveRowIsGood, MoveKeeps
<1>3. CASE AddLevel \/ RemoveLevel
  BY <1>3, LevelsAreDialogs, ChangedFollows, MoveKeeps DEF AddLevel, RemoveLevel, Good
<1>4. CASE BeginEdit
  <2> DEFINE begun == [pubkey EXCEPT !.editing = TRUE, !.cursor = Len(pubkey.filename)]
  <2>1. IsDialog(begun) /\ SameName(pubkey, begun)
    BY DEF Good, IsDialog, Fields, SameName
  <2>2. move(begun)
    BY <1>4 DEF BeginEdit
  <2> HIDE DEF begun
  <2> QED
    BY <2>1, <2>2, Kept, MoveKeeps
<1>5. CASE OpenPicker
  <2> DEFINE f == hssFocused(pubkey)
             picker == [kind |-> f.kind, level |-> f.level, selected |-> hssValue(pubkey, f)]
             picked == [pubkey EXCEPT !.picker = picker]
  <2>1. f.kind \in Choosers
    BY <1>5 DEF OpenPicker, hssFocused, hssField, field, Choosers
  <2>2. picker.kind \in Choosers /\ "kind" \in DOMAIN picker
    BY <2>1
  <2>3. IsDialog(picked) /\ SameName(pubkey, picked)
    <3> HIDE DEF picker
    <3> QED BY <2>2 DEF Good, IsDialog, Fields, SameName
  <2>4. move(picked)
    BY <1>5 DEF OpenPicker
  <2> HIDE DEF picked
  <2> QED
    BY <2>3, <2>4, Kept, MoveKeeps
<1>6. CASE Toggle
  BY <1>6, ToggledIsGood, ChangeKeeps DEF Toggle
<1>7. CASE InsertChar \/ Backspace
  BY <1>7, TypingKeeps
<1> QED
  BY <1>1, <1>2, <1>3, <1>4, <1>5, <1>6, <1>7 DEF DialogKeys

LEMMA NextKeeps ==
  ASSUME KInv, [KeyDialogNext]_keyVars
  PROVE  KInv'
<1>1. CASE StartRekey
  BY <1>1, FreshIsGood DEF StartRekey, KInv
<1>2. CASE PubkeyKeys
  <2>1. Good(pubkey)
    BY <1>2 DEF PubkeyKeys, KInv
  <2> QED
    BY <1>2, <2>1, PickerKeysKeep, FilenameKeysKeep, DialogKeysKeep DEF PubkeyKeys
<1>3. CASE UNCHANGED pubkey
  BY <1>3 DEF KInv
<1> QED
  BY <1>1, <1>2, <1>3 DEF KeyDialogNext, Rekeyed, OtherProgram, keyVars

(***************************************************************************)
(* The file name of a new key follows the algorithm until the user edits   *)
(* it: PubKeyState::filename_auto.                                         *)
(***************************************************************************)
THEOREM NameFollows == KeyDialogSpec => []FileNameFollows
<1>1. KeyDialogInit => KInv
  BY DEF KeyDialogInit, KInv, NoDialog
<1>2. KInv /\ [KeyDialogNext]_keyVars => KInv'
  BY NextKeeps
<1>3. KInv => FileNameFollows
  BY DEF KInv, Good, Follows, FileNameFollows
<1> QED
  BY <1>1, <1>2, <1>3, PTL DEF KeyDialogSpec

-----------------------------------------------------------------------------
(* The rows of the dialog, part by part: each part depends on a few fields *)
(* only, and a change that leaves those alone keeps it.                    *)
Level == [height : 0 .. Heights - 1, winternitz : 0 .. Winternitz - 1]
HssParams == [isHss : BOOLEAN, hash : 0 .. Hashes - 1, levels : Seq(Level)]
Pickers == [kind : Choosers, level : Nat, selected : Nat]

AlgorithmFits(d) ==
  /\ d.family \in 0 .. Len(Families) - 1
  /\ d.param \in Nat /\ ParameterExists(d)
  /\ d.hss \in HssParams /\ LevelsFit(d)

KeysListed(d) == isList(d.existing) /\ d.useExisting \in BOOLEAN /\ d.optionField \in Nat
KeysFit(d) == KeysListed(d) /\ OptionExists(d)

PickerFits(d) == (d.picker = NoPicker \/ d.picker \in Pickers) /\ PickerIsOfTheFocus(d)

NameFits(d) == isList(d.filename) /\ FileNameIsEditable(d)

Sound(d) == IsDialog(d) /\ AlgorithmFits(d) /\ KeysFit(d) /\ PickerFits(d) /\ NameFits(d)

\* What algorithmChanged starts from: no picker, no edit of the name.
Settled(d) == d.picker = NoPicker /\ ~d.editing
Ready(d) ==
  IsDialog(d) /\ AlgorithmFits(d) /\ KeysListed(d) /\ isList(d.filename) /\ Settled(d)

SameAlgorithm(d, e) ==
  e.family = d.family /\ e.param = d.param /\ e.bits = d.bits /\ e.hss = d.hss
SameKeys(d, e) ==
  e.existing = d.existing /\ e.useExisting = d.useExisting /\ e.optionField = d.optionField
SameEditing(d, e) ==
  /\ e.filename = d.filename /\ e.editing = d.editing /\ e.cursor = d.cursor
  /\ e.column = d.column /\ e.useExisting = d.useExisting

LEMMA RowsDepend ==
  ASSUME NEW d, NEW e, e.family = d.family, e.hss = d.hss
  PROVE  /\ family(e) = family(d) /\ isHssFamily(e) = isHssFamily(d)
         /\ paramRows(e) = paramRows(d) /\ hssFieldCount(e) = hssFieldCount(d)
         /\ \A i : hssField(e, i) = hssField(d, i)
         /\ \A f : hssValue(e, f) = hssValue(d, f)
<1>1. family(e) = family(d) /\ isHssFamily(e) = isHssFamily(d)
  BY DEF family, isHssFamily
<1>2. mayAddLevel(e) = mayAddLevel(d)
  BY DEF mayAddLevel
<1>3. hssFieldCount(e) = hssFieldCount(d)
  BY <1>2 DEF hssFieldCount
<1>4. paramRows(e) = paramRows(d)
  BY <1>1, <1>3 DEF paramRows
<1>5. \A i : hssField(e, i) = hssField(d, i)
  BY DEF hssField
<1>6. \A f : hssValue(e, f) = hssValue(d, f)
  BY DEF hssValue
<1> QED
  BY <1>1, <1>3, <1>4, <1>5, <1>6

LEMMA AlgorithmStays ==
  ASSUME NEW d, NEW e, AlgorithmFits(d), SameAlgorithm(d, e)
  PROVE  AlgorithmFits(e)
BY RowsDepend DEF AlgorithmFits, SameAlgorithm, ParameterExists, LevelsFit

LEMMA AlgDepends ==
  ASSUME NEW d, NEW e, SameAlgorithm(d, e)
  PROVE  alg(e) = alg(d)
<1>1. family(e) = family(d) /\ isHssFamily(e) = isHssFamily(d)
  BY RowsDepend DEF SameAlgorithm
<1>2. customSelected(e) = customSelected(d)
  BY <1>1 DEF customSelected, SameAlgorithm
<1> QED
  BY <1>1, <1>2 DEF alg, SameAlgorithm

(* The keys that fit, as positions of those that were found.               *)
fittingAt(keys, a) == {i \in 1 .. Len(keys) : KeyAlg[keys[i].key] = SigAlg[a.name]}

LEMMA FittingAreFiltered ==
  ASSUME NEW d, isList(d.existing)
  PROVE  fittingKeys(d) = (CHOOSE f : f = filtered(d.existing,
                                            fittingAt(d.existing, alg(d)), f))[Len(d.existing)]
<1> DEFINE s == d.existing
           a == alg(d)
           loop(f) ==
             [n \in 0 .. Len(s) |->
                IF n = 0 THEN <<>>
                ELSE IF KeyAlg[s[n].key] = SigAlg[a.name] THEN Append(f[n - 1], s[n])
                ELSE f[n - 1]]
           I == fittingAt(s, a)
<1>1. fittingKeys(d) = (CHOOSE f : f = loop(f))[Len(s)]
  BY DEF fittingKeys, retain
<1>2. \A f : loop(f) = filtered(s, I, f)
  <2>1. Len(s) \in Nat
    BY ListIs
  <2> HIDE DEF s, a
  <2> QED BY <2>1 DEF filtered, fittingAt
<1>3. (CHOOSE f : f = loop(f)) = (CHOOSE f : f = filtered(s, I, f))
  BY <1>2
<1> QED
  BY <1>1, <1>3

LEMMA FittingKeysFit ==
  ASSUME NEW d, isList(d.existing)
  PROVE  /\ isList(fittingKeys(d))
         /\ Len(fittingKeys(d)) \in Nat
         /\ fittingKeys(d) # <<>> <=> Len(fittingKeys(d)) > 0
         /\ \A k \in 1 .. Len(fittingKeys(d)) :
              KeyAlg[fittingKeys(d)[k].key] = SigAlg[alg(d).name]
<1> DEFINE s == d.existing
           I == fittingAt(s, alg(d))
           T == {s[i] : i \in DOMAIN s}
           U == {s[i] : i \in I}
<1>1. s \in Seq(T)
  BY DEF isList
<1>2. I \in SUBSET (1 .. Len(s)) /\ \A i \in I : KeyAlg[s[i].key] = SigAlg[alg(d).name]
  BY DEF fittingAt
<1>3. \A e \in U : KeyAlg[e.key] = SigAlg[alg(d).name]
  BY <1>2
<1>4. fittingKeys(d) = (CHOOSE f : f = filtered(s, I, f))[Len(s)]
  BY FittingAreFiltered
<1> HIDE DEF I, T
<1>5. fittingKeys(d) \in Seq(U)
  BY <1>1, <1>2, <1>4, FilteredIs
<1> HIDE DEF U
<1>6. isList(fittingKeys(d))
  BY <1>5, IsListIn
<1>7. \A k \in 1 .. Len(fittingKeys(d)) : fittingKeys(d)[k] \in U
  BY <1>5, LenProperties
<1> QED
  BY <1>3, <1>6, <1>7, ListIs

LEMMA FittingDepends ==
  ASSUME NEW d, NEW e, isList(d.existing), SameAlgorithm(d, e), e.existing = d.existing
  PROVE  fittingKeys(e) = fittingKeys(d)
BY AlgDepends, FittingAreFiltered

LEMMA MaxOptionIs ==
  ASSUME NEW d, KeysListed(d)
  PROVE  maxOptionField(d) \in Nat
BY FittingKeysFit DEF maxOptionField, KeysListed

LEMMA MaxOptionDepends ==
  ASSUME NEW d, NEW e, isList(d.existing), SameAlgorithm(d, e), e.existing = d.existing,
         e.useExisting = d.useExisting
  PROVE  maxOptionField(e) = maxOptionField(d)
BY FittingDepends DEF maxOptionField

LEMMA KeysStay ==
  ASSUME NEW d, NEW e, KeysFit(d), SameAlgorithm(d, e), SameKeys(d, e)
  PROVE  KeysFit(e)
<1>1. maxOptionField(e) = maxOptionField(d)
  BY MaxOptionDepends DEF KeysFit, KeysListed, SameKeys
<1> QED
  BY <1>1 DEF KeysFit, KeysListed, OptionExists, SameKeys

LEMMA PickerStays ==
  ASSUME NEW d, NEW e, PickerFits(d), SameAlgorithm(d, e), e.column = d.column,
         e.picker = d.picker
  PROVE  PickerFits(e)
<1>1. hssFieldCount(e) = hssFieldCount(d) /\ isHssFamily(e) = isHssFamily(d)
      /\ \A i : hssField(e, i) = hssField(d, i)
  BY RowsDepend DEF SameAlgorithm
<1>2. hssFocused(e) = hssFocused(d)
  BY <1>1 DEF hssFocused, SameAlgorithm
<1>3. inHssEditor(e) = inHssEditor(d)
  BY <1>1 DEF inHssEditor
<1> QED
  BY <1>2, <1>3 DEF PickerFits, PickerIsOfTheFocus

LEMMA NameStays ==
  ASSUME NEW d, NEW e, NameFits(d), SameEditing(d, e)
  PROVE  NameFits(e)
BY DEF NameFits, SameEditing, FileNameIsEditable, filenameFocused

-----------------------------------------------------------------------------
(* Each change of the dialog leaves its rows sound.                        *)
LEMMA SoundIsReady ==
  ASSUME NEW d, Sound(d), Settled(d)
  PROVE  Ready(d)
BY DEF Sound, Ready, KeysFit, NameFits

LEMMA SettledFits ==
  ASSUME NEW d, Settled(d), isList(d.filename)
  PROVE  PickerFits(d) /\ NameFits(d)
BY DEF Settled, PickerFits, PickerIsOfTheFocus, NameFits, FileNameIsEditable

\* After algorithmChanged the row of the chosen key is one of those that fit.
LEMMA ChangedIsSound ==
  ASSUME NEW d, Ready(d)
  PROVE  Sound(algorithmChanged(d)) /\ Settled(algorithmChanged(d))
<1> DEFINE named == IF d.auto THEN [d EXCEPT !.filename = defaultFilename(d)] ELSE d
           option == least(named.optionField, maxOptionField(d))
           result == [named EXCEPT !.optionField = option]
<1>1. /\ IsDialog(named) /\ SameAlgorithm(d, named) /\ SameKeys(d, named)
      /\ named.picker = d.picker /\ named.editing = d.editing
      /\ named.filename \in {d.filename, defaultFilename(d)}
  BY DEF Ready, IsDialog, Fields, SameAlgorithm, SameKeys
<1>2. isList(named.filename)
  <2>1. isList(defaultFilename(d))
    <3> DEFINE piece == IF isHssFamily(d) THEN hssShortName(d.hss) ELSE shortName(alg(d))
    <3>1. defaultFilename(d) = <<piece>>
      BY DEF defaultFilename
    <3> HIDE DEF piece
    <3>2. <<piece>> \in Seq({piece})
      OBVIOUS
    <3> QED
      BY <3>1, <3>2, IsListIn
  <2> QED
    BY <1>1, <2>1 DEF Ready
<1> HIDE DEF named
<1>3. /\ IsDialog(result) /\ SameAlgorithm(d, result)
      /\ result.existing = d.existing /\ result.useExisting = d.useExisting
      /\ result.optionField = option
      /\ result.picker = d.picker /\ result.editing = d.editing
      /\ result.filename = named.filename
  <2> HIDE DEF option
  <2> QED BY <1>1 DEF IsDialog, Fields, SameAlgorithm, SameKeys
<1>4. algorithmChanged(d) = result
  BY DEF algorithmChanged, named
<1> HIDE DEF result
<1>5. maxOptionField(d) \in Nat /\ maxOptionField(result) = maxOptionField(d)
  BY <1>3, MaxOptionIs, MaxOptionDepends DEF Ready, KeysListed
<1>6. option \in Nat /\ option <= maxOptionField(d)
  BY <1>1, <1>5 DEF Ready, KeysListed, SameKeys, least
<1>7. KeysFit(result)
  BY <1>3, <1>5, <1>6 DEF Ready, KeysFit, KeysListed, OptionExists
<1>8. AlgorithmFits(result)
  BY <1>3, AlgorithmStays DEF Ready
<1>9. Settled(result)
  BY <1>3 DEF Ready, Settled
<1>10. PickerFits(result) /\ NameFits(result)
  BY <1>2, <1>3, <1>9, SettledFits
<1> QED
  BY <1>3, <1>4, <1>7, <1>8, <1>9, <1>10 DEF Sound

LEMMA HssFieldCountIs ==
  ASSUME NEW d, Len(d.hss.levels) \in Nat, Len(d.hss.levels) > 0
  PROVE  /\ hssFieldCount(d) \in Nat /\ hssFieldCount(d) >= 4
         /\ hssFieldCount(d) >= 2 + 2 * Len(d.hss.levels)
<1> DEFINE more == IF mayAddLevel(d) THEN 1 ELSE 0
           n == Len(d.hss.levels)
<1>1. more \in {0, 1}
  OBVIOUS
<1>2. hssFieldCount(d) = 2 + 2 * n + more
  BY DEF hssFieldCount
<1> HIDE DEF more, n
<1>3. n \in Nat /\ n > 0
  BY DEF n
<1>4. 2 + 2 * n + more >= 4 /\ 2 + 2 * n + more \in Nat /\ 2 + 2 * n + more >= 2 + 2 * n
  BY <1>1, <1>3
<1> QED
  BY <1>2, <1>4 DEF n

LEMMA ParamRowsAre ==
  ASSUME NEW d, Len(family(d).members) \in Nat
  PROVE  /\ isHssFamily(d) => paramRows(d) = hssFieldCount(d)
         /\ ~isHssFamily(d) => /\ paramRows(d) \in Nat
                               /\ paramRows(d) >= Len(family(d).members)
<1> DEFINE more == IF family(d).custom THEN 1 ELSE 0
           n == Len(family(d).members)
<1>1. more \in {0, 1}
  OBVIOUS
<1>2. paramRows(d) = IF isHssFamily(d) THEN hssFieldCount(d) ELSE n + more
  BY DEF paramRows
<1> HIDE DEF more, n
<1>3. n \in Nat
  BY DEF n
<1>4. n + more \in Nat /\ n + more >= n
  BY <1>1, <1>3
<1> QED
  BY <1>2, <1>4 DEF n

LEMMA HssFieldsAre ==
  ASSUME NEW d, AlgorithmFits(d)
  PROVE  /\ Len(d.hss.levels) \in Nat /\ Len(d.hss.levels) > 0
         /\ d.hss.levels \in Seq(Level)
         /\ hssFieldCount(d) \in Nat /\ hssFieldCount(d) >= 4
         /\ paramRows(d) \in Nat /\ paramRows(d) > 0
<1>1. Len(d.hss.levels) \in Nat /\ Len(d.hss.levels) > 0 /\ d.hss.levels \in Seq(Level)
  BY HssAssumption, LenProperties DEF AlgorithmFits, LevelsFit, HssParams, HssAssumption
<1>2. hssFieldCount(d) \in Nat /\ hssFieldCount(d) >= 4
  BY <1>1, HssFieldCountIs
<1>3. Len(family(d).members) \in Nat
  BY FamilyIs DEF AlgorithmFits, family
<1>4. paramRows(d) \in Nat /\ paramRows(d) > 0
  BY <1>2, <1>3, ParamRowsAre DEF AlgorithmFits, ParameterExists
<1> QED
  BY <1>1, <1>2, <1>4

LEMMA MoveFamilyIsSound ==
  ASSUME NEW d, Sound(d), Settled(d), NEW delta \in {-1, 1}
  PROVE  Sound(moveFamily(d, delta))
<1> DEFINE new == clamped(d.family + delta, 0, Len(Families) - 1)
           moved == [d EXCEPT !.family = new, !.param = Families[new + 1].default]
<1>1. new \in 0 .. Len(Families) - 1
  BY FamiliesAssumption, ListIs
  DEF FamiliesAssumption, clamped, Sound, AlgorithmFits
<1>2. moveFamily(d, delta) = IF new = d.family THEN d ELSE algorithmChanged(moved)
  BY DEF moveFamily
<1> HIDE DEF new
<1>3. /\ IsDialog(moved) /\ moved.family = new /\ moved.param = Families[new + 1].default
      /\ moved.hss = d.hss /\ SameKeys(d, moved)
      /\ moved.filename = d.filename /\ moved.picker = d.picker /\ moved.editing = d.editing
  BY DEF Sound, IsDialog, Fields, SameKeys
<1> HIDE DEF moved
<1>4. LevelsFit(moved) /\ moved.hss \in HssParams
  BY <1>3 DEF Sound, AlgorithmFits, LevelsFit
<1>5. hssFieldCount(moved) \in Nat /\ hssFieldCount(moved) >= 4
  <2>1. Len(moved.hss.levels) \in Nat /\ Len(moved.hss.levels) > 0
    BY <1>4, HssAssumption DEF LevelsFit, HssAssumption
  <2> QED
    BY <2>1, HssFieldCountIs
<1>6. /\ Len(family(moved).members) \in Nat
      /\ moved.param \in 0 .. Len(family(moved).members) - 1
      /\ family(moved).members[1] = HssLms => moved.param = 0
  BY <1>1, <1>3, FamilyIs DEF family
<1>7. moved.param \in Nat /\ moved.param < paramRows(moved)
  BY <1>5, <1>6, ParamRowsAre DEF isHssFamily
<1>8. AlgorithmFits(moved)
  BY <1>1, <1>3, <1>4, <1>7 DEF AlgorithmFits, ParameterExists
<1>9. Ready(moved)
  BY <1>3, <1>8 DEF Ready, Sound, Settled, KeysFit, KeysListed, SameKeys, NameFits
<1> QED
  BY <1>2, <1>9, ChangedIsSound

LEMMA MoveRowIsSound ==
  ASSUME NEW d, Sound(d), Settled(d), NEW delta \in {-1, 1}
  PROVE  Sound(moveRow(d, delta))
<1> DEFINE param == clamped(d.param + delta, 0, paramRows(d) - 1)
           option == clamped(d.optionField + delta, 0, maxOptionField(d))
           issued == clamped(d.issuedIdx + delta, 0, Len(IssuedObjects) - 1)
           byParam == [d EXCEPT !.param = param]
           byOption == [d EXCEPT !.optionField = option]
           byIssued == [d EXCEPT !.issuedIdx = issued]
<1>1. param \in Nat /\ param < paramRows(d)
  BY HssFieldsAre DEF clamped, Sound, AlgorithmFits
<1>2. option \in Nat /\ option <= maxOptionField(d)
  BY MaxOptionIs DEF clamped, Sound, KeysFit, KeysListed
<1>3. moveRow(d, delta) \in {moveFamily(d, delta), algorithmChanged(byParam), byOption, byIssued, d}
  BY DEF moveRow
<1> HIDE DEF param, option, issued
<1>4. /\ IsDialog(byParam) /\ byParam.param = param
      /\ byParam.family = d.family /\ byParam.hss = d.hss /\ SameKeys(d, byParam)
      /\ byParam.filename = d.filename /\ byParam.picker = d.picker /\ byParam.editing = d.editing
  BY DEF Sound, IsDialog, Fields, SameKeys
<1>5. /\ IsDialog(byOption) /\ SameAlgorithm(d, byOption) /\ byOption.optionField = option
      /\ byOption.existing = d.existing /\ byOption.useExisting = d.useExisting
      /\ byOption.picker = d.picker /\ byOption.column = d.column /\ SameEditing(d, byOption)
  BY DEF Sound, IsDialog, Fields, SameAlgorithm, SameEditing
<1>6. /\ IsDialog(byIssued) /\ SameAlgorithm(d, byIssued) /\ SameKeys(d, byIssued)
      /\ byIssued.picker = d.picker /\ byIssued.column = d.column /\ SameEditing(d, byIssued)
  BY DEF Sound, IsDialog, Fields, SameAlgorithm, SameKeys, SameEditing
<1> HIDE DEF byParam, byOption, byIssued
<1>7. Sound(algorithmChanged(byParam))
  <2>1. AlgorithmFits(byParam)
    BY <1>1, <1>4, RowsDepend DEF Sound, AlgorithmFits, ParameterExists, LevelsFit
  <2>2. Ready(byParam)
    BY <1>4, <2>1 DEF Ready, Sound, Settled, KeysFit, KeysListed, SameKeys, NameFits
  <2> QED
    BY <2>2, ChangedIsSound
<1>8. Sound(byOption)
  <2>1. maxOptionField(byOption) = maxOptionField(d)
    BY <1>5, MaxOptionDepends DEF Sound, KeysFit, KeysListed
  <2>2. KeysFit(byOption)
    BY <1>2, <1>5, <2>1 DEF Sound, KeysFit, KeysListed, OptionExists
  <2> QED
    BY <1>5, <2>2, AlgorithmStays, PickerStays, NameStays DEF Sound
<1>9. Sound(byIssued)
  BY <1>6, AlgorithmStays, KeysStay, PickerStays, NameStays DEF Sound
<1>10. Sound(moveFamily(d, delta))
  BY MoveFamilyIsSound
<1> QED
  BY <1>3, <1>7, <1>8, <1>9, <1>10

LEMMA MoveColumnIsSound ==
  ASSUME NEW d, Sound(d), Settled(d), NEW delta
  PROVE  Sound(moveColumn(d, delta))
<1> DEFINE column == clamped(d.column + delta, 0, IF d.useExisting THEN 3 ELSE 4)
           option == least(d.optionField, maxOptionField(d))
           moved == [d EXCEPT !.column = column, !.optionField = option]
<1>1. option \in Nat /\ option <= maxOptionField(d)
  BY MaxOptionIs DEF least, Sound, KeysFit, KeysListed
<1>2. moveColumn(d, delta) = moved
  BY DEF moveColumn, Sound, IsDialog, Fields
<1> HIDE DEF column, option
<1>3. /\ IsDialog(moved) /\ SameAlgorithm(d, moved) /\ moved.optionField = option
      /\ moved.existing = d.existing /\ moved.useExisting = d.useExisting
      /\ moved.picker = d.picker /\ moved.editing = d.editing /\ moved.filename = d.filename
  BY DEF Sound, IsDialog, Fields, SameAlgorithm
<1> HIDE DEF moved
<1>4. maxOptionField(moved) = maxOptionField(d)
  BY <1>3, MaxOptionDepends DEF Sound, KeysFit, KeysListed
<1>5. KeysFit(moved)
  BY <1>1, <1>3, <1>4 DEF Sound, KeysFit, KeysListed, OptionExists
<1>6. PickerFits(moved) /\ NameFits(moved)
  BY <1>3, SettledFits DEF Settled, Sound, NameFits
<1> QED
  BY <1>2, <1>3, <1>5, <1>6, AlgorithmStays DEF Sound

LEMMA ToggledIsSound ==
  ASSUME NEW d, Sound(d), Settled(d)
  PROVE  Sound(toggled(d))
<1> DEFINE other == [d EXCEPT !.useExisting = ~@]
           option == IF other.useExisting /\ fittingKeys(other) # <<>> THEN 1 ELSE 0
           switched == [other EXCEPT !.optionField = option]
           ticked == [d EXCEPT !.checked[d.issuedIdx + 1] = ~@]
<1>1. toggled(d) \in {switched, ticked, d}
  BY DEF toggled
<1>2. /\ IsDialog(other) /\ SameAlgorithm(d, other) /\ other.useExisting \in BOOLEAN
      /\ other.existing = d.existing /\ other.filename = d.filename
      /\ other.picker = d.picker /\ other.editing = d.editing
  <2>1. d.useExisting \in BOOLEAN
    BY DEF Sound, KeysFit, KeysListed
  <2> QED
    BY <2>1 DEF Sound, IsDialog, Fields, SameAlgorithm
<1>3. /\ IsDialog(ticked) /\ SameAlgorithm(d, ticked) /\ SameKeys(d, ticked)
      /\ ticked.picker = d.picker /\ ticked.column = d.column /\ SameEditing(d, ticked)
  BY DEF Sound, IsDialog, Fields, SameAlgorithm, SameKeys, SameEditing
<1> HIDE DEF other, ticked
<1>4. option \in {0, 1} /\ (option = 1 => other.useExisting /\ fittingKeys(other) # <<>>)
  OBVIOUS
<1> HIDE DEF option
<1>5. /\ IsDialog(switched) /\ SameAlgorithm(other, switched) /\ switched.optionField = option
      /\ switched.existing = other.existing /\ switched.useExisting = other.useExisting
      /\ switched.filename = d.filename
      /\ switched.picker = d.picker /\ switched.editing = d.editing
  BY <1>2 DEF IsDialog, Fields, SameAlgorithm
<1> HIDE DEF switched
<1>6. isList(other.existing)
  BY <1>2 DEF Sound, KeysFit, KeysListed
<1>7. maxOptionField(switched) = maxOptionField(other)
  BY <1>5, <1>6, MaxOptionDepends
<1>8. option <= maxOptionField(other) /\ option \in Nat
  BY <1>4, <1>6, FittingKeysFit DEF maxOptionField
<1>9. KeysFit(switched)
  BY <1>2, <1>5, <1>6, <1>7, <1>8 DEF KeysFit, KeysListed, OptionExists
<1>10. AlgorithmFits(switched)
  BY <1>2, <1>5, AlgorithmStays DEF Sound
<1>11. PickerFits(switched) /\ NameFits(switched)
  BY <1>5, SettledFits DEF Settled, Sound, NameFits
<1>12. Sound(switched)
  BY <1>5, <1>9, <1>10, <1>11 DEF Sound
<1>13. Sound(ticked)
  BY <1>3, AlgorithmStays, KeysStay, PickerStays, NameStays DEF Sound
<1> QED
  BY <1>1, <1>12, <1>13

\* What the changes of the HSS/LMS editor leave alone.
SameButHss(d, e) ==
  /\ IsDialog(e) /\ e.family = d.family /\ SameKeys(d, e)
  /\ e.filename = d.filename /\ e.editing = d.editing

LEMMA HssReady ==
  ASSUME NEW d, Sound(d), ~d.editing, NEW e, SameButHss(d, e), e.picker = NoPicker,
         isHssFamily(d), e.hss \in HssParams, LevelsFit(e),
         e.param \in Nat, e.param < hssFieldCount(e)
  PROVE  Ready(e)
<1>1. isHssFamily(e) /\ paramRows(e) = hssFieldCount(e)
  BY DEF SameButHss, isHssFamily, family, paramRows
<1>2. AlgorithmFits(e)
  BY <1>1 DEF AlgorithmFits, ParameterExists, Sound, SameButHss
<1> QED
  BY <1>2 DEF Ready, Settled, SameButHss, SameKeys, Sound, KeysFit, KeysListed, NameFits

LEMMA WithFocusIs ==
  ASSUME NEW d, IsDialog(d), LevelsFit(d), d.param \in Nat
  PROVE  /\ IsDialog(withFocus(d)) /\ withFocus(d).hss = d.hss
         /\ withFocus(d).family = d.family /\ withFocus(d).picker = d.picker
         /\ withFocus(d).filename = d.filename /\ withFocus(d).editing = d.editing
         /\ SameKeys(d, withFocus(d))
         /\ withFocus(d).param \in Nat /\ withFocus(d).param < hssFieldCount(withFocus(d))
<1> DEFINE param == least(d.param, hssFieldCount(d) - 1)
           e == [d EXCEPT !.param = param]
<1>1. withFocus(d) = e
  BY DEF withFocus
<1>2. hssFieldCount(d) \in Nat /\ hssFieldCount(d) >= 4
  <2>1. Len(d.hss.levels) \in Nat /\ Len(d.hss.levels) > 0
    BY HssAssumption DEF LevelsFit, HssAssumption
  <2> QED
    BY <2>1, HssFieldCountIs
<1>3. param \in Nat /\ param < hssFieldCount(d)
  BY <1>2 DEF least
<1> HIDE DEF param
<1>4. /\ IsDialog(e) /\ e.hss = d.hss /\ e.family = d.family /\ e.picker = d.picker
      /\ e.filename = d.filename /\ e.editing = d.editing /\ SameKeys(d, e) /\ e.param = param
  BY DEF IsDialog, Fields, SameKeys
<1> HIDE DEF e
<1>5. hssFieldCount(e) = hssFieldCount(d)
  BY <1>4, RowsDepend
<1> QED
  BY <1>1, <1>3, <1>4, <1>5

\* A level is added as a copy of the last one.
LEMMA AddedLevelIsReady ==
  ASSUME NEW d, Sound(d), Settled(d), isHssFamily(d)
  PROVE  Ready(addLevel(d))
<1> DEFINE n == Len(d.hss.levels)
           levels == Append(d.hss.levels, d.hss.levels[n])
           hss == [d.hss EXCEPT !.levels = levels]
           e == [d EXCEPT !.hss = hss, !.param = 2 + 2 * n]
<1>1. CASE ~mayAddLevel(d)
  BY <1>1, SoundIsReady DEF addLevel
<1>2. CASE mayAddLevel(d)
  <2>1. n \in Nat /\ n > 0 /\ d.hss.levels \in Seq(Level)
    BY HssFieldsAre DEF Sound
  <2>2. d.hss \in HssParams /\ d.hss.isHss /\ n < HssMaxLevels
    BY <1>2 DEF mayAddLevel, Sound, AlgorithmFits
  <2>3. addLevel(d) = e
    BY <1>2, Zenon DEF addLevel, Sound, IsDialog, Fields
  <2>4. levels \in Seq(Level) /\ Len(levels) = n + 1
    BY <2>1
  <2> HIDE DEF levels
  <2>5. hss \in HssParams /\ hss.levels = levels /\ hss.isHss
    BY <2>2, <2>4 DEF HssParams
  <2> HIDE DEF hss
  <2>6. /\ SameButHss(d, e) /\ e.hss = hss /\ e.picker = d.picker /\ e.param = 2 + 2 * n
    BY DEF SameButHss, SameKeys, Sound, IsDialog, Fields
  <2> HIDE DEF e, n
  <2>7. LevelsFit(e)
    BY <2>1, <2>2, <2>4, <2>5, <2>6, HssAssumption DEF LevelsFit, HssAssumption
  <2>8. hssFieldCount(e) >= 2 + 2 * (n + 1) /\ hssFieldCount(e) \in Nat
    BY <2>1, <2>4, <2>5, <2>6, HssFieldCountIs
  <2>9. e.param \in Nat /\ e.param < hssFieldCount(e)
    BY <2>1, <2>6, <2>8
  <2> QED
    BY <2>3, <2>5, <2>6, <2>7, <2>9, HssReady DEF Settled
<1> QED
  BY <1>1, <1>2

\* The focused field is one of the rows, and shows one of its choices.
LEMMA FocusIs ==
  ASSUME NEW d, AlgorithmFits(d)
  PROVE  LET f == hssFocused(d) IN
         /\ f = field(f.kind, f.level) /\ f.level \in Nat
         /\ f.kind \in Choosers \cup {"add"}
         /\ f.kind \in {"height", "winternitz"} => f.level \in 1 .. Len(d.hss.levels)
<1> DEFINE n == Len(d.hss.levels)
           i == least(d.param, hssFieldCount(d) - 1)
<1>1. n \in Nat /\ hssFieldCount(d) \in Nat /\ hssFieldCount(d) >= 4
  BY HssFieldsAre
<1>2. i \in Nat
  BY <1>1 DEF least, AlgorithmFits
<1>3. hssFocused(d) = hssField(d, i)
  BY DEF hssFocused
<1> HIDE DEF i
<1>4. CASE i = 0
  BY <1>3, <1>4 DEF hssField, field, Choosers
<1>5. CASE i = 1
  BY <1>3, <1>5 DEF hssField, field, Choosers
<1>6. CASE i >= 2 + 2 * n
  <2>1. i # 0 /\ i # 1
    BY <1>1, <1>2, <1>6
  <2> QED BY <1>3, <1>6, <2>1 DEF hssField, field
<1>7. CASE i \notin {0, 1} /\ ~(i >= 2 + 2 * n)
  <2>1. hssField(d, i) = field(IF i % 2 = 0 THEN "height" ELSE "winternitz", i \div 2)
    BY <1>7 DEF hssField
  <2>2. i \div 2 \in 1 .. n
    <3> HIDE DEF n
    <3> QED BY <1>1, <1>2, <1>7
  <2> QED BY <1>1, <1>3, <2>1, <2>2 DEF field, Choosers
<1> QED
  BY <1>4, <1>5, <1>6, <1>7

LEMMA ValueIsAChoice ==
  ASSUME NEW d, AlgorithmFits(d), NEW f, f = hssFocused(d), f.kind \in Choosers
  PROVE  /\ hssValue(d, f) \in Nat /\ choices(f.kind) \in Nat
         /\ hssValue(d, f) < choices(f.kind)
<1>1. f.kind \in {"height", "winternitz"} => d.hss.levels[f.level] \in Level
  <2>1. d.hss.levels \in [1 .. Len(d.hss.levels) -> Level]
    BY HssFieldsAre, LenProperties
  <2> QED
    BY <2>1, FocusIs
<1>2. d.hss.hash \in 0 .. Hashes - 1
  BY DEF AlgorithmFits, HssParams
<1>3. Hashes \in Nat /\ Heights \in Nat /\ Winternitz \in Nat
  BY HssAssumption DEF HssAssumption
<1>4. CASE f.kind = "mode"
  BY <1>4 DEF hssValue, choices
<1>5. CASE f.kind = "hash"
  BY <1>2, <1>3, <1>5 DEF hssValue, choices
<1>6. CASE f.kind = "height"
  BY <1>1, <1>3, <1>6 DEF hssValue, choices, Level
<1>7. CASE f.kind = "winternitz"
  BY <1>1, <1>3, <1>7 DEF hssValue, choices, Level
<1> QED
  BY <1>4, <1>5, <1>6, <1>7 DEF Choosers

\* One level less, but at least one.
LEMMA RemovedLevelIsReady ==
  ASSUME NEW d, Sound(d), Settled(d), isHssFamily(d)
  PROVE  Ready(removeLevel(d))
<1> DEFINE f == hssFocused(d)
           n == Len(d.hss.levels)
           levels == withoutLevel(d.hss.levels, f.level)
           hss == [d.hss EXCEPT !.levels = levels]
           e == [d EXCEPT !.hss = hss]
<1>1. CASE ~(f.kind \in {"height", "winternitz"} /\ n > 1)
  BY <1>1, SoundIsReady DEF removeLevel
<1>2. CASE f.kind \in {"height", "winternitz"} /\ n > 1
  <2>1. n \in Nat /\ d.hss.levels \in Seq(Level) /\ f.level \in 1 .. n
    BY <1>2, HssFieldsAre, FocusIs DEF Sound
  <2>2. d.hss \in HssParams
    BY DEF Sound, AlgorithmFits
  <2>3. removeLevel(d) = withFocus(e)
    BY <1>2, Zenon DEF removeLevel, Sound, IsDialog, Fields
  <2>4. levels \in Seq(Level) /\ Len(levels) = n - 1
    <3> DEFINE l == f.level
    <3>1. l \in 1 .. n
      BY <2>1
    <3> HIDE DEF l, f
    <3>2. SubSeq(d.hss.levels, 1, l - 1) \in Seq(Level) /\ Len(SubSeq(d.hss.levels, 1, l - 1)) = l - 1
      BY <2>1, <3>1, SubSeqProperties
    <3>3. SubSeq(d.hss.levels, l + 1, n) \in Seq(Level) /\ Len(SubSeq(d.hss.levels, l + 1, n)) = n - l
      BY <2>1, <3>1, SubSeqProperties
    <3>4. /\ withoutLevel(d.hss.levels, l) \in Seq(Level)
          /\ Len(withoutLevel(d.hss.levels, l)) = (l - 1) + (n - l)
      BY <3>2, <3>3, ConcatProperties DEF withoutLevel
    <3> QED
      BY <2>1, <3>1, <3>4 DEF l
  <2> HIDE DEF levels, f
  <2>5. hss \in HssParams /\ hss.levels = levels /\ hss.isHss = d.hss.isHss
    BY <2>2, <2>4 DEF HssParams
  <2> HIDE DEF hss
  <2>6. SameButHss(d, e) /\ e.hss = hss /\ e.picker = d.picker /\ e.param = d.param
    BY DEF SameButHss, SameKeys, Sound, IsDialog, Fields
  <2> HIDE DEF e
  <2>7. LevelsFit(e)
    <3>1. n \in 1 .. HssMaxLevels /\ (~d.hss.isHss => n = 1)
      BY DEF Sound, AlgorithmFits, LevelsFit
    <3> HIDE DEF n
    <3> QED
      BY <1>2, <2>1, <2>4, <2>5, <2>6, <3>1, HssAssumption DEF LevelsFit, HssAssumption
  <2>8. e.param \in Nat /\ IsDialog(e)
    BY <2>6 DEF Sound, AlgorithmFits, SameButHss
  <2> DEFINE g == withFocus(e)
  <2>9. /\ SameButHss(d, g) /\ g.hss = hss /\ g.picker = NoPicker
        /\ g.param \in Nat /\ g.param < hssFieldCount(g)
    BY <2>6, <2>7, <2>8, WithFocusIs DEF SameButHss, SameKeys, Settled
  <2> HIDE DEF g
  <2>10. LevelsFit(g)
    BY <2>6, <2>7, <2>9 DEF LevelsFit
  <2>11. Ready(g)
    BY <2>5, <2>9, <2>10, HssReady DEF Settled
  <2> QED
    BY <2>3, <2>11 DEF g
<1> QED
  BY <1>1, <1>2

\* The picker's choice is taken over, and the picker closed.
LEMMA ConfirmedIsReady ==
  ASSUME NEW d, Sound(d), d.picker # NoPicker, ~d.editing
  PROVE  Ready(confirmed(d))
<1> DEFINE p == d.picker
           n == Len(d.hss.levels)
           closed == [d EXCEPT !.picker = NoPicker]
<1>1. /\ p \in Pickers /\ isHssFamily(d) /\ p.selected < choices(p.kind)
      /\ hssFocused(d) = field(p.kind, p.level)
  BY DEF Sound, PickerFits, PickerIsOfTheFocus, inHssEditor
<1>2. n \in Nat /\ d.hss.levels \in Seq(Level) /\ d.hss \in HssParams /\ LevelsFit(d)
      /\ d.param \in Nat /\ d.param < hssFieldCount(d)
  BY <1>1, HssFieldsAre DEF Sound, AlgorithmFits, ParameterExists, paramRows
<1>3. p.kind \in {"height", "winternitz"} => p.level \in 1 .. n
  BY <1>1, FocusIs DEF field, Sound
<1>4. /\ IsDialog(closed) /\ SameButHss(d, closed) /\ closed.hss = d.hss
      /\ closed.picker = NoPicker /\ closed.param = d.param
  BY DEF Sound, SameButHss, SameKeys, IsDialog, Fields
<1> HIDE DEF closed
<1>5. ASSUME NEW hss \in HssParams,
             Len(hss.levels) = n, hss.isHss = d.hss.isHss
      PROVE  Ready([closed EXCEPT !.hss = hss])
  <2> DEFINE e == [closed EXCEPT !.hss = hss]
  <2>1. SameButHss(closed, e) /\ e.hss = hss /\ e.picker = NoPicker /\ e.param = d.param
    BY <1>4 DEF SameButHss, SameKeys, IsDialog, Fields
  <2> HIDE DEF e
  <2>2. LevelsFit(e)
    BY <1>2, <1>5, <2>1 DEF LevelsFit
  <2>3. mayAddLevel(e) = mayAddLevel(d)
    BY <1>5, <2>1 DEF mayAddLevel
  <2>4. hssFieldCount(e) = hssFieldCount(d)
    BY <1>5, <2>1, <2>3 DEF hssFieldCount
  <2>5. SameButHss(d, e)
    BY <1>4, <2>1 DEF SameButHss, SameKeys
  <2>6. Ready(e)
    BY <1>1, <1>2, <2>1, <2>2, <2>4, <2>5, HssReady
  <2> QED
    BY <2>6 DEF e
<1>6. CASE p.kind = "mode"
  <2> DEFINE levels == IF p.selected = 1 THEN d.hss.levels ELSE SubSeq(d.hss.levels, 1, 1)
             hss == [[d.hss EXCEPT !.isHss = (p.selected = 1)] EXCEPT !.levels = levels]
             e == [closed EXCEPT !.hss = hss]
  <2>1. levels \in Seq(Level) /\ Len(levels) \in 1 .. HssMaxLevels
        /\ (p.selected # 1 => Len(levels) = 1)
    <3>1. n \in 1 .. HssMaxLevels
      BY <1>2 DEF LevelsFit
    <3>2. n >= 1 /\ 1 \in 1 .. HssMaxLevels
      BY <3>1, HssAssumption DEF HssAssumption
    <3>3. SubSeq(d.hss.levels, 1, 1) \in Seq(Level) /\ Len(SubSeq(d.hss.levels, 1, 1)) = 1
      BY <1>2, <3>2, SubSeqProperties
    <3> QED
      BY <1>2, <3>1, <3>2, <3>3
  <2>2. confirmed(d) = withMode(closed, p.selected = 1)
    BY <1>6 DEF confirmed, closed
  <2>3. withMode(closed, p.selected = 1) = withFocus(e)
    BY <1>4, Zenon DEF withMode, IsDialog, Fields
  <2> HIDE DEF levels
  <2>4. hss \in HssParams /\ hss.levels = levels /\ (hss.isHss <=> p.selected = 1)
    BY <1>2, <2>1 DEF HssParams
  <2> HIDE DEF hss
  <2>5. SameButHss(d, e) /\ e.hss = hss /\ e.picker = NoPicker /\ e.param = d.param
    BY <1>4 DEF SameButHss, SameKeys, IsDialog, Fields
  <2> HIDE DEF e
  <2>6. LevelsFit(e) /\ IsDialog(e)
    BY <2>1, <2>4, <2>5 DEF LevelsFit, SameButHss
  <2> DEFINE g == withFocus(e)
  <2>7. /\ SameButHss(d, g) /\ g.hss = hss /\ g.picker = NoPicker
        /\ g.param \in Nat /\ g.param < hssFieldCount(g)
    BY <1>2, <2>5, <2>6, WithFocusIs DEF SameButHss, SameKeys
  <2> HIDE DEF g
  <2>8. LevelsFit(g)
    BY <2>5, <2>6, <2>7 DEF LevelsFit
  <2>9. Ready(g)
    BY <1>1, <2>4, <2>7, <2>8, HssReady
  <2> QED
    BY <2>2, <2>3, <2>9 DEF g
<1>7. CASE p.kind = "hash"
  <2> DEFINE hss == [d.hss EXCEPT !.hash = p.selected]
  <2>1. confirmed(d) = [closed EXCEPT !.hss = hss]
    BY <1>4, <1>7, Zenon DEF confirmed, closed, IsDialog, Fields
  <2>2. p.selected \in 0 .. Hashes - 1
    BY <1>1, <1>7, HssAssumption DEF choices, Pickers, HssAssumption
  <2>3. hss \in HssParams /\ Len(hss.levels) = n /\ hss.isHss = d.hss.isHss
    BY <1>2, <2>2 DEF HssParams
  <2> HIDE DEF hss
  <2> QED
    BY <1>5, <2>1, <2>3
<1>8. ASSUME NEW level \in Level, p.level \in 1 .. n
      PROVE  Ready([closed EXCEPT !.hss = [d.hss EXCEPT !.levels = [d.hss.levels EXCEPT ![p.level] = level]]])
  <2> DEFINE levels == [d.hss.levels EXCEPT ![p.level] = level]
             hss == [d.hss EXCEPT !.levels = levels]
  <2>1. levels \in Seq(Level) /\ Len(levels) = n
    BY <1>2, <1>8
  <2> HIDE DEF levels
  <2>2. hss \in HssParams /\ Len(hss.levels) = n /\ hss.isHss = d.hss.isHss
    BY <1>2, <2>1 DEF HssParams
  <2> HIDE DEF hss
  <2>3. Ready([closed EXCEPT !.hss = hss])
    BY <1>5, <2>2
  <2> QED
    BY <2>3 DEF hss, levels
<1>9. CASE p.kind = "height"
  <2> DEFINE level == [d.hss.levels[p.level] EXCEPT !.height = p.selected]
  <2>1. confirmed(d)
          = [closed EXCEPT !.hss = [d.hss EXCEPT !.levels = [d.hss.levels EXCEPT ![p.level] = level]]]
    BY <1>4, <1>9, Zenon DEF confirmed, closed, IsDialog, Fields
  <2>2. p.selected \in 0 .. Heights - 1
    BY <1>1, <1>9, HssAssumption DEF choices, Pickers, HssAssumption
  <2>3. d.hss.levels[p.level] \in Level /\ p.level \in 1 .. n
    BY <1>2, <1>3, <1>9
  <2>4. level \in Level
    BY <2>2, <2>3 DEF Level
  <2> HIDE DEF level
  <2> QED
    BY <1>8, <2>1, <2>3, <2>4
<1>10. CASE p.kind = "winternitz"
  <2> DEFINE level == [d.hss.levels[p.level] EXCEPT !.winternitz = p.selected]
  <2>1. confirmed(d)
          = [closed EXCEPT !.hss = [d.hss EXCEPT !.levels = [d.hss.levels EXCEPT ![p.level] = level]]]
    BY <1>4, <1>10, Zenon DEF confirmed, closed, IsDialog, Fields
  <2>2. p.selected \in 0 .. Winternitz - 1
    BY <1>1, <1>10, HssAssumption DEF choices, Pickers, HssAssumption
  <2>3. d.hss.levels[p.level] \in Level /\ p.level \in 1 .. n
    BY <1>2, <1>3, <1>10
  <2>4. level \in Level
    BY <2>2, <2>3 DEF Level
  <2> HIDE DEF level
  <2> QED
    BY <1>8, <2>1, <2>3, <2>4
<1> QED
  BY <1>1, <1>6, <1>7, <1>9, <1>10 DEF Pickers, Choosers

-----------------------------------------------------------------------------
(* The keys that are offered are a list.                                   *)
LEMMA FilteredIsAList ==
  ASSUME NEW s, isList(s), NEW I \in SUBSET (1 .. Len(s))
  PROVE  isList((CHOOSE f : f = filtered(s, I, f))[Len(s)])
<1> DEFINE T == {s[i] : i \in DOMAIN s}
<1>1. s \in Seq(T)
  BY DEF isList
<1> HIDE DEF T
<1> QED
  BY <1>1, FilteredIs, IsListIn

LEMMA ReadableIsAList ==
  ASSUME NEW s, isList(s)
  PROVE  isList(readable(s))
<1> DEFINE loop(f) ==
             [n \in 0 .. Len(s) |->
                IF n = 0 THEN <<>>
                ELSE IF s[n].path \in onDisk
                     THEN Append(f[n - 1], s[n])
                ELSE f[n - 1]]
           I == {i \in 1 .. Len(s) : s[i].path \in onDisk}
<1>1. readable(s) = (CHOOSE f : f = loop(f))[Len(s)]
  BY DEF readable, retain
<1>2. \A f : loop(f) = filtered(s, I, f)
  BY ListIs DEF filtered
<1>3. (CHOOSE f : f = loop(f)) = (CHOOSE f : f = filtered(s, I, f))
  BY <1>2
<1>4. I \in SUBSET (1 .. Len(s))
  OBVIOUS
<1> HIDE DEF I
<1> QED
  BY <1>1, <1>3, <1>4, FilteredIsAList

LEMMA WithoutIsAList ==
  ASSUME NEW s, isList(s), NEW paths
  PROVE  isList(without(s, paths))
<1> DEFINE loop(f) ==
             [n \in 0 .. Len(s) |->
                IF n = 0 THEN <<>>
                ELSE IF s[n].path \notin paths
                     THEN Append(f[n - 1], s[n])
                ELSE f[n - 1]]
           I == {i \in 1 .. Len(s) : s[i].path \notin paths}
<1>1. without(s, paths) = (CHOOSE f : f = loop(f))[Len(s)]
  BY DEF without, retain
<1>2. \A f : loop(f) = filtered(s, I, f)
  BY ListIs DEF filtered
<1>3. (CHOOSE f : f = loop(f)) = (CHOOSE f : f = filtered(s, I, f))
  BY <1>2
<1>4. I \in SUBSET (1 .. Len(s))
  OBVIOUS
<1> HIDE DEF I
<1> QED
  BY <1>1, <1>3, <1>4, FilteredIsAList

LEMMA OfferedIsAList ==
  ASSUME NEW s, isList(s)
  PROVE  isList(offered(s))
<1> DEFINE loop(f) ==
             [n \in 0 .. Len(s) |->
                IF n = 0 THEN <<>>
                ELSE IF s[n].kind = "encrypted" \/ (s[n].kind = "pkcs12" /\ s[n].dn = CertDn)
                     THEN Append(f[n - 1], s[n])
                ELSE f[n - 1]]
           I == {i \in 1 .. Len(s) : s[i].kind = "encrypted" \/ (s[i].kind = "pkcs12" /\ s[i].dn = CertDn)}
<1>1. offered(s) = (CHOOSE f : f = loop(f))[Len(s)]
  BY DEF offered, retain
<1>2. \A f : loop(f) = filtered(s, I, f)
  BY ListIs DEF filtered
<1>3. (CHOOSE f : f = loop(f)) = (CHOOSE f : f = filtered(s, I, f))
  BY <1>2
<1>4. I \in SUBSET (1 .. Len(s))
  OBVIOUS
<1> HIDE DEF I
<1> QED
  BY <1>1, <1>3, <1>4, FilteredIsAList

LEMMA JoinedIsAList ==
  ASSUME NEW s, isList(s), NEW t, isList(t)
  PROVE  isList(joined(s, t))
<1> DEFINE c == Len(s) + Len(t)
           r == joined(s, t)
<1>1. c \in Nat
  BY ListIs
<1>2. DOMAIN r = 1 .. c /\ r = [i \in 1 .. c |-> r[i]]
  BY DEF joined
<1> HIDE DEF c, r
<1>3. r \in [1 .. c -> {r[i] : i \in 1 .. c}]
  BY <1>2
<1>4. r \in Seq({r[i] : i \in 1 .. c})
  BY <1>1, <1>3, SeqDef
<1> QED
  BY <1>4, IsListIn DEF r

LEMMA FreshIsSound == Sound(fresh)
<1>1. IsDialog(fresh) /\ Settled(fresh)
  BY FreshIsGood DEF Good, fresh, Settled
<1>2. isList(gatherExistingKeys)
  <2>1. isList(readable(KeyFiles)) /\ isList(readable(Unlocked))
    BY KeysAssumption, ReadableIsAList DEF KeysAssumption
  <2> QED
    BY <2>1, WithoutIsAList, OfferedIsAList, JoinedIsAList DEF gatherExistingKeys
<1>3. KeysFit(fresh)
  <2>1. fresh.existing = gatherExistingKeys /\ fresh.useExisting = FALSE /\ fresh.optionField = 0
    BY DEF fresh
  <2>2. maxOptionField(fresh) = 1
    BY <2>1 DEF maxOptionField
  <2>3. KeysListed(fresh)
    <3>1. fresh.useExisting \in BOOLEAN
      BY <2>1, Zenon
    <3>2. isList(fresh.existing)
      BY <1>2, <2>1, Zenon
    <3>3. fresh.optionField \in Nat
      BY <2>1
    <3> QED
      BY <3>1, <3>2, <3>3, Zenon DEF KeysListed
  <2> QED
    BY <2>1, <2>2, <2>3 DEF KeysFit, OptionExists
<1>4. isList(fresh.filename)
  <2> DEFINE piece == shortName([name |-> Families[1].members[Families[1].default + 1], bits |-> 0])
  <2>1. fresh.filename = <<piece>>
    BY DEF fresh
  <2> HIDE DEF piece
  <2>2. <<piece>> \in Seq({piece})
    OBVIOUS
  <2> QED
    BY <2>1, <2>2, IsListIn
<1>5. AlgorithmFits(fresh)
  <2> DEFINE level == [height |-> DefaultHeight, winternitz |-> DefaultWinternitz]
             hss == [isHss |-> FALSE, hash |-> 0, levels |-> <<level>>]
  <2>1. fresh.family = 0 /\ fresh.param = Families[1].default /\ fresh.hss = hss
    BY DEF fresh
  <2>2. level \in Level /\ 0 \in 0 .. Hashes - 1
    BY HssAssumption DEF HssAssumption, Level
  <2> HIDE DEF level
  <2>3. <<level>> \in Seq(Level) /\ Len(<<level>>) = 1
    BY <2>2
  <2>4. hss \in HssParams /\ Len(hss.levels) = 1
    BY <2>2, <2>3 DEF HssParams
  <2> HIDE DEF hss
  <2>5. LevelsFit(fresh)
    BY <2>1, <2>4, HssAssumption DEF LevelsFit, HssAssumption
  <2>6. family(fresh) = Families[1] /\ ~isHssFamily(fresh)
    BY <2>1, FirstFamilyAssumption DEF family, isHssFamily, FirstFamilyAssumption
  <2>7. /\ Len(Families[0 + 1].members) \in Nat
        /\ Families[0 + 1].default \in 0 .. Len(Families[0 + 1].members) - 1
    BY FirstFamilyIs, FamilyIs
  <2>8. fresh.param \in Nat /\ fresh.param < paramRows(fresh)
    BY <2>1, <2>6, <2>7, ParamRowsAre
  <2> QED
    BY <2>1, <2>4, <2>5, <2>8, FirstFamilyIs DEF AlgorithmFits, ParameterExists
<1> QED
  BY <1>1, <1>3, <1>4, <1>5, SettledFits DEF Sound

-----------------------------------------------------------------------------
(* One step of the specification.                                          *)
RowsInv == pubkey.open => Sound(pubkey)

LEMMA SoundMove ==
  ASSUME NEW d, Sound(d), move(d)
  PROVE  RowsInv'
BY DEF move, RowsInv

LEMMA SoundChange ==
  ASSUME NEW d, Sound(d), change(d)
  PROVE  RowsInv'
BY DEF change, RowsInv

LEMMA PickerKeysAreSound ==
  ASSUME Sound(pubkey), pubkey.picker # NoPicker, PickerKeys
  PROVE  RowsInv'
<1>1. ~pubkey.editing
  BY DEF Sound, PickerFits, PickerIsOfTheFocus, NameFits, FileNameIsEditable, inHssEditor,
         filenameFocused
<1>2. pubkey.picker \in Pickers
  BY DEF Sound, PickerFits
<1>3. CASE PickerMove
  <2>1. PICK delta \in {-1, 1} : move([pubkey EXCEPT !.picker.selected =
                                        clamped(@ + delta, 0, choices(pubkey.picker.kind) - 1)])
    BY <1>3 DEF PickerMove
  <2> DEFINE selected == clamped(pubkey.picker.selected + delta, 0, choices(pubkey.picker.kind) - 1)
             picker == [pubkey.picker EXCEPT !.selected = selected]
             moved == [pubkey EXCEPT !.picker = picker]
  <2>2. move(moved)
    BY <2>1, Zenon DEF Sound, IsDialog, Fields
  <2>3. choices(pubkey.picker.kind) > 0 /\ choices(pubkey.picker.kind) \in Nat
    BY <1>2, <1>3, HssAssumption DEF PickerMove, choices, HssAssumption
  <2>4. selected \in Nat /\ selected < choices(pubkey.picker.kind)
    BY <1>2, <2>3 DEF clamped, Pickers
  <2> HIDE DEF selected
  <2>5. /\ picker \in Pickers /\ picker.kind = pubkey.picker.kind
        /\ picker.level = pubkey.picker.level /\ picker.selected = selected
    BY <1>2, <2>4 DEF Pickers
  <2> HIDE DEF picker
  <2>6. "kind" \in DOMAIN picker /\ picker.kind \in Choosers
    BY <2>5 DEF Pickers
  <2>7. /\ IsDialog(moved) /\ moved.picker = picker
        /\ SameAlgorithm(pubkey, moved) /\ SameKeys(pubkey, moved) /\ SameEditing(pubkey, moved)
    BY <2>6 DEF Sound, IsDialog, Fields, SameAlgorithm, SameKeys, SameEditing
  <2> HIDE DEF moved
  <2>8. hssFocused(moved) = hssFocused(pubkey) /\ inHssEditor(moved) = inHssEditor(pubkey)
    <3>1. /\ hssFieldCount(moved) = hssFieldCount(pubkey)
          /\ isHssFamily(moved) = isHssFamily(pubkey)
          /\ \A i : hssField(moved, i) = hssField(pubkey, i)
      BY <2>7, RowsDepend DEF SameAlgorithm
    <3> QED
      BY <2>7, <3>1 DEF hssFocused, inHssEditor, SameAlgorithm, SameEditing
  <2>9. PickerFits(moved)
    BY <1>2, <2>4, <2>5, <2>7, <2>8 DEF Sound, PickerFits, PickerIsOfTheFocus
  <2>10. Sound(moved)
    BY <2>7, <2>9, AlgorithmStays, KeysStay, NameStays DEF Sound
  <2> QED
    BY <2>2, <2>10, SoundMove
<1>4. CASE move(algorithmChanged(confirmed(pubkey)))
  BY <1>1, <1>4, ConfirmedIsReady, ChangedIsSound, SoundMove
<1>5. CASE move([pubkey EXCEPT !.picker = NoPicker])
  <2> DEFINE closed == [pubkey EXCEPT !.picker = NoPicker]
  <2>1. /\ IsDialog(closed) /\ closed.picker = NoPicker
        /\ SameAlgorithm(pubkey, closed) /\ SameKeys(pubkey, closed) /\ SameEditing(pubkey, closed)
    BY DEF Sound, IsDialog, Fields, SameAlgorithm, SameKeys, SameEditing
  <2>2. move(closed)
    BY <1>5
  <2> HIDE DEF closed
  <2>3. PickerFits(closed)
    BY <2>1 DEF PickerFits, PickerIsOfTheFocus
  <2>4. Sound(closed)
    BY <2>1, <2>3, AlgorithmStays, KeysStay, NameStays DEF Sound
  <2> QED
    BY <2>2, <2>4, SoundMove
<1> QED
  BY <1>3, <1>4, <1>5 DEF PickerKeys

\* A change of the name, its cursor or whether it is edited.
LEMMA NamingIsSound ==
  ASSUME NEW d, Sound(d), d.picker = NoPicker, NEW e, IsDialog(e), SameAlgorithm(d, e),
         SameKeys(d, e), e.picker = d.picker, e.column = d.column, NameFits(e)
  PROVE  Sound(e)
BY AlgorithmStays, KeysStay, PickerStays DEF Sound

LEMMA TypedName ==
  ASSUME NEW s, isList(s), NEW c \in 0 .. Len(s), NEW piece
  PROVE  LET t == SubSeq(s, 1, c) \o <<piece>> \o SubSeq(s, c + 1, Len(s)) IN
         isList(t) /\ Len(t) = Len(s) + 1
<1> DEFINE T == {s[i] : i \in DOMAIN s} \cup {piece}
           n == Len(s)
           p == SubSeq(s, 1, c)
           q == SubSeq(s, c + 1, n)
<1>1. s \in Seq(T)
  BY DEF isList
<1>2. n \in Nat
  BY ListIs
<1>3. piece \in T
  OBVIOUS
<1> HIDE DEF T
<1>4. p \in Seq(T) /\ Len(p) = c
  BY <1>1, <1>2, SubSeqProperties
<1>5. q \in Seq(T) /\ Len(q) = n - c
  BY <1>1, <1>2, SubSeqProperties
<1>6. <<piece>> \in Seq(T) /\ Len(<<piece>>) = 1
  BY <1>3
<1> HIDE DEF p, q
<1>7. p \o <<piece>> \in Seq(T) /\ Len(p \o <<piece>>) = c + 1
  BY <1>4, <1>6, ConcatProperties
<1>8. p \o <<piece>> \o q \in Seq(T) /\ Len(p \o <<piece>> \o q) = (c + 1) + (n - c)
  BY <1>5, <1>7, ConcatProperties
<1>9. Len(p \o <<piece>> \o q) = n + 1
  BY <1>2, <1>8
<1> QED
  BY <1>8, <1>9, IsListIn DEF p, q

LEMMA ErasedName ==
  ASSUME NEW s, isList(s), NEW c \in 1 .. Len(s)
  PROVE  LET t == SubSeq(s, 1, c - 1) \o SubSeq(s, c + 1, Len(s)) IN
         isList(t) /\ Len(t) = Len(s) - 1
<1> DEFINE T == {s[i] : i \in DOMAIN s}
           n == Len(s)
           p == SubSeq(s, 1, c - 1)
           q == SubSeq(s, c + 1, n)
<1>1. s \in Seq(T)
  BY DEF isList
<1>2. n \in Nat
  BY ListIs
<1> HIDE DEF T
<1>3. p \in Seq(T) /\ Len(p) = c - 1
  BY <1>1, <1>2, SubSeqProperties
<1>4. q \in Seq(T) /\ Len(q) = n - c
  BY <1>1, <1>2, SubSeqProperties
<1> HIDE DEF p, q
<1>5. p \o q \in Seq(T) /\ Len(p \o q) = (c - 1) + (n - c)
  <2>1. p \o q \in Seq(T) /\ Len(p \o q) = Len(p) + Len(q)
    BY <1>3, <1>4, ConcatProperties
  <2> QED
    BY <1>3, <1>4, <2>1
<1>6. Len(p \o q) = n - 1
  BY <1>2, <1>5
<1> QED
  BY <1>5, <1>6, IsListIn DEF p, q

LEMMA FilenameKeysAreSound ==
  ASSUME Sound(pubkey), pubkey.picker = NoPicker, pubkey.editing, FilenameKeys
  PROVE  RowsInv'
<1>1. /\ isList(pubkey.filename) /\ Len(pubkey.filename) \in Nat
      /\ filenameFocused(pubkey) /\ pubkey.cursor \in 0 .. Len(pubkey.filename)
  BY ListIs DEF Sound, NameFits, FileNameIsEditable
<1>2. CASE move([pubkey EXCEPT !.editing = FALSE])
  <2> DEFINE e == [pubkey EXCEPT !.editing = FALSE]
  <2>1. /\ IsDialog(e) /\ SameAlgorithm(pubkey, e) /\ SameKeys(pubkey, e)
        /\ e.picker = pubkey.picker /\ e.column = pubkey.column
        /\ ~e.editing /\ e.filename = pubkey.filename
    BY DEF Sound, IsDialog, Fields, SameAlgorithm, SameKeys
  <2>2. move(e)
    BY <1>2
  <2> HIDE DEF e
  <2>3. NameFits(e)
    BY <1>1, <2>1 DEF NameFits, FileNameIsEditable
  <2> QED
    BY <2>1, <2>2, <2>3, NamingIsSound, SoundMove
<1>3. CASE \E n \in {pubkey.cursor - 1, pubkey.cursor + 1, 0, Len(pubkey.filename)} :
             move([pubkey EXCEPT !.cursor = clamped(n, 0, Len(pubkey.filename))])
  <2>1. PICK n \in {pubkey.cursor - 1, pubkey.cursor + 1, 0, Len(pubkey.filename)} :
               move([pubkey EXCEPT !.cursor = clamped(n, 0, Len(pubkey.filename))])
    BY <1>3
  <2> DEFINE cursor == clamped(n, 0, Len(pubkey.filename))
             e == [pubkey EXCEPT !.cursor = cursor]
  <2>2. cursor \in 0 .. Len(pubkey.filename)
    BY <1>1 DEF clamped
  <2> HIDE DEF cursor
  <2>3. /\ IsDialog(e) /\ SameAlgorithm(pubkey, e) /\ SameKeys(pubkey, e)
        /\ e.picker = pubkey.picker /\ e.column = pubkey.column
        /\ e.cursor = cursor /\ e.filename = pubkey.filename
    BY DEF Sound, IsDialog, Fields, SameAlgorithm, SameKeys
  <2>4. move(e)
    BY <2>1 DEF cursor
  <2> HIDE DEF e
  <2>5. NameFits(e)
    BY <1>1, <2>2, <2>3 DEF NameFits, FileNameIsEditable, filenameFocused, SameKeys
  <2> QED
    BY <2>3, <2>4, <2>5, NamingIsSound, SoundMove
<1>4. CASE \E c \in Chars : change(typedIn(pubkey, c))
  <2>1. PICK c \in Chars : change(typedIn(pubkey, c))
    BY <1>4
  <2> DEFINE s == pubkey.filename
             t == SubSeq(s, 1, pubkey.cursor) \o <<typed(c)>> \o SubSeq(s, pubkey.cursor + 1, Len(s))
             e == [[[pubkey EXCEPT !.filename = t] EXCEPT !.cursor = pubkey.cursor + 1] EXCEPT !.auto = FALSE]
  <2>2. isList(t) /\ Len(t) = Len(s) + 1
    BY <1>1, TypedName
  <2>3. typedIn(pubkey, c) = e
    BY Zenon DEF typedIn, Sound, IsDialog, Fields
  <2> HIDE DEF t
  <2>4. /\ IsDialog(e) /\ SameAlgorithm(pubkey, e) /\ SameKeys(pubkey, e)
        /\ e.picker = pubkey.picker /\ e.column = pubkey.column
        /\ e.cursor = pubkey.cursor + 1 /\ e.filename = t
    BY DEF Sound, IsDialog, Fields, SameAlgorithm, SameKeys
  <2> HIDE DEF e
  <2>5. pubkey.cursor + 1 \in 0 .. Len(t)
    BY <1>1, <2>2
  <2>6. NameFits(e)
    BY <1>1, <2>2, <2>4, <2>5 DEF NameFits, FileNameIsEditable, filenameFocused, SameKeys
  <2> QED
    BY <2>1, <2>3, <2>4, <2>6, NamingIsSound, SoundChange
<1>5. CASE pubkey.cursor > 0 /\ change(erased(pubkey))
  <2> DEFINE s == pubkey.filename
             t == SubSeq(s, 1, pubkey.cursor - 1) \o SubSeq(s, pubkey.cursor + 1, Len(s))
             e == [[[pubkey EXCEPT !.filename = t] EXCEPT !.cursor = pubkey.cursor - 1] EXCEPT !.auto = FALSE]
  <2>1. pubkey.cursor \in 1 .. Len(s)
    BY <1>1, <1>5
  <2>2. isList(t) /\ Len(t) = Len(s) - 1
    BY <1>1, <2>1, ErasedName
  <2>3. erased(pubkey) = e
    BY Zenon DEF erased, Sound, IsDialog, Fields
  <2> HIDE DEF t
  <2>4. /\ IsDialog(e) /\ SameAlgorithm(pubkey, e) /\ SameKeys(pubkey, e)
        /\ e.picker = pubkey.picker /\ e.column = pubkey.column
        /\ e.cursor = pubkey.cursor - 1 /\ e.filename = t
    BY DEF Sound, IsDialog, Fields, SameAlgorithm, SameKeys
  <2> HIDE DEF e
  <2>5. pubkey.cursor - 1 \in 0 .. Len(t)
    BY <1>1, <2>1, <2>2
  <2>6. NameFits(e)
    BY <1>1, <2>2, <2>4, <2>5 DEF NameFits, FileNameIsEditable, filenameFocused, SameKeys
  <2> QED
    BY <1>5, <2>3, <2>4, <2>6, NamingIsSound, SoundChange
<1> QED
  BY <1>2, <1>3, <1>4, <1>5 DEF FilenameKeys

\* Typing a size, or a password, where the dialog takes one.
LEMMA TypingIsSound ==
  ASSUME Sound(pubkey), Settled(pubkey), InsertChar \/ Backspace
  PROVE  RowsInv'
<1>1. ASSUME NEW bits
      PROVE  Sound(algorithmChanged([pubkey EXCEPT !.bits = bits]))
  <2> DEFINE e == [pubkey EXCEPT !.bits = bits]
  <2>1. /\ IsDialog(e) /\ e.family = pubkey.family /\ e.param = pubkey.param /\ e.hss = pubkey.hss
        /\ SameKeys(pubkey, e) /\ e.picker = pubkey.picker /\ e.editing = pubkey.editing
        /\ e.filename = pubkey.filename
    BY DEF Sound, IsDialog, Fields, SameKeys
  <2> HIDE DEF e
  <2>2. AlgorithmFits(e)
    BY <2>1, RowsDepend DEF Sound, AlgorithmFits, ParameterExists, LevelsFit
  <2>3. Ready(e)
    BY <2>1, <2>2 DEF Ready, Sound, Settled, KeysFit, KeysListed, SameKeys, NameFits
  <2>4. Sound(algorithmChanged(e))
    BY <2>3, ChangedIsSound
  <2> QED
    BY <2>4 DEF e
<1>2. CASE \E c \in Digits : change(algorithmChanged([pubkey EXCEPT !.bits = Append(@, c)]))
  BY <1>1, <1>2, SoundChange DEF Sound, IsDialog, Fields
<1>3. CASE change(algorithmChanged([pubkey EXCEPT !.bits = SubSeq(@, 1, Len(@) - 1)]))
  BY <1>1, <1>3, SoundChange DEF Sound, IsDialog, Fields
<1>4. CASE \/ change([pubkey EXCEPT !.password = @ + 1])
           \/ change([pubkey EXCEPT !.password = @ - 1])
  <2> DEFINE longer == [pubkey EXCEPT !.password = @ + 1]
             shorter == [pubkey EXCEPT !.password = @ - 1]
  <2>1. /\ IsDialog(longer) /\ SameAlgorithm(pubkey, longer) /\ SameKeys(pubkey, longer)
        /\ longer.picker = pubkey.picker /\ SameEditing(pubkey, longer)
        /\ IsDialog(shorter) /\ SameAlgorithm(pubkey, shorter) /\ SameKeys(pubkey, shorter)
        /\ shorter.picker = pubkey.picker /\ SameEditing(pubkey, shorter)
    BY DEF Sound, IsDialog, Fields, SameAlgorithm, SameKeys, SameEditing
  <2>2. change(longer) \/ change(shorter)
    BY <1>4
  <2> HIDE DEF longer, shorter
  <2>3. Sound(longer) /\ Sound(shorter)
    BY <2>1, AlgorithmStays, KeysStay, NameStays, PickerStays DEF Sound, SameEditing
  <2> QED
    BY <2>2, <2>3, SoundChange
<1> QED
  BY <1>2, <1>3, <1>4 DEF InsertChar, Backspace

LEMMA DialogKeysAreSound ==
  ASSUME Sound(pubkey), Settled(pubkey), DialogKeys
  PROVE  RowsInv'
<1>1. CASE CancelPubkey \/ SubmitPubkey
  BY <1>1 DEF CancelPubkey, SubmitPubkey, submit, RowsInv, NoDialog
<1>2. CASE \E delta \in {-1, 1} : move(moveColumn(pubkey, delta)) \/ move(moveRow(pubkey, delta))
  BY <1>2, MoveColumnIsSound, MoveRowIsSound, SoundMove
<1>3. CASE AddLevel \/ RemoveLevel
  <2>1. isHssFamily(pubkey)
    BY <1>3 DEF AddLevel, RemoveLevel, inHssEditor
  <2> QED
    BY <1>3, <2>1, AddedLevelIsReady, RemovedLevelIsReady, ChangedIsSound, SoundMove
    DEF AddLevel, RemoveLevel
<1>4. CASE BeginEdit
  <2> DEFINE e == [[pubkey EXCEPT !.editing = TRUE] EXCEPT !.cursor = Len(pubkey.filename)]
  <2>1. /\ IsDialog(e) /\ SameAlgorithm(pubkey, e) /\ SameKeys(pubkey, e)
        /\ e.picker = pubkey.picker /\ e.column = pubkey.column
        /\ e.cursor = Len(pubkey.filename) /\ e.filename = pubkey.filename
    BY DEF Sound, IsDialog, Fields, SameAlgorithm, SameKeys
  <2>2. move(e) /\ filenameFocused(pubkey)
    BY <1>4 DEF BeginEdit
  <2> HIDE DEF e
  <2>3. isList(pubkey.filename) /\ Len(pubkey.filename) \in Nat
    BY ListIs DEF Sound, NameFits
  <2>4. NameFits(e)
    BY <2>1, <2>2, <2>3 DEF NameFits, FileNameIsEditable, filenameFocused, SameKeys
  <2> QED
    BY <2>1, <2>2, <2>4, NamingIsSound, SoundMove DEF Settled
<1>5. CASE OpenPicker
  <2> DEFINE f == hssFocused(pubkey)
             picker == [kind |-> f.kind, level |-> f.level, selected |-> hssValue(pubkey, f)]
             e == [pubkey EXCEPT !.picker = picker]
  <2>1. /\ f.kind \in Choosers /\ f.level \in Nat /\ f = field(f.kind, f.level)
        /\ inHssEditor(pubkey) /\ move(e)
    BY <1>5, FocusIs DEF OpenPicker, Sound
  <2>2. hssValue(pubkey, f) \in Nat /\ hssValue(pubkey, f) < choices(f.kind)
    BY <2>1, ValueIsAChoice DEF Sound
  <2>3. /\ picker \in Pickers /\ picker.kind = f.kind /\ picker.level = f.level
        /\ picker.selected < choices(picker.kind) /\ "kind" \in DOMAIN picker
    BY <2>1, <2>2 DEF Pickers
  <2> HIDE DEF picker
  <2>4. /\ IsDialog(e) /\ e.picker = picker
        /\ SameAlgorithm(pubkey, e) /\ SameKeys(pubkey, e) /\ SameEditing(pubkey, e)
    BY <2>1, <2>3 DEF Sound, IsDialog, Fields, SameAlgorithm, SameKeys, SameEditing
  <2> HIDE DEF e
  <2>5. hssFocused(e) = f /\ inHssEditor(e)
    <3>1. /\ hssFieldCount(e) = hssFieldCount(pubkey)
          /\ isHssFamily(e) = isHssFamily(pubkey)
          /\ \A i : hssField(e, i) = hssField(pubkey, i)
      BY <2>4, RowsDepend DEF SameAlgorithm
    <3> QED
      BY <2>1, <2>4, <3>1 DEF hssFocused, inHssEditor, SameAlgorithm, SameEditing
  <2> HIDE DEF f
  <2>6. PickerFits(e)
    BY <2>1, <2>3, <2>4, <2>5 DEF PickerFits, PickerIsOfTheFocus
  <2>7. Sound(e)
    BY <2>4, <2>6, AlgorithmStays, KeysStay, NameStays DEF Sound
  <2> QED
    BY <2>1, <2>7, SoundMove
<1>6. CASE Toggle
  BY <1>6, ToggledIsSound, SoundChange DEF Toggle
<1>7. CASE InsertChar \/ Backspace
  BY <1>7, TypingIsSound
<1> QED
  BY <1>1, <1>2, <1>3, <1>4, <1>5, <1>6, <1>7 DEF DialogKeys

LEMMA NextIsSound ==
  ASSUME RowsInv, [KeyDialogNext]_keyVars
  PROVE  RowsInv'
<1>1. CASE StartRekey
  BY <1>1, FreshIsSound DEF StartRekey, RowsInv
<1>2. CASE PubkeyKeys
  <2>1. Sound(pubkey)
    BY <1>2 DEF PubkeyKeys, RowsInv
  <2> QED
    BY <1>2, <2>1, PickerKeysAreSound, FilenameKeysAreSound, DialogKeysAreSound
    DEF PubkeyKeys, Settled
<1>3. CASE UNCHANGED pubkey
  BY <1>3 DEF RowsInv
<1> QED
  BY <1>1, <1>2, <1>3 DEF KeyDialogNext, Rekeyed, OtherProgram, keyVars

(***************************************************************************)
(* Every index of the dialog is that of a row it has, whatever the tables  *)
(* of families, keys and levels: PubKeyState's param_idx, option_field,    *)
(* hss_picker and filename_cursor.                                         *)
(***************************************************************************)
THEOREM IndicesAreRows == KeyDialogSpec => []CursorsOnRows
<1>1. KeyDialogInit => RowsInv
  BY DEF KeyDialogInit, RowsInv, NoDialog
<1>2. RowsInv /\ [KeyDialogNext]_keyVars => RowsInv'
  BY NextIsSound
<1>3. RowsInv => CursorsOnRows
  BY DEF RowsInv, Sound, AlgorithmFits, KeysFit, PickerFits, NameFits, CursorsOnRows
<1> QED
  BY <1>1, <1>2, <1>3, PTL DEF KeyDialogSpec

-----------------------------------------------------------------------------
(* What is submitted.                                                      *)
LEMMA ChosenKeyFits ==
  ASSUME Sound(pubkey), selectedExisting(pubkey) # <<>>
  PROVE  /\ KeyAlg[selectedExisting(pubkey)[1].key] = SigAlg[alg(pubkey).name]
         /\ pubkey.optionField > 0 =>
              selectedExisting(pubkey)[1] = fittingKeys(pubkey)[pubkey.optionField]
<1> DEFINE row == selectedRow(pubkey)
<1>1. row \in Nat /\ row > 0 /\ (pubkey.optionField > 0 => row = pubkey.optionField)
  BY DEF selectedRow, Sound, KeysFit, KeysListed
<1>2. /\ row <= Len(fittingKeys(pubkey))
      /\ selectedExisting(pubkey)[1] = fittingKeys(pubkey)[row]
  BY DEF selectedExisting
<1> HIDE DEF row
<1>3. /\ Len(fittingKeys(pubkey)) \in Nat
      /\ \A k \in 1 .. Len(fittingKeys(pubkey)) :
           KeyAlg[fittingKeys(pubkey)[k].key] = SigAlg[alg(pubkey).name]
  BY FittingKeysFit DEF Sound, KeysFit, KeysListed
<1>4. row \in 1 .. Len(fittingKeys(pubkey))
  BY <1>1, <1>2, <1>3
<1> QED
  BY <1>1, <1>2, <1>3, <1>4

(***************************************************************************)
(* An existing key that is submitted signs with the chosen algorithm, and  *)
(* it is the one on the focused row, if a row has the focus:               *)
(* PubKeyState::selected_existing.                                         *)
(***************************************************************************)
THEOREM SubmittedIsTheChosen == KeyDialogSpec => SubmittedKeyFits
<1> DEFINE Fits ==
             plan' # plan /\ plan'.kind = "existing" =>
               /\ KeyAlg[plan'.key] = SigAlg[alg(pubkey).name]
               /\ pubkey.optionField > 0 => plan'.key = fittingKeys(pubkey)[pubkey.optionField].key
<1>1. KeyDialogInit => RowsInv
  BY DEF KeyDialogInit, RowsInv, NoDialog
<1>2. RowsInv /\ [KeyDialogNext]_keyVars => RowsInv'
  BY NextIsSound
<1>3. RowsInv /\ [KeyDialogNext]_keyVars => [Fits]_keyVars
  <2> SUFFICES ASSUME RowsInv, [KeyDialogNext]_keyVars, plan' # plan, plan'.kind = "existing"
               PROVE  /\ KeyAlg[plan'.key] = SigAlg[alg(pubkey).name]
                      /\ pubkey.optionField > 0 =>
                           plan'.key = fittingKeys(pubkey)[pubkey.optionField].key
    OBVIOUS
  <2>1. pubkey.open /\ SubmitPubkey
    <3>1. PubkeyKeys
      BY DEF KeyDialogNext, keyVars, StartRekey, Rekeyed, OtherProgram, NoPlan
    <3>2. pubkey.open /\ (PickerKeys \/ FilenameKeys \/ DialogKeys)
      BY <3>1 DEF PubkeyKeys
    <3>3. ~PickerKeys
      BY DEF PickerKeys, PickerMove, move
    <3>4. ~FilenameKeys
      BY DEF FilenameKeys, move, change
    <3>5. /\ ~CancelPubkey /\ ~AddLevel /\ ~RemoveLevel
          /\ ~BeginEdit /\ ~OpenPicker /\ ~Toggle
      BY DEF CancelPubkey, AddLevel, RemoveLevel, BeginEdit, OpenPicker, Toggle, move, change
    <3>6. ~InsertChar /\ ~Backspace
      BY DEF InsertChar, Backspace, change
    <3>7. \A delta : ~move(moveColumn(pubkey, delta)) /\ ~move(moveRow(pubkey, delta))
      BY DEF move
    <3> QED
      BY <3>2, <3>3, <3>4, <3>5, <3>6, <3>7 DEF DialogKeys
  <2>2. plan' = planOfExisting(pubkey) /\ selectedExisting(pubkey) # <<>>
    <3>1. planOfNew(pubkey).kind = "new"
      BY DEF planOfNew
    <3> QED
      BY <2>1, <3>1 DEF SubmitPubkey, submit
  <2>3. plan'.key = selectedExisting(pubkey)[1].key
    BY <2>2 DEF planOfExisting
  <2> QED
    BY <2>1, <2>2, <2>3, ChosenKeyFits DEF RowsInv
<1>4. KeyDialogSpec => [][Fits]_keyVars
  <2> HIDE DEF Fits
  <2> QED BY <1>1, <1>2, <1>3, PTL DEF KeyDialogSpec
<1> QED
  BY <1>4 DEF SubmittedKeyFits
=============================================================================
