----------------------------- MODULE KeyDialog -----------------------------
(***************************************************************************)
(* The public-key modification dialog (PubKeyState of src/app.rs, its keys *)
(* in src/tui.rs): an algorithm, its parameters, a new key or an existing  *)
(* one, the issued objects to sign again, and the name of the new key's    *)
(* file; and the plan it is submitted as.  What becomes of a plan is in    *)
(* the module Rekey.                                                       *)
(*                                                                         *)
(* Rows are counted from 0, as in the code.  An algorithm is a name and,   *)
(* when it is custom, its size.  A file name is a sequence: the default    *)
(* name of an algorithm is one element, a typed character another.         *)
(***************************************************************************)
EXTENDS Integers, Sequences, SequencesExt, Positions

CONSTANTS
  Families,       \* FAMILIES: [members, default, custom], members a sequence of names
  SigAlg,         \* sig_alg_oid: the signature algorithm of each name
  HssLms,         \* the name of the HSS/LMS algorithm
  Custom,         \* the name of RSA of a size entered by the user
  NoName,         \* the short name of Custom before a size is entered
  MaxDigits, MinBits, MaxBits,          \* what a custom size may be
  Hashes, Heights, Winternitz,          \* how many choices there are of each
  DefaultHeight, DefaultWinternitz,     \* the choices of HssLmsParams::default
  HssMaxLevels,
  KeyFiles,       \* key_files: the scanned plaintext keys, [path, key]
  Unlocked,       \* unlocked_keys: [path, key, kind, dn]
  KeyAlg,         \* the signature algorithm of each key
  CertDn,         \* issuer and subject of the open certificate
  IssuedObjects,  \* the objects it issued, as a sequence
  Chars, Blank,   \* what is typed into the file name, and the space
  Digits,         \* what is typed as a size
  Vanishing,      \* bound: the files another program removes or creates
  MaxName,        \* bound: the length of a file name
  MaxPresses      \* bound: keys that type, erase or toggle, and files written

isList(s) == s \in Seq({s[i] : i \in DOMAIN s})

(* The tables of keygen.rs: each default is one of the choices.            *)
HssAssumption ==
  /\ HssMaxLevels \in Nat \ {0}
  /\ Hashes \in Nat \ {0} /\ {Heights, Winternitz} \subseteq Nat
  /\ DefaultHeight \in 0 .. Heights - 1 /\ DefaultWinternitz \in 0 .. Winternitz - 1
ASSUME HssAssumption

FamiliesAssumption ==
  /\ isList(Families) /\ Families # <<>>
  /\ \A i \in DOMAIN Families :
       LET f == Families[i] IN
       /\ isList(f.members) /\ f.default \in 0 .. Len(f.members) - 1
       /\ f.members[1] = HssLms => f.default = 0
ASSUME FamiliesAssumption

(* FAMILIES[0] is one of plain algorithms.                                 *)
FirstFamilyAssumption == Families[1].members[1] # HssLms
ASSUME FirstFamilyAssumption

KeysAssumption == isList(KeyFiles) /\ isList(Unlocked)
ASSUME KeysAssumption

VARIABLES pubkey,  \* the dialog
          plan,    \* the RekeyPlan it was submitted as
          onDisk,  \* the names of the files of the certificate's directory
          presses  \* history

keyVars == <<pubkey, plan, onDisk, presses>>

NoDialog == [open |-> FALSE]
NoPlan == [kind |-> "none"]
NoPicker == [kind |-> "none", level |-> 0, selected |-> 0]

clamped(n, low, high) == IF n < low THEN low ELSE IF n > high THEN high ELSE n
least(m, n) == IF m < n THEN m ELSE n

-----------------------------------------------------------------------------
(* What the dialog shows.                                                  *)
family(d) == Families[d.family + 1]
isHssFamily(d) == family(d).members[1] = HssLms
customSelected(d) == family(d).custom /\ d.param = Len(family(d).members)

bitsOf(digits) ==
  LET value[n \in 0 .. Len(digits)] == IF n = 0 THEN 0 ELSE 10 * value[n - 1] + digits[n]
  IN value[Len(digits)]

alg(d) ==
  IF isHssFamily(d) THEN [name |-> HssLms, bits |-> 0]
  ELSE IF customSelected(d) THEN [name |-> Custom, bits |-> bitsOf(d.bits)]
  ELSE [name |-> family(d).members[d.param + 1], bits |-> 0]

field(kind, level) == [kind |-> kind, level |-> level]

(* hss_fields: the mode, the hash, height and Winternitz of each level,    *)
(* and the row that adds a level.                                          *)
mayAddLevel(d) == d.hss.isHss /\ Len(d.hss.levels) < HssMaxLevels
hssFieldCount(d) == 2 + 2 * Len(d.hss.levels) + (IF mayAddLevel(d) THEN 1 ELSE 0)
hssField(d, i) ==
  IF i = 0 THEN field("mode", 0)
  ELSE IF i = 1 THEN field("hash", 0)
  ELSE IF i >= 2 + 2 * Len(d.hss.levels) THEN field("add", 0)
  ELSE field(IF i % 2 = 0 THEN "height" ELSE "winternitz", i \div 2)

hssFocused(d) == hssField(d, least(d.param, hssFieldCount(d) - 1))

choices(kind) ==
  CASE kind = "mode" -> 2 [] kind = "hash" -> Hashes [] kind = "height" -> Heights
    [] kind = "winternitz" -> Winternitz [] OTHER -> 0

hssValue(d, f) ==
  CASE f.kind = "mode" -> IF d.hss.isHss THEN 1 ELSE 0
    [] f.kind = "hash" -> d.hss.hash
    [] f.kind = "height" -> d.hss.levels[f.level].height
    [] f.kind = "winternitz" -> d.hss.levels[f.level].winternitz
    [] OTHER -> 0

paramRows(d) ==
  IF isHssFamily(d) THEN hssFieldCount(d) ELSE Len(family(d).members) + (IF family(d).custom THEN 1 ELSE 0)

fittingKeys(d) == retain(d.existing, LAMBDA k : KeyAlg[k.key] = SigAlg[alg(d).name])
maxOptionField(d) == IF d.useExisting THEN Len(fittingKeys(d)) ELSE 1

(* The key that is used: on the radio the first one that fits.             *)
\* Mutant of selectedRow: the rows are counted from the radio.
selectedRowFromTheRadio(d) == d.optionField + 1
selectedRow(d) == IF d.optionField = 0 THEN 1 ELSE d.optionField
selectedExisting(d) ==
  IF d.useExisting /\ selectedRow(d) <= Len(fittingKeys(d)) THEN <<fittingKeys(d)[selectedRow(d)]>> ELSE <<>>

shortName(a) ==
  [name |-> IF a.name = Custom /\ a.bits = 0 THEN NoName ELSE a.name, bits |-> a.bits, hss |-> <<>>]
hssShortName(hss) == [name |-> HssLms, bits |-> 0, hss |-> <<hss>>]
typed(c) == [name |-> c, bits |-> 0, hss |-> <<>>]

defaultFilename(d) == <<IF isHssFamily(d) THEN hssShortName(d.hss) ELSE shortName(alg(d))>>

-----------------------------------------------------------------------------
(* Opening.                                                                *)
readable(keys) == retain(keys, LAMBDA k : k.path \in onDisk)
without(keys, paths) == retain(keys, LAMBDA k : k.path \notin paths)

(* gather_existing_keys: the plaintext keys, then those unlocked in this   *)
(* session; a PKCS#12's only when its certificate is of the same names.    *)
offered(keys) ==
  retain(keys, LAMBDA k : k.kind = "encrypted" \/ (k.kind = "pkcs12" /\ k.dn = CertDn))
joined(keys, more) ==
  [i \in 1 .. Len(keys) + Len(more) |->
     LET k == IF i <= Len(keys) THEN keys[i] ELSE more[i - Len(keys)]
     IN [path |-> k.path, key |-> k.key]]
gatherExistingKeys ==
  LET plain == readable(KeyFiles)
      locked == offered(without(readable(Unlocked), {plain[i].path : i \in DOMAIN plain}))
  IN joined(plain, locked)

fresh ==
  [open |-> TRUE, family |-> 0, param |-> Families[1].default, bits |-> <<>>,
   hss |-> [isHss |-> FALSE, hash |-> 0,
            levels |-> <<[height |-> DefaultHeight, winternitz |-> DefaultWinternitz]>>],
   picker |-> NoPicker, useExisting |-> FALSE,
   filename |-> <<shortName([name |-> Families[1].members[Families[1].default + 1], bits |-> 0])>>,
   auto |-> TRUE, editing |-> FALSE, cursor |-> 0, password |-> 0,
   existing |-> gatherExistingKeys, checked |-> [i \in DOMAIN IssuedObjects |-> TRUE],
   column |-> 0, optionField |-> 0, issuedIdx |-> 0]

StartRekey == pubkey' = fresh /\ UNCHANGED <<plan, onDisk, presses>>
CancelPubkey == pubkey' = NoDialog /\ UNCHANGED <<plan, onDisk, presses>>

-----------------------------------------------------------------------------
(* Keys.  What has few outcomes is free: moving about and the HSS/LMS      *)
(* editor.  Other changes are counted.                                     *)
move(d) == pubkey' = d /\ UNCHANGED <<plan, onDisk, presses>>
change(d) ==
  /\ presses < MaxPresses /\ presses' = presses + 1
  /\ pubkey' = d /\ UNCHANGED <<plan, onDisk>>

(* What depends on the algorithm: the default file name, and the rows of   *)
(* the keys that fit.                                                      *)
algorithmChanged(d) ==
  LET named == IF d.auto THEN [d EXCEPT !.filename = defaultFilename(d)] ELSE d
  IN [named EXCEPT !.optionField = least(@, maxOptionField(d))]

moveColumn(d, delta) ==
  [d EXCEPT !.column = clamped(@ + delta, 0, IF d.useExisting THEN 3 ELSE 4),
            !.optionField = least(@, maxOptionField(d))]

moveFamily(d, delta) ==
  LET new == clamped(d.family + delta, 0, Len(Families) - 1) IN
  IF new = d.family THEN d
  ELSE algorithmChanged([d EXCEPT !.family = new, !.param = Families[new + 1].default])

moveRow(d, delta) ==
  CASE d.column = 0 -> moveFamily(d, delta)
    [] d.column = 1 -> algorithmChanged([d EXCEPT !.param = clamped(@ + delta, 0, paramRows(d) - 1)])
    [] d.column = 2 -> [d EXCEPT !.optionField = clamped(@ + delta, 0, maxOptionField(d))]
    [] d.column = 3 /\ IssuedObjects # <<>> ->
         [d EXCEPT !.issuedIdx = clamped(@ + delta, 0, Len(IssuedObjects) - 1)]
    [] OTHER -> d

inHssEditor(d) == d.column = 1 /\ isHssFamily(d)
filenameFocused(d) == d.column = 4 /\ ~d.useExisting

toggled(d) ==
  IF d.column = 2 /\ d.optionField = 0
  THEN LET other == [d EXCEPT !.useExisting = ~@]
       IN [other EXCEPT !.optionField = IF other.useExisting /\ fittingKeys(other) # <<>> THEN 1 ELSE 0]
  ELSE IF d.column = 3 /\ d.issuedIdx < Len(IssuedObjects)
  THEN [d EXCEPT !.checked[d.issuedIdx + 1] = ~@]
  ELSE d

Toggle == ~inHssEditor(pubkey) /\ ~filenameFocused(pubkey) /\ change(toggled(pubkey))

(* A character goes to the size or to the password, or nowhere.            *)
InsertChar ==
  \/ /\ pubkey.column = 1 /\ customSelected(pubkey) /\ Len(pubkey.bits) < MaxDigits
     /\ \E c \in Digits : change(algorithmChanged([pubkey EXCEPT !.bits = Append(@, c)]))
  \/ /\ pubkey.column = 2 /\ ~pubkey.useExisting /\ pubkey.optionField = 1
     /\ change([pubkey EXCEPT !.password = @ + 1])

Backspace ==
  \/ /\ pubkey.column = 1 /\ customSelected(pubkey) /\ pubkey.bits # <<>>
     /\ change(algorithmChanged([pubkey EXCEPT !.bits = SubSeq(@, 1, Len(@) - 1)]))
  \/ /\ pubkey.column = 2 /\ ~pubkey.useExisting /\ pubkey.optionField = 1 /\ pubkey.password > 0
     /\ change([pubkey EXCEPT !.password = @ - 1])

(* The HSS/LMS editor.                                                     *)
withFocus(d) == [d EXCEPT !.param = least(@, hssFieldCount(d) - 1)]

addLevel(d) ==
  IF ~mayAddLevel(d) THEN d
  ELSE LET n == Len(d.hss.levels)
       IN [d EXCEPT !.hss.levels = Append(@, @[n]), !.param = 2 + 2 * n]

withoutLevel(levels, i) == SubSeq(levels, 1, i - 1) \o SubSeq(levels, i + 1, Len(levels))
removeLevel(d) ==
  LET f == hssFocused(d) IN
  IF f.kind \in {"height", "winternitz"} /\ Len(d.hss.levels) > 1
  THEN withFocus([d EXCEPT !.hss.levels = withoutLevel(@, f.level)])
  ELSE d

OpenPicker ==
  LET f == hssFocused(pubkey) IN
  /\ inHssEditor(pubkey) /\ f.kind # "add"
  /\ move([pubkey EXCEPT !.picker = [kind |-> f.kind, level |-> f.level, selected |-> hssValue(pubkey, f)]])

\* Mutant of AddLevel: the file name stays.
AddLevelKeepingName == inHssEditor(pubkey) /\ move(addLevel(pubkey))
AddLevel == inHssEditor(pubkey) /\ move(algorithmChanged(addLevel(pubkey)))
RemoveLevel == inHssEditor(pubkey) /\ move(algorithmChanged(removeLevel(pubkey)))

PickerMove ==
  /\ choices(pubkey.picker.kind) > 0
  /\ \E delta \in {-1, 1} :
       move([pubkey EXCEPT !.picker.selected = clamped(@ + delta, 0, choices(pubkey.picker.kind) - 1)])

(* In the LMS mode there is one level only.                                *)
withMode(d, isHss) ==
  withFocus([d EXCEPT !.hss.isHss = isHss, !.hss.levels = IF isHss THEN @ ELSE SubSeq(@, 1, 1)])

\* Mutant of confirmed: the levels are kept when the mode becomes LMS.
confirmedKeepingLevels(d) ==
  LET p == d.picker
      closed == [d EXCEPT !.picker = NoPicker]
  IN CASE p.kind = "mode" -> [closed EXCEPT !.hss.isHss = p.selected = 1]
       [] p.kind = "hash" -> [closed EXCEPT !.hss.hash = p.selected]
       [] p.kind = "height" -> [closed EXCEPT !.hss.levels[p.level].height = p.selected]
       [] p.kind = "winternitz" -> [closed EXCEPT !.hss.levels[p.level].winternitz = p.selected]
confirmed(d) ==
  LET p == d.picker
      closed == [d EXCEPT !.picker = NoPicker]
  IN CASE p.kind = "mode" -> withMode(closed, p.selected = 1)
       [] p.kind = "hash" -> [closed EXCEPT !.hss.hash = p.selected]
       [] p.kind = "height" -> [closed EXCEPT !.hss.levels[p.level].height = p.selected]
       [] p.kind = "winternitz" -> [closed EXCEPT !.hss.levels[p.level].winternitz = p.selected]

PickerKeys ==
  \/ PickerMove
  \/ move(algorithmChanged(confirmed(pubkey)))
  \/ move([pubkey EXCEPT !.picker = NoPicker])

(* The file name.                                                          *)
BeginEdit ==
  filenameFocused(pubkey) /\ move([pubkey EXCEPT !.editing = TRUE, !.cursor = Len(pubkey.filename)])

typedIn(d, c) ==
  [d EXCEPT !.filename = SubSeq(@, 1, d.cursor) \o <<typed(c)>> \o SubSeq(@, d.cursor + 1, Len(@)),
            !.cursor = @ + 1, !.auto = FALSE]
erased(d) ==
  [d EXCEPT !.filename = SubSeq(@, 1, d.cursor - 1) \o SubSeq(@, d.cursor + 1, Len(@)),
            !.cursor = @ - 1, !.auto = FALSE]

FilenameKeys ==
  \/ move([pubkey EXCEPT !.editing = FALSE])
  \/ \E n \in {pubkey.cursor - 1, pubkey.cursor + 1, 0, Len(pubkey.filename)} :
       move([pubkey EXCEPT !.cursor = clamped(n, 0, Len(pubkey.filename))])
  \/ Len(pubkey.filename) < MaxName /\ \E c \in Chars : change(typedIn(pubkey, c))
  \/ pubkey.cursor > 0 /\ change(erased(pubkey))

-----------------------------------------------------------------------------
(* Enter.                                                                  *)
isBlank(name) == \A i \in DOMAIN name : name[i] = typed(Blank)

(* signing_materials_for: the files that hold a key and can be read.       *)
materials(key) ==
  SelectSeq(KeyFiles \o [i \in DOMAIN Unlocked |-> [path |-> Unlocked[i].path, key |-> Unlocked[i].key]],
            LAMBDA k : k.key = key /\ k.path \in onDisk)

resigned(d) == {IssuedObjects[i] : i \in {j \in DOMAIN IssuedObjects : d.checked[j]}}

planOfExisting(d) ==
  LET chosen == selectedExisting(d)[1]
  IN [kind |-> "existing", alg |-> alg(d), key |-> chosen.key, path |-> chosen.path, resign |-> resigned(d)]

planOfNew(d) ==
  [kind |-> "new", alg |-> alg(d), hss |-> IF isHssFamily(d) THEN <<d.hss>> ELSE <<>>,
   path |-> d.filename, encrypted |-> d.password > 0, resign |-> resigned(d)]

submit(p) == plan' = p /\ pubkey' = NoDialog /\ UNCHANGED <<onDisk, presses>>

(* What is missing is told, and the dialog stays open.                     *)
SubmitPubkey ==
  \/ /\ pubkey.useExisting /\ selectedExisting(pubkey) # <<>>
     /\ materials(selectedExisting(pubkey)[1].key) # <<>>
     /\ submit(planOfExisting(pubkey))
  \/ /\ ~pubkey.useExisting
     /\ alg(pubkey).name = Custom => alg(pubkey).bits \in MinBits .. MaxBits
     /\ ~isBlank(pubkey.filename) /\ pubkey.filename \notin onDisk
     /\ submit(planOfNew(pubkey))

DialogKeys ==
  \/ CancelPubkey \/ SubmitPubkey
  \/ \E delta \in {-1, 1} : move(moveColumn(pubkey, delta)) \/ move(moveRow(pubkey, delta))
  \/ AddLevel \/ RemoveLevel
  \/ BeginEdit \/ OpenPicker \/ Toggle
  \/ InsertChar \/ Backspace

PubkeyKeys ==
  /\ pubkey.open
  /\ IF pubkey.picker # NoPicker THEN PickerKeys
     ELSE IF pubkey.editing THEN FilenameKeys ELSE DialogKeys

(* The plan has been carried out; the new key's file may have been written.*)
Rekeyed ==
  /\ plan # NoPlan /\ plan' = NoPlan /\ UNCHANGED pubkey
  /\ \/ UNCHANGED <<onDisk, presses>>
     \/ /\ plan.kind = "new" /\ presses < MaxPresses /\ presses' = presses + 1
        /\ onDisk' = onDisk \cup {plan.path}

(* Another program removes or creates a key's file.                        *)
filesOf(keys) == {keys[i].path : i \in DOMAIN keys}
OtherProgram ==
  /\ presses < MaxPresses /\ presses' = presses + 1 /\ UNCHANGED <<pubkey, plan>>
  /\ \E p \in Vanishing :
       onDisk' = IF p \in onDisk THEN onDisk \ {p} ELSE onDisk \cup {p}

KeyDialogInit ==
  pubkey = NoDialog /\ plan = NoPlan /\ onDisk = filesOf(KeyFiles) \cup filesOf(Unlocked) /\ presses = 0

KeyDialogNext ==
  \/ ~pubkey.open /\ plan = NoPlan /\ StartRekey
  \/ PubkeyKeys \/ Rekeyed \/ OtherProgram

KeyDialogSpec == KeyDialogInit /\ [][KeyDialogNext]_keyVars

-----------------------------------------------------------------------------
(* As long as the user has not edited the file name, it is the one the     *)
(* chosen algorithm and parameters give (filename_auto), by whatever path  *)
(* of the dialog these were changed.                                       *)
FileNameFollows == pubkey.open /\ pubkey.auto => pubkey.filename = defaultFilename(pubkey)

(* Every index of the dialog is that of a row it has: the rows change with *)
(* the family, the mode, the levels, the key source and the algorithm.     *)
ParameterExists(d) == d.param < paramRows(d)
OptionExists(d) == d.optionField <= maxOptionField(d)
LevelsFit(d) ==
  /\ Len(d.hss.levels) \in 1 .. HssMaxLevels
  /\ ~d.hss.isHss => Len(d.hss.levels) = 1
PickerIsOfTheFocus(d) ==
  d.picker # NoPicker =>
    /\ inHssEditor(d)
    /\ hssFocused(d) = field(d.picker.kind, d.picker.level)
    /\ d.picker.selected < choices(d.picker.kind)
FileNameIsEditable(d) ==
  d.editing => filenameFocused(d) /\ d.cursor \in 0 .. Len(d.filename)

CursorsOnRows ==
  pubkey.open =>
    /\ ParameterExists(pubkey) /\ OptionExists(pubkey) /\ LevelsFit(pubkey)
    /\ PickerIsOfTheFocus(pubkey) /\ FileNameIsEditable(pubkey)

(* A submitted existing key signs with the chosen algorithm, and when a    *)
(* key's row has the focus it is that key.                                 *)
SubmittedKeyFits ==
  [][plan' # plan /\ plan'.kind = "existing" =>
       /\ KeyAlg[plan'.key] = SigAlg[alg(pubkey).name]
       /\ pubkey.optionField > 0 => plan'.key = fittingKeys(pubkey)[pubkey.optionField].key]_keyVars

(* "select an existing key that fits the chosen algorithm": a key is only  *)
(* used when its row has the focus.                                        *)
SubmitsASelectedKey ==
  [][plan' # plan /\ plan'.kind = "existing" => pubkey.optionField > 0]_keyVars
=============================================================================
