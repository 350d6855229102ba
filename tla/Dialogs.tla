------------------------------ MODULE Dialogs ------------------------------
(***************************************************************************)
(* How the dialogs are reached (edit_selected, the edit menu and the menu  *)
(* of cryptographic adjustments in src/app.rs): an open certificate, an    *)
(* element of it, and one dialog at a time.  The editors of an element's   *)
(* value, its type and its octets are in other modules.                    *)
(***************************************************************************)
EXTENDS Forms, KeyDialog

CONSTANT SingleFile  \* whether the editor was started on one file

VARIABLE menu  \* the open menu: its items and the selected one

dialogVars == <<roots, form, changes, pubkey, plan, onDisk, presses, menu>>

NoMenu == [items |-> <<>>, selected |-> 0, at |-> <<>>]
forms == <<roots, form, changes>>

browsing == form = NoForm /\ ~pubkey.open /\ plan = NoPlan /\ menu = NoMenu

-----------------------------------------------------------------------------
(* x509::parse_signable and try_certificate: where the fields of a         *)
(* certificate are.                                                        *)
holdsAlgorithm(n) ==
  /\ isSequence(n) /\ n.children # <<>>
  /\ ~n.children[1].constructed /\ isUniversal(n.children[1], Oid) /\ oidArcs(n.children[1].value).ok

isBits(n) == ~n.constructed /\ isUniversal(n, BitString)
explicitVersion(n) == n.class = "context" /\ n.tag = <<>> /\ n.constructed

signed(forest) ==
  /\ Len(forest) = 1 /\ isSequence(forest[1]) /\ Len(forest[1].children) = 3
  /\ holdsAlgorithm(forest[1].children[2]) /\ isBits(forest[1].children[3])
  /\ forest[1].children[1].constructed

isSpki(n) == Len(n.children) = 2 /\ holdsAlgorithm(n.children[1]) /\ isBits(n.children[2])

spkiField(fields) == IF fields # <<>> /\ explicitVersion(fields[1]) THEN 7 ELSE 6
isTbsCertificate(fields) ==
  \E spki \in {spkiField(fields)} :
    /\ Len(fields) >= spki
    /\ \A i \in spki - 3 .. spki : isSequence(fields[i])
    /\ isSpki(fields[spki])
    /\ ~fields[spki - 5].constructed /\ isUniversal(fields[spki - 5], IntegerTag)

(* The path of the subjectPublicKeyInfo, or none.                          *)
spkiPath(forest) ==
  IF signed(forest) /\ isTbsCertificate(forest[1].children[1].children)
  THEN <<1, 1, spkiField(forest[1].children[1].children)>> ELSE <<>>

onSpki(selected) == spkiPath(roots) = selected
formsFor(selected) == SelectSeq(<<"bc", "ku", "eku">>, LAMBDA kind : extensionPath(selected, kind) # <<>>)

mayRekey == ~SingleFile /\ spkiPath(roots) # <<>>

-----------------------------------------------------------------------------
(* Bound: a behaviour changes something in one kind of dialog only.        *)
StartOnlyRekey == changes = 0 /\ StartRekey /\ UNCHANGED forms
StartOnlyForm(selected, kind) == presses = 0 /\ StartForm(selected, kind) /\ UNCHANGED keyVars

(* 'e': the first dialog that fits the selected element.                   *)
EditSelected ==
  /\ browsing /\ UNCHANGED menu
  /\ \E selected \in paths(roots) : \E offers \in {formsFor(selected)} :
       IF ~SingleFile /\ onSpki(selected) THEN StartOnlyRekey
       ELSE offers # <<>> /\ StartOnlyForm(selected, offers[1])

(* 'E' lists the ways to edit the selected element, 'z' what can be done   *)
(* about the signature of the document.                                    *)
Editors == <<"type", "hex", "base64", "raw", "retag">>

openMenu(selected, items) ==
  menu' = [items |-> items, selected |-> 0, at |-> selected] /\ UNCHANGED <<forms, keyVars>>

OpenEditMenu ==
  /\ browsing
  /\ \E selected \in paths(roots) :
       openMenu(selected,
         Editors \o formsFor(selected) \o (IF ~SingleFile /\ onSpki(selected) THEN <<"rekey">> ELSE <<>>))

OpenCryptoMenu == browsing /\ mayRekey /\ openMenu(<<>>, <<"resign", "rekey">>)

confirmItem(item) ==
  /\ menu' = NoMenu
  /\ \/ item \in Kinds /\ StartOnlyForm(menu.at, item)
     \/ item = "rekey" /\ mayRekey /\ StartOnlyRekey
     \/ item \notin Kinds \cup {"rekey"} /\ UNCHANGED <<forms, keyVars>>

MenuKeys ==
  /\ menu # NoMenu
  /\ \/ /\ \E delta \in {-1, 1} : menu' = [menu EXCEPT !.selected = (@ + delta + Len(menu.items)) % Len(menu.items)]
        /\ UNCHANGED <<forms, keyVars>>
     \/ \E i \in {menu.selected + 1} \cup DOMAIN menu.items : confirmItem(menu.items[i])  \* Enter, or a digit
     \/ menu' = NoMenu /\ UNCHANGED <<forms, keyVars>>

-----------------------------------------------------------------------------
Init ==
  /\ \E file \in Documents : roots = parse(file).nodes
  /\ form = NoForm /\ changes = 0 /\ menu = NoMenu /\ KeyDialogInit

Next ==
  \/ EditSelected \/ OpenEditMenu \/ OpenCryptoMenu \/ MenuKeys
  \/ FormKeys /\ UNCHANGED <<keyVars, menu>>
  \/ (PubkeyKeys \/ Rekeyed \/ (pubkey.open /\ OtherProgram)) /\ UNCHANGED <<forms, menu>>

Spec == Init /\ [][Next]_dialogVars

-----------------------------------------------------------------------------
applied == form # NoForm /\ form' = NoForm /\ roots' # roots
oldValue == nodeAt(roots, form.valuePath)
newValue == nodeAt(roots', form.valuePath)

(* What a form says when it is applied is what the extension says from     *)
(* then on, as X.509 and DER have it (commit_basic_constraints,            *)
(* commit_key_usage, commit_ext_key_usage and their encode_der).  All else *)
(* in the document is what it was, and so is the extension when nothing    *)
(* was changed in the form: a value that was well-formed, octet for octet, *)
(* and of another value what the form knows of it.  A path length that is  *)
(* no number of 32 bits says 0.                                            *)
AppliedIsShown ==
  [][applied =>
       /\ meaning(form.kind, newValue) = says(form)
       /\ wellFormed(form.kind, newValue)
       /\ untouched(form) => /\ kept(form.kind, newValue) = kept(form.kind, oldValue)
                             /\ ~wellFormed(form.kind, oldValue)
       /\ around(roots', form.valuePath) = around(roots, form.valuePath)]_dialogVars

-----------------------------------------------------------------------------
(* What the source says of the program, and the program does not do.       *)

(* The path length of a CA is written as it stands in the field, and an    *)
(* empty field as 0 (path_len_value).                                      *)
PathLenIsWritten ==
  [][applied /\ form.kind = "bc" /\ form.ca /\ form.present =>
       parseBasicConstraints(newValue).pathLen = <<IF form.pathLen = <<>> THEN <<0>> ELSE form.pathLen>>]_dialogVars

(* A form that is applied as it was opened changes nothing.                *)
UntouchedFormsChangeNothing == [][applied => ~untouched(form)]_dialogVars
=============================================================================
