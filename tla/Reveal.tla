------------------------------- MODULE Reveal -------------------------------
(***************************************************************************)
(* Revealed content: the plaintext of an encrypted private key, of the     *)
(* regions of a PKCS#12 container and of an encrypted CMS message, shown   *)
(* as virtual rows below its ciphertext, edited there and written back     *)
(* encrypted (src/app.rs with src/pkcs8.rs and src/pkcs12.rs).             *)
(*                                                                         *)
(* Abstractions.  A container is the sequence of its encrypted regions,    *)
(* its MacData, and "clear": what it holds outside of them.  A ciphertext  *)
(* remembers what was encrypted, under which password and IV.  A plaintext *)
(* is the forest of its roots, each with a body that stands for everything *)
(* below it: the key, or the certificate.  A CMS message is encrypted to a *)
(* key, which takes the place of the password.                             *)
(***************************************************************************)
EXTENDS Naturals, FiniteSets, Sequences, SequencesExt, Positions

CONSTANTS Files, Keys, Passwords, Clear,
          Startup,     \* what each file holds when the program starts
          OuterEdits,  \* the edits made to the serialized document: shape and kind
          MaxEdits,    \* bound: edits of a session
          NoFile, NoReveal, NoPassword

IVs == {0, 1}
Node == [sequence : BOOLEAN, body : Keys]
Secret == UNION {[1 .. n -> Node] : n \in 0 .. 2}
Cipher == [password : Passwords \cup Keys \cup {NoPassword}, iv : IVs, plain : Secret]

(* An algorithm identifier: PBES2 with parameters, a PRF and a cipher that *)
(* are implemented; PBES2 without; another algorithm.                      *)
Schemes == {"supported", "unsupported", "other"}
Region == [kind : {"ShroudedKey", "EncryptedContent"}, scheme : Schemes, iv : IVs, cipher : Cipher]
Shapes == {"pkcs8", "pkcs12", "cms", "key", "other"}
Macs == {"absent", "supported", "unsupported"}

(* What a MacData protects: the AuthenticatedSafe, with everything in it.  *)
authSafe(doc) == [regions |-> doc.regions, clear |-> doc.clear]
Digest == [password : Passwords, over : [regions : Seq(Region), clear : Clear \cup Keys]]
Container == {c \in [shape : Shapes, regions : Seq(Region), clear : Clear \cup Keys,
                     mac : Macs, digest : Digest] : c.mac # "absent" => c.shape = "pkcs12"}

ASSUME FilesAssumption ==
  Files # {} /\ NoFile \notin Files /\ Startup \in [Files -> Container]
ASSUME MarkersAssumption ==
  NoPassword \notin Passwords /\ Passwords \cap Keys = {} /\ NoPassword \notin Keys
ASSUME EditsAssumption ==
  /\ OuterEdits \subseteq
       Shapes \X {"clear", "iv", "damage", "scheme", "remove", "move", "mac", "digest"}
  /\ MaxEdits \in Nat

VARIABLES
  disk, file, roots, dirty,  \* the files; the open one, its document
  mode,                      \* "Browse", "Password" or "EditMenu"
  decrypted,                 \* App::decrypted
  pkcs12,                    \* App::pkcs12
  cmsReveal,                 \* App::cms_reveal
  unlockedKeys, retainedPasswords,
  edits,                     \* how many edits were made
  failedUpdate,              \* history: an edit could not be encrypted
  author                     \* history: what changed the document last

revealed == <<decrypted, pkcs12, cmsReveal>>
remembered == <<unlockedKeys, retainedPasswords>>
history == <<failedUpdate, author>>
vars == <<disk, file, roots, dirty, mode, revealed, remembered, edits, history>>

-----------------------------------------------------------------------------
(* Decoding.  A shape that is one of ours and cannot be used is an error.  *)
isSequence(forest) == Len(forest) = 1 /\ forest[1].sequence

pbes2(region) == region.scheme = "supported"

(* Whatever is not PBES2 makes an encrypted key unsupported ...            *)
pkcs8Parse(doc) ==
  IF doc.shape # "pkcs8" \/ doc.regions = <<>> THEN "none"
  ELSE IF pbes2(doc.regions[1]) THEN "ok" ELSE "error"

(* ... and is left out of the regions pkcs12::parse records, which are in  *)
(* the order of the document.                                              *)
pbes2At(doc) == {i \in DOMAIN doc.regions : pbes2(doc.regions[i])}
pbes2Regions(doc) == inOrder(pbes2At(doc))

pkcs12Parse(doc) ==
  IF doc.shape # "pkcs12" THEN "none" ELSE IF pbes2At(doc) = {} THEN "error" ELSE "ok"

findEnveloped(doc) == doc.shape = "cms" /\ doc.regions # <<>>

(* Decrypting: the padding, or the shape of the plaintext, gives a wrong   *)
(* password, IV or ciphertext away.  A message may hold anything.          *)
opens(region, password) == region.cipher.password = password /\ region.cipher.iv = region.iv
decrypts(region, password) == opens(region, password) /\ isSequence(region.cipher.plain)

(* Encrypting, with a fresh IV.                                            *)
encrypted(region, password, plain, iv) ==
  [region EXCEPT !.iv = iv, !.cipher = [password |-> password, iv |-> iv, plain |-> plain]]

macEditable(doc) == doc.mac # "unsupported"

(* The public key of a revealed private key: nothing below the bags of an  *)
(* EncryptedData is looked at.                                             *)
publicIds(region, forest) == IF region.kind = "ShroudedKey" THEN {forest[1].body} ELSE {}

-----------------------------------------------------------------------------
(* Re-deriving what is shown from the document and the retained password.  *)
revealPkcs8(doc, password) ==
  IF pkcs8Parse(doc) = "ok" /\ decrypts(doc.regions[1], password)
  THEN [password |-> password, roots |-> doc.regions[1].cipher.plain]
  ELSE NoReveal

revealRegion(doc, i) == [at |-> i, roots |-> doc.regions[i].cipher.plain]

revealPkcs12(doc, at, password) ==
  IF at = {} THEN NoReveal
  ELSE [password |-> password, editable |-> macEditable(doc),
        regions |-> [k \in 1 .. Cardinality(at) |-> revealRegion(doc, inOrder(at)[k])]]

\* Mutant of refreshDecrypted: the shown key outlives the ciphertext.
keepDecrypted(doc, shown) == shown

refreshDecrypted(doc, shown) ==
  IF shown = NoReveal THEN NoReveal ELSE revealPkcs8(doc, shown.password)

(* Every region has to decrypt: a container with one that does not is      *)
(* locked again.                                                           *)
refreshPkcs12(doc, shown) ==
  IF shown = NoReveal THEN NoReveal
  ELSE IF pkcs12Parse(doc) # "ok" THEN NoReveal
  ELSE IF \E i \in pbes2At(doc) : ~decrypts(doc.regions[i], shown.password)
       THEN NoReveal
       ELSE revealPkcs12(doc, pbes2At(doc), shown.password)

-----------------------------------------------------------------------------
TypeOK ==
  /\ disk \in [Files -> Container]
  /\ file \in Files \cup {NoFile}
  /\ roots \in Container
  /\ dirty \in BOOLEAN
  /\ mode \in {"Browse", "Password", "EditMenu"}
  /\ decrypted \in [password : Passwords, roots : Secret] \cup {NoReveal}
  /\ pkcs12 \in [password : Passwords, editable : BOOLEAN,
                 regions : Seq([at : Nat, roots : Secret])] \cup {NoReveal}
  /\ cmsReveal \in [at : Nat, roots : Secret] \cup {NoReveal}
  /\ unlockedKeys \subseteq Files \X Keys
  /\ retainedPasswords \in [Files -> Passwords \cup {NoPassword}]
  /\ edits \in 0 .. MaxEdits
  /\ failedUpdate \in BOOLEAN
  /\ author \in {"nobody", "inside", "outside"}

Nothing(doc) == [doc EXCEPT !.shape = "other", !.regions = <<>>, !.mac = "absent"]

Init ==
  /\ disk = Startup
  /\ file = NoFile
  /\ roots = Nothing(Startup[CHOOSE f \in Files : TRUE])
  /\ dirty = FALSE
  /\ mode = "Browse"
  /\ decrypted = NoReveal /\ pkcs12 = NoReveal /\ cmsReveal = NoReveal
  /\ unlockedKeys = {}
  /\ retainedPasswords = [f \in Files |-> NoPassword]
  /\ edits = 0
  /\ failedUpdate = FALSE /\ author = "nobody"

(* App::open_file.  What was unlocked stays unlocked for the session.      *)
OpenFile(f) ==
  /\ mode = "Browse"
  /\ file' = f
  /\ roots' = disk[f]
  /\ dirty' = FALSE
  /\ decrypted' = NoReveal /\ pkcs12' = NoReveal /\ cmsReveal' = NoReveal
  /\ author' = "nobody"
  /\ UNCHANGED <<disk, mode, remembered, edits, failedUpdate>>

(* App::save, when the write succeeds.                                     *)
Save ==
  /\ mode = "Browse"
  /\ file # NoFile
  /\ disk' = [disk EXCEPT ![file] = roots]
  /\ dirty' = FALSE
  /\ UNCHANGED <<file, roots, mode, revealed, remembered, edits, history>>

-----------------------------------------------------------------------------
(* 'z': both kinds of containers prompt for a password; a message offers   *)
(* its own menu.                                                           *)
StartDecrypt ==
  /\ mode = "Browse"
  /\ file # NoFile
  /\ mode' = IF pkcs8Parse(roots) = "ok" THEN "Password"
             ELSE IF pkcs8Parse(roots) = "error" THEN mode
             ELSE IF pkcs12Parse(roots) = "ok" THEN "Password"
             ELSE IF pkcs12Parse(roots) = "error" THEN mode
             ELSE IF findEnveloped(roots) THEN "EditMenu" ELSE mode
  /\ UNCHANGED <<disk, file, roots, dirty, revealed, remembered, edits, history>>

Cancel ==
  /\ mode \in {"Password", "EditMenu"}
  /\ mode' = "Browse"
  /\ UNCHANGED <<disk, file, roots, dirty, revealed, remembered, edits, history>>

(* App::cache_unlocked_keys and RetainedPasswords::set, for the open file. *)
remember(ids, password) ==
  /\ unlockedKeys' = {u \in unlockedKeys : u[1] # file} \cup {<<file, id>> : id \in ids}
  /\ retainedPasswords' = [retainedPasswords EXCEPT ![file] = password]

SubmitPkcs8(password) ==
  LET shown == revealPkcs8(roots, password) IN
  /\ decrypted' = shown
  /\ IF shown = NoReveal THEN UNCHANGED remembered
     ELSE remember({shown.roots[1].body}, password)
  /\ UNCHANGED <<pkcs12, cmsReveal>>

(* The regions the password opens are shown, and the others left out.      *)
SubmitPkcs12(password) ==
  LET opened == {i \in pbes2At(roots) : decrypts(roots.regions[i], password)}
      ids == UNION {publicIds(roots.regions[i], roots.regions[i].cipher.plain) : i \in opened}
  IN
  /\ pkcs12' = revealPkcs12(roots, opened, password)
  /\ IF opened = {} THEN UNCHANGED remembered ELSE remember(ids, password)
  /\ UNCHANGED <<decrypted, cmsReveal>>

SubmitPassword(password) ==
  /\ mode = "Password"
  /\ mode' = "Browse"
  /\ IF pkcs8Parse(roots) = "ok" THEN SubmitPkcs8(password)
     ELSE IF pkcs12Parse(roots) = "ok" THEN SubmitPkcs12(password)
     ELSE UNCHANGED <<revealed, remembered>>
  /\ UNCHANGED <<disk, file, roots, dirty, edits, history>>

(* The private keys at hand: the plaintext key files, and the key each     *)
(* unlocked file holds now.                                                *)
decryptKeyPkcs8(f, id) ==
  LET doc == disk[f]
      password == retainedPasswords[f]
  IN IF password = NoPassword THEN {}
     ELSE IF pkcs8Parse(doc) = "ok"
          THEN {k \in Keys : decrypts(doc.regions[1], password) /\ k = doc.regions[1].cipher.plain[1].body}
     ELSE IF pkcs12Parse(doc) = "ok"
          THEN {k \in {id} : \E i \in pbes2At(doc) :
                  decrypts(doc.regions[i], password)
                    /\ k \in publicIds(doc.regions[i], doc.regions[i].cipher.plain)}
     ELSE {}

availableDecryptionKeys ==
  {disk[f].clear : f \in {g \in Files : disk[g].shape = "key"}}
    \cup UNION {decryptKeyPkcs8(u[1], u[2]) : u \in unlockedKeys}

(* The menu's "Decrypt message": with whichever key fits.                  *)
DecryptCmsMessage ==
  /\ mode = "EditMenu"
  /\ mode' = "Browse"
  /\ cmsReveal' =
       IF findEnveloped(roots) /\ \E k \in availableDecryptionKeys : opens(roots.regions[1], k)
       THEN revealRegion(roots, 1) ELSE cmsReveal
  /\ UNCHANGED <<disk, file, roots, dirty, decrypted, pkcs12, remembered, edits, history>>

-----------------------------------------------------------------------------
(* App::encrypt_decrypted_tree and App::encrypt_pkcs12_region: the edited  *)
(* forest back into the document, or an error.  The region is found again  *)
(* by its index among those shown.                                         *)
noUpdate(doc) == [ok |-> FALSE, doc |-> doc]

encryptDecryptedTree(doc, shown, iv) ==
  IF pkcs8Parse(doc) # "ok" \/ ~isSequence(shown.roots) THEN noUpdate(doc)
  ELSE [ok |-> TRUE,
        doc |-> [doc EXCEPT !.regions[1] = encrypted(@, shown.password, shown.roots, iv)]]

macOver(doc, password, over) ==
  IF doc.mac # "supported" THEN doc
  ELSE [doc EXCEPT !.digest = [password |-> password, over |-> authSafe(over)]]

\* Mutant of encryptPkcs12Region: the MAC is computed before the ciphertext is replaced.
encryptPkcs12RegionMacFirst(doc, shown, idx, iv) ==
  LET region == shown.regions[idx]
      at == pbes2Regions(doc)[idx]
      updated == [doc EXCEPT !.regions[at] = encrypted(@, shown.password, region.roots, iv)]
  IN [ok |-> TRUE, doc |-> macOver(updated, shown.password, doc)]

\* Mutant of encryptPkcs12Region: the index counts every region of the file.
encryptPkcs12RegionByPosition(doc, shown, idx, iv) ==
  LET region == shown.regions[idx]
      updated == [doc EXCEPT !.regions[idx] = encrypted(@, shown.password, region.roots, iv)]
  IN [ok |-> TRUE, doc |-> macOver(updated, shown.password, updated)]

encryptPkcs12Region(doc, shown, idx, iv) ==
  LET region == shown.regions[idx] IN
  IF \/ pkcs12Parse(doc) # "ok"
     \/ doc.mac = "unsupported"
     \/ idx > Cardinality(pbes2At(doc))
     \/ ~isSequence(region.roots)
  THEN noUpdate(doc)
  ELSE LET at == pbes2Regions(doc)[idx]
           updated == [doc EXCEPT !.regions[at] = encrypted(@, shown.password, region.roots, iv)]
       IN [ok |-> TRUE, doc |-> macOver(updated, shown.password, updated)]

(* App::rebuild after an edit of the serialized document, which re-derives *)
(* both reveals, or of a revealed one, which writes it back first and then *)
(* re-derives the PKCS#12 one.  The CMS reveal never survives an edit.     *)
rebuildOuter(doc) ==
  /\ roots' = doc
  /\ decrypted' = refreshDecrypted(doc, decrypted)
  /\ pkcs12' = refreshPkcs12(doc, pkcs12)
  /\ cmsReveal' = NoReveal
  /\ author' = "outside"
  /\ UNCHANGED failedUpdate

rebuildInner(update, newDecrypted, newPkcs12) ==
  /\ roots' = update.doc
  /\ decrypted' = newDecrypted
  /\ pkcs12' = IF update.ok THEN refreshPkcs12(update.doc, newPkcs12) ELSE newPkcs12
  /\ cmsReveal' = NoReveal
  /\ failedUpdate' = (failedUpdate \/ ~update.ok)
  /\ author' = "inside"

(* The structural operations and the editors, on a revealed forest.  At    *)
(* its root they have to leave one SEQUENCE.                               *)
InnerEdits == {"content", "insert", "retag", "delete"}

\* Mutant of refusedAtRoot: the root of a revealed forest can be deleted.
refusedButDelete(edit) == edit \in {"insert", "retag"}
refusedAtRoot(edit) == edit \in {"insert", "retag", "delete"}

edited(forest, edit, atRoot, body) ==
  IF ~atRoot \/ edit = "content" THEN [forest EXCEPT ![1].body = body]
  ELSE IF edit = "insert" THEN Append(forest, [sequence |-> TRUE, body |-> body])
  ELSE IF edit = "retag" THEN [forest EXCEPT ![1].sequence = FALSE]
  ELSE <<>>

counted == edits < MaxEdits /\ edits' = edits + 1

EditDecrypted(edit, atRoot, body) ==
  /\ mode = "Browse"
  /\ decrypted # NoReveal
  /\ ~(atRoot /\ refusedAtRoot(edit))
  /\ LET shown == [decrypted EXCEPT !.roots = edited(@, edit, atRoot, body)] IN
     \E iv \in IVs : rebuildInner(encryptDecryptedTree(roots, shown, iv), shown, pkcs12)
  /\ counted
  /\ dirty' = TRUE
  /\ UNCHANGED <<disk, file, mode, remembered>>

(* App::reject_uneditable_reveal refuses when the MAC cannot follow.       *)
EditPkcs12(idx, edit, atRoot, body) ==
  /\ mode = "Browse"
  /\ pkcs12 # NoReveal
  /\ pkcs12.editable
  /\ idx \in DOMAIN pkcs12.regions
  /\ ~(atRoot /\ refusedAtRoot(edit))
  /\ LET shown == [pkcs12 EXCEPT !.regions[idx].roots = edited(@, edit, atRoot, body)]
     IN \E iv \in IVs : rebuildInner(encryptPkcs12Region(roots, shown, idx, iv), decrypted, shown)
  /\ counted
  /\ dirty' = TRUE
  /\ UNCHANGED <<disk, file, mode, remembered>>

(* An edit of the serialized document: of what is not encrypted, of an IV, *)
(* a ciphertext or a scheme, of the regions' places, of the MacData.       *)
misfit(digest, clear) == [digest EXCEPT !.over = [@ EXCEPT !.clear = clear]]

outerEdited(doc, kind, i, clear, scheme) ==
  IF kind = "clear" THEN [doc EXCEPT !.clear = clear]
  ELSE IF kind = "iv" THEN [doc EXCEPT !.regions[i].iv = 1 - @]
  ELSE IF kind = "damage" THEN [doc EXCEPT !.regions[i].cipher.password = NoPassword]
  ELSE IF kind = "scheme" THEN [doc EXCEPT !.regions[i].scheme = scheme]
  ELSE IF kind = "remove" THEN [doc EXCEPT !.regions = RemoveAt(@, i)]
  ELSE IF kind = "move" THEN [doc EXCEPT !.regions = Reverse(@)]
  ELSE IF kind = "mac" THEN [doc EXCEPT !.mac = "unsupported"]
  ELSE [doc EXCEPT !.digest = misfit(@, clear)]

EditDocument(kind, i, clear, scheme) ==
  /\ mode = "Browse"
  /\ file # NoFile
  /\ <<roots.shape, kind>> \in OuterEdits
  /\ i \in DOMAIN roots.regions
  /\ kind \in {"mac", "digest"} => roots.mac = "supported"
  /\ rebuildOuter(outerEdited(roots, kind, i, clear, scheme))
  /\ counted
  /\ dirty' = TRUE
  /\ UNCHANGED <<disk, file, mode, remembered>>

Next ==
  \/ \E f \in Files : OpenFile(f)
  \/ Save
  \/ StartDecrypt
  \/ Cancel
  \/ \E p \in Passwords : SubmitPassword(p)
  \/ DecryptCmsMessage
  \/ \E e \in InnerEdits, r \in BOOLEAN, b \in Keys : EditDecrypted(e, r, b)
  \/ \E i \in 1 .. 2, e \in InnerEdits, r \in BOOLEAN, b \in Keys : EditPkcs12(i, e, r, b)
  \/ \E e \in OuterEdits, i \in 1 .. 2, c \in Clear, a \in Schemes : EditDocument(e[2], i, c, a)

Spec == Init /\ [][Next]_vars

-----------------------------------------------------------------------------
(* What is shown is what the document holds: the two representations stay  *)
(* synchronized through every edit of either one, and what can no longer   *)
(* be kept so is locked again (App::rebuild and its refreshes).            *)
ShownIsEncrypted ==
  /\ decrypted # NoReveal => decrypted = revealPkcs8(roots, decrypted.password)
  /\ pkcs12 # NoReveal =>
       /\ pkcs12.editable = macEditable(roots)
       /\ \A k \in DOMAIN pkcs12.regions :
            LET at == pkcs12.regions[k].at IN
            /\ at \in pbes2At(roots)
            /\ decrypts(roots.regions[at], pkcs12.password)
            /\ pkcs12.regions[k] = revealRegion(roots, at)
  /\ cmsReveal # NoReveal => findEnveloped(roots) /\ cmsReveal = revealRegion(roots, 1)

(* The edits that are offered never meet an error on the way back into the *)
(* document: what they leave is one SEQUENCE, the region is still there,   *)
(* and the MAC can follow.  App::rebuild would return early from such an   *)
(* error, with the rows of the tree as they were before the edit.          *)
UpdatesSucceed == ~failedUpdate

(* After an edit of a revealed region the MAC is that of the container as  *)
(* it is now, keyed with a password that opens a region of it: the one     *)
(* that the edit was encrypted with (App::encrypt_pkcs12_region).  After   *)
(* an edit of the serialized document it is whatever the user left.        *)
macFits == roots.mac = "supported" => roots.digest.over = authSafe(roots)
macOpens == \E i \in pbes2At(roots) : decrypts(roots.regions[i], roots.digest.password)

MacFollowsTheEdit ==
  author = "inside" /\ roots.mac = "supported" => macFits /\ macOpens

(* An edit of revealed content replaces the ciphertext it was revealed     *)
(* from, in place, and no other (App::encrypt_pkcs12_region,               *)
(* App::encrypt_decrypted_tree).                                           *)
shownAt ==
  (IF decrypted = NoReveal THEN {} ELSE {1})
    \cup (IF pkcs12 = NoReveal THEN {} ELSE {pkcs12.regions[k].at : k \in DOMAIN pkcs12.regions})
    \cup (IF cmsReveal = NoReveal THEN {} ELSE {1})

EditsWhatIsShown ==
  [][author' = "inside" =>
       \A i \in DOMAIN roots.regions : roots'.regions[i] # roots.regions[i] => i \in shownAt]_vars

(* The regions of a container that a reveal of a part of it leaves out.    *)
lockedAt == IF pkcs12 = NoReveal THEN {} ELSE pbes2At(roots) \ shownAt

(* The container is a Vault: this is all an edit, a password, a menu or    *)
(* another document do to it, also where a password opens a part only.     *)
V == INSTANCE Vault WITH
  secrets <- [i \in DOMAIN roots.regions |-> roots.regions[i].cipher.plain],
  shown <- shownAt,
  locked <- lockedAt,
  fits <- macFits

IsAVault == V!Spec
=============================================================================
