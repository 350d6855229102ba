----------------------------- MODULE Relations -----------------------------
(***************************************************************************)
(* Signature status, relation arrows and certification path: what the      *)
(* program derives from an index of the directory's certificates, CRLs,    *)
(* messages and keys (src/app.rs with src/x509.rs, src/verify.rs and       *)
(* src/pathval.rs).  The index is a snapshot of the last scan, except for  *)
(* the entry of the open document, which follows what is edited.           *)
(*                                                                         *)
(* Abstractions.  A file or document is a record of what the parsers take  *)
(* from it.  A signature remembers who made it over what.  A directory is  *)
(* scanned at once, in the order ScanOrder; the algorithms that are        *)
(* implemented are one.                                                    *)
(***************************************************************************)
EXTENDS Naturals, FiniteSets, Sequences, SequencesExt, Positions

CONSTANTS Files, Keys, Names,
          ScanOrder,   \* the files, as read_dir lists them
          Startups,    \* what they may hold when the program starts
          Variants,    \* what an edit, or another program, makes of a content
          MaxChanges,  \* bound: edits, and writes of other programs
          NoFile, Absent, None

Serials == 1 .. 2
Signature == [by : Keys, over : [body : Names \cup Keys \cup SUBSET Serials, issuer : Names]]

(* x509::Signable.  A message is signed over its messageDigest attribute;  *)
(* its signer is named by issuer and serial.                               *)
Certificate == [kind : {"certificate"}, subject : Names, issuer : Names, serial : Serials,
                key : Keys, aki : Keys \cup {None}, ski : Keys \cup {None},
                known : BOOLEAN, signature : Signature]
Crl == [kind : {"crl"}, issuer : Names, revoked : SUBSET Serials, aki : Keys \cup {None},
        known : BOOLEAN, signature : Signature]
Message == [kind : {"message"}, issuer : Names, serial : Serials, content : Names,
            digest : Names, known : BOOLEAN, signature : Signature]
PrivateKey == [kind : {"key"}, key : Keys, usable : BOOLEAN]
EncryptedKey == [kind : {"encrypted"}, key : Keys]
Other == [kind : {"other"}]
Content == Certificate \cup Crl \cup Message \cup PrivateKey \cup EncryptedKey \cup Other

ASSUME FilesAssumption == NoFile \notin Files /\ Startups \subseteq [Files -> Content \cup {Absent}]
ASSUME VariantsAssumption ==
  Variants \subseteq (Content \cup {Absent}) \X (Content \cup {Absent}) /\ Absent \notin Content
ASSUME ScanAssumption ==
  ScanOrder \in Seq(Files) /\ Range(ScanOrder) = Files /\ IsInjective(ScanOrder)
ASSUME BoundAssumption == MaxChanges \in Nat

VARIABLES
  disk, listed, pending,     \* the files; those the browser lists; written since the last poll
  path, roots, dirty,        \* the open document: App::path, App::roots
  selected,                  \* the file selected in the browser
  signables, caIndex, keyFiles, cmsFiles, unlockedKeys,
  trustedCerts,
  sigStatus, pathStatus, browserRelations,
  changes,
  onceOnDisk                 \* history: every content a file has had

document == <<path, roots, dirty>>
index == <<signables, caIndex, keyFiles>>
shown == <<sigStatus, pathStatus, browserRelations>>
vars == <<disk, listed, pending, document, selected, index, cmsFiles, unlockedKeys, trustedCerts, shown,
          changes, onceOnDisk>>

fileOpen == path # NoFile

-----------------------------------------------------------------------------
(* What the parsers recognise, by structure alone.                         *)
parseSignable(content) == content.kind \in {"certificate", "crl"}
parseCmsSigned(content) == content.kind = "message"
usableKey(content) == content.kind = "key" /\ content.usable

(* What the signature of a certificate or CRL covers.                      *)
tbs(s) ==
  [body |-> IF s.kind = "certificate" THEN s.key ELSE IF s.kind = "crl" THEN s.revoked ELSE s.digest,
   issuer |-> s.issuer]

verifySignature(s, key) == s.known /\ s.signature.by = key /\ s.signature.over = tbs(s)

(* The scan of a directory, in its order, for one kind of files.           *)
signableFiles(files) == {f \in Files : files[f] # Absent /\ parseSignable(files[f])}
messageFiles(files) == {f \in Files : files[f] # Absent /\ parseCmsSigned(files[f])}
usableKeyFiles(files) == {f \in Files : files[f] # Absent /\ usableKey(files[f])}

scan(files, recognised) ==
  LET found == retain(ScanOrder, LAMBDA f : f \in recognised)
  IN [i \in DOMAIN found |-> [path |-> found[i], content |-> files[found[i]]]]

certCandidates(entries) == retain(entries, LAMBDA e : e.content.kind = "certificate")

without(entries, f) == retain(entries, LAMBDA e : e.path # f)

-----------------------------------------------------------------------------
(* Who signed what.  The first candidate that verifies is the issuer; when *)
(* none does, the first one is named.                                      *)
firstOf(entries, I) == entries[Min(I)]

claimedIssuers(candidates, s) ==
  LET byKeyId == {i \in DOMAIN candidates : s.aki # None /\ candidates[i].content.ski = s.aki}
  IN IF byKeyId # {} THEN byKeyId
     ELSE {i \in DOMAIN candidates : candidates[i].content.subject = s.issuer}

status(verdict, f) == [verdict |-> verdict, issuer |-> f]

verifyAgainst(candidates, s) ==
  LET claimed == claimedIssuers(candidates, s)
      verified == {i \in claimed : verifySignature(s, candidates[i].content.key)}
  IN IF claimed = {} THEN status("issuer not found", NoFile)
     ELSE IF ~s.known THEN status("unsupported", NoFile)
     ELSE IF verified # {} THEN status("verified", firstOf(candidates, verified).path)
     ELSE status("invalid", firstOf(candidates, claimed).path)

(* A message has to verify under the indexed certificate, and once more    *)
(* with the certificate file as it is on disk.                             *)
signerOf(certificate, cms) ==
  /\ certificate.kind = "certificate"
  /\ certificate.issuer = cms.issuer
  /\ certificate.serial = cms.serial

cmsRawVerify(cms, signer) == verifySignature(cms, signer.key) /\ cms.digest = cms.content

cmsOpensslVerify(files, cms, f) ==
  files[f] # Absent /\ signerOf(files[f], cms) /\ cmsRawVerify(cms, files[f])

verifyCms(files, entries, cms) ==
  LET signers == {i \in DOMAIN entries : signerOf(entries[i].content, cms)}
      signer == firstOf(entries, signers)
  IN IF signers = {} THEN status("issuer not found", NoFile)
     ELSE IF ~cms.known THEN status("unsupported", NoFile)
     ELSE IF cmsRawVerify(cms, signer.content) /\ cmsOpensslVerify(files, cms, signer.path)
          THEN status("verified", signer.path) ELSE status("invalid", signer.path)

isSelfSigned(s) ==
  s.kind = "certificate" /\ s.subject = s.issuer /\ verifySignature(s, s.key)

-----------------------------------------------------------------------------
(* The arrows: an edge runs from a signer to each file it claims to have   *)
(* signed, a link between a private key and its certificates.              *)
edge(signer, signed, verified) == [signer |-> signer, signed |-> signed, verified |-> verified]

foundBy(v, f) == edge(v.issuer, f, v.verdict = "verified")

issuanceEdges(entries) ==
  LET candidates == certCandidates(entries) IN
  {foundBy(verifyAgainst(candidates, entries[i].content), entries[i].path)
     : i \in {j \in DOMAIN entries : ~isSelfSigned(entries[j].content)}}

messageEdges(files, entries, mails) ==
  {foundBy(verifyCms(files, entries, mails[i].content), mails[i].path) : i \in DOMAIN mails}

drawn(edges) == {e \in edges : e.signer # NoFile /\ e.signer # e.signed}

keyBearers(keys, unlocked) == Range(keys) \cup {[path |-> u[1], key |-> u[2]] : u \in unlocked}

certificateKeys(entries) ==
  {[path |-> e.path, key |-> e.content.key]
     : e \in {c \in Range(entries) : c.content.kind = "certificate"}}

keyLinks(f, bearers, certificates) ==
  ({c.path : c \in {c \in certificates : [path |-> f, key |-> c.key] \in bearers}}
     \cup {b.path : b \in {b \in bearers : [path |-> f, key |-> b.key] \in certificates}})
  \ {f}

(* One file signed by two: the message found last is the one recorded.     *)
relationsOf(f, files, entries, mails, keys, unlocked) ==
  LET issued == drawn(issuanceEdges(entries))
      sent == drawn(messageEdges(files, entries, mails))
      of(edges) == {e \in edges : e.signed = f}
  IN IF f = NoFile THEN [signedBy |-> {}, signs |-> {}, keyLinks |-> {}]
     ELSE [signedBy |-> IF of(sent) # {} THEN of(sent) ELSE of(issued),
           signs |-> {e \in issued \cup sent : e.signer = f},
           keyLinks |-> keyLinks(f, keyBearers(keys, unlocked), certificateKeys(entries))]

-----------------------------------------------------------------------------
(* Certification paths, with the files as they are on disk and the open    *)
(* document as it is edited.  OpenSSL is left to pick any path.            *)
issuedBy(c, issuer) ==
  /\ c.issuer = issuer.subject
  /\ c.aki # None /\ issuer.ski # None => c.aki = issuer.ski
  /\ verifySignature(c, issuer.key)

revokedOnPath(chain, crls) ==
  \E i \in 1 .. Len(chain) - 1, crl \in crls :
    /\ verifySignature(crl, chain[i + 1].key)
    /\ crl.issuer = chain[i].issuer
    /\ chain[i].serial \in crl.revoked

builtChains(target, trusted, untrusted) ==
  {chain \in UNION {[1 .. n -> {target} \cup trusted \cup untrusted] : n \in 1 .. 3} :
     /\ chain[1] = target
     /\ chain[Len(chain)] \in trusted
     /\ IsInjective(chain)
     /\ \A i \in 1 .. Len(chain) - 1 : issuedBy(chain[i], chain[i + 1])}

validate(target, trusted, untrusted, crls) ==
  IF target.kind # "certificate" THEN {"error"}
  ELSE LET chains == builtChains(target, trusted, untrusted) IN
       IF chains = {} THEN {"invalid"}
       ELSE {IF revokedOnPath(chain, crls) THEN "revoked" ELSE "valid" : chain \in chains}

pathOutcomes(files, open, doc, entries, trusted, sig) ==
  LET derOf(f) == IF f = open THEN doc ELSE files[f]
      read(es) == {derOf(e.path) : e \in es} \ {Absent}
      certificates == {e \in Range(entries) : e.content.kind = "certificate"}
      certs(es) == {c \in read(es) : c.kind = "certificate"}
      anchors == {e \in certificates : e.path \in trusted}
      crls == {c \in read(Range(entries) \ certificates) : c.kind = "crl"}
      against(target) == validate(target, certs(anchors), certs(certificates \ anchors), crls)
  IN IF open = NoFile THEN {"none"}
     ELSE IF doc.kind = "certificate" THEN against(doc)
     ELSE IF sig.issuer = NoFile \/ files[sig.issuer] = Absent THEN {"none"}
     ELSE against(files[sig.issuer])

signatureStatus(files, open, doc, entries, candidates) ==
  IF parseSignable(doc) THEN verifyAgainst(candidates, doc)
  ELSE IF open # NoFile /\ parseCmsSigned(doc) THEN verifyCms(files, entries, doc)
  ELSE status("none", NoFile)

(* What the program shows, of the index, the document and the files.       *)
currentStatus == signatureStatus(disk, path, roots, signables, caIndex)
currentPaths == pathOutcomes(disk, path, roots, signables, trustedCerts, sigStatus)
currentRelations == relationsOf(selected, disk, signables, cmsFiles, keyFiles, unlockedKeys)

-----------------------------------------------------------------------------
(* App::refresh_own_key_file: an unmodified document keeps its entry.      *)
refreshOwnKeyFile(keys) ==
  keyFiles' = IF fileOpen' /\ ~dirty' THEN keys
              ELSE without(keys, path')
                     \o IF fileOpen' /\ usableKey(roots')
                        THEN <<[path |-> path', key |-> roots'.key]>> ELSE <<>>

showRelations ==
  browserRelations' = relationsOf(selected', disk', signables', cmsFiles', keyFiles', unlockedKeys')

Recompute(entries, candidates, keys) ==
  /\ signables' = entries
  /\ caIndex' = candidates
  /\ refreshOwnKeyFile(keys)
  /\ sigStatus' = signatureStatus(disk', path', roots', signables', caIndex')
  /\ pathStatus' \in pathOutcomes(disk', path', roots', signables', trustedCerts', sigStatus')
  /\ showRelations

own(f, doc) ==
  IF f # NoFile /\ parseSignable(doc) THEN <<[path |-> f, content |-> doc]>> ELSE <<>>

\* Mutant of recomputeSigStatus: the candidate issuers stay those of the scan.
recomputeWithScannedIssuers(entries, candidates, keys) ==
  Recompute(without(entries, path') \o own(path', roots'), candidates, keys)

\* Mutant of recomputeSigStatus: the entry of the open document is added, not replaced.
recomputeAddingOwn(entries, candidates, keys) ==
  Recompute(entries \o own(path', roots'), candidates \o certCandidates(own(path', roots')), keys)

recomputeSigStatus(entries, candidates, keys) ==
  Recompute(without(entries, path') \o own(path', roots'),
            without(candidates, path') \o certCandidates(own(path', roots')), keys)

keyEntries(entries) ==
  [i \in DOMAIN entries |-> [path |-> entries[i].path, key |-> entries[i].content.key]]

\* Mutant of rescan: the key files stay those found at startup.
rescanSignables(files) ==
  \E found \in {scan(files, signableFiles(files))} :
    /\ cmsFiles' = scan(files, messageFiles(files))
    /\ recomputeSigStatus(found, certCandidates(found), keyFiles)

(* App::refresh_filesystem: all four indexes, from the files.              *)
rescan(files) ==
  \E found \in {scan(files, signableFiles(files))},
     keys \in {keyEntries(scan(files, usableKeyFiles(files)))} :
    /\ cmsFiles' = scan(files, messageFiles(files))
    /\ recomputeSigStatus(found, certCandidates(found), keys)

-----------------------------------------------------------------------------
Entry(Contents) == [path : Files, content : Contents]

TypeOK ==
  /\ disk \in [Files -> Content \cup {Absent}]
  /\ listed \subseteq Files /\ pending \in BOOLEAN
  /\ path \in Files \cup {NoFile} /\ roots \in Content /\ dirty \in BOOLEAN
  /\ selected \in Files \cup {NoFile}
  /\ signables \in Seq(Entry(Certificate \cup Crl))
  /\ caIndex \in Seq(Entry(Certificate))
  /\ keyFiles \in Seq([path : Files, key : Keys])
  /\ cmsFiles \in Seq(Entry(Message))
  /\ unlockedKeys \subseteq Files \X Keys
  /\ trustedCerts \subseteq Files
  /\ sigStatus \in [verdict : {"none", "issuer not found", "unsupported"}, issuer : {NoFile}]
                     \cup [verdict : {"verified", "invalid"}, issuer : Files]
  /\ pathStatus \in {"none", "valid", "revoked", "invalid", "error"}
  /\ changes \in 0 .. MaxChanges

present(files) == {f \in Files : files[f] # Absent}

(* App::new_browsing.                                                      *)
Init ==
  /\ disk \in Startups /\ listed = present(disk) /\ pending = FALSE
  /\ path = NoFile /\ roots \in Other /\ dirty = FALSE
  /\ selected \in IF listed = {} THEN {NoFile} ELSE listed
  /\ signables = scan(disk, signableFiles(disk))
  /\ caIndex = certCandidates(signables)
  /\ keyFiles = keyEntries(scan(disk, usableKeyFiles(disk)))
  /\ cmsFiles = scan(disk, messageFiles(disk))
  /\ unlockedKeys = {} /\ trustedCerts = {}
  /\ sigStatus = status("none", NoFile) /\ pathStatus = "none"
  /\ browserRelations = currentRelations
  /\ changes = 0
  /\ onceOnDisk = [f \in Files |-> {disk[f]}]

files == <<disk, listed, pending, changes, onceOnDisk>>

(* App::open_file.                                                         *)
openFile(f) ==
  /\ path' = f /\ roots' = disk[f] /\ dirty' = FALSE
  /\ recomputeSigStatus(signables, caIndex, keyFiles)

(* A browser key ends with a preview of the selected file, unless it is    *)
(* open already, cannot be read, or would replace unsaved changes.         *)
previews(f) == ~(fileOpen /\ (path = f \/ dirty)) /\ disk[f] # Absent

Select(f) ==
  /\ f \in listed
  /\ selected' = f
  /\ UNCHANGED <<files, cmsFiles, unlockedKeys, trustedCerts>>
  /\ IF previews(f) THEN openFile(f)
     ELSE /\ UNCHANGED <<document, index, sigStatus, pathStatus>>
          /\ showRelations

(* Enter, twice: unsaved changes are discarded.                            *)
Activate ==
  /\ selected # NoFile /\ selected # path
  /\ dirty
  /\ disk[selected] # Absent
  /\ UNCHANGED <<files, selected, cmsFiles, unlockedKeys, trustedCerts>>
  /\ openFile(selected)

(* 't', on a file that is indexed as a certificate.                        *)
ToggleTrust ==
  /\ \E e \in Range(signables) : e.path = selected /\ e.content.kind = "certificate"
  /\ trustedCerts' = SymDiff(trustedCerts, {selected})
  /\ UNCHANGED <<files, selected, cmsFiles, unlockedKeys>>
  /\ IF previews(selected) THEN openFile(selected)
     ELSE /\ UNCHANGED <<document, index, sigStatus>>
          /\ pathStatus' \in pathOutcomes(disk, path, roots, signables, trustedCerts', sigStatus)
          /\ showRelations

counted == changes < MaxChanges /\ changes' = changes + 1

(* An edit, undone or not, of whatever kind, ends in App::rebuild.         *)
Edit(content) ==
  /\ fileOpen
  /\ content # Absent /\ <<roots, content>> \in Variants
  /\ counted
  /\ roots' = content /\ dirty' = TRUE
  /\ UNCHANGED <<path, selected, cmsFiles, unlockedKeys, trustedCerts>>
  /\ UNCHANGED <<disk, listed, pending, onceOnDisk>>
  /\ recomputeSigStatus(signables, caIndex, keyFiles)

writes(f, content) ==
  /\ disk' = [disk EXCEPT ![f] = content]
  /\ onceOnDisk' = [onceOnDisk EXCEPT ![f] = @ \cup {content}]

Save ==
  /\ fileOpen
  /\ writes(path, roots)
  /\ pending' = TRUE
  /\ dirty' = FALSE
  /\ UNCHANGED <<listed, path, roots, selected, index, cmsFiles, unlockedKeys, trustedCerts,
                 shown, changes>>

\* Mutant of Unlock: the arrows wait for the next key.
UnlockQuietly ==
  /\ fileOpen
  /\ roots.kind = "encrypted"
  /\ unlockedKeys' = {u \in unlockedKeys : u[1] # path} \cup {<<path, roots.key>>}
  /\ UNCHANGED <<files, document, selected, index, cmsFiles, trustedCerts, shown>>

(* The password of the open document was supplied: cache_unlocked_keys.    *)
Unlock ==
  /\ fileOpen
  /\ roots.kind = "encrypted"
  /\ unlockedKeys' = {u \in unlockedKeys : u[1] # path} \cup {<<path, roots.key>>}
  /\ UNCHANGED <<files, document, selected, index, cmsFiles, trustedCerts, sigStatus, pathStatus>>
  /\ showRelations

(* The timer.  A selected file that is gone leaves the selection to        *)
(* another.                                                                *)
Refresh ==
  /\ pending
  /\ pending' = FALSE
  /\ listed' = present(disk)
  /\ selected' \in IF selected \in listed' THEN {selected}
                   ELSE IF listed' = {} THEN {NoFile} ELSE listed'
  /\ UNCHANGED <<disk, changes, onceOnDisk, document, unlockedKeys, trustedCerts>>
  /\ rescan(disk)

(* App::commit_new_der: the empty file is written, opened and scanned.     *)
CommitNewDer(f) ==
  /\ disk[f] = Absent
  /\ \E empty \in Other :
       writes(f, empty) /\ path' = f /\ roots' = empty
  /\ dirty' = FALSE
  /\ pending' = FALSE
  /\ listed' = present(disk')
  /\ selected' = f
  /\ UNCHANGED <<changes, unlockedKeys, trustedCerts>>
  /\ rescan(disk')

OtherProgram(f, content) ==
  /\ <<disk[f], content>> \in Variants
  /\ counted
  /\ writes(f, content)
  /\ pending' = TRUE
  /\ UNCHANGED <<listed, document, selected, index, cmsFiles, unlockedKeys, trustedCerts, shown>>

Next ==
  \/ \E f \in Files : Select(f)
  \/ Activate
  \/ ToggleTrust
  \/ \E v \in Variants : Edit(v[2])
  \/ Save
  \/ Unlock
  \/ Refresh
  \/ \E f \in Files : CommitNewDer(f)
  \/ \E f \in Files, v \in Variants : OtherProgram(f, v[2])

(* The event loop polls the directory again and again.                     *)
Spec == Init /\ [][Next]_vars /\ WF_vars(Refresh)

-----------------------------------------------------------------------------
(* The status of the open document and the arrow that enters it are        *)
(* computed apart, from the candidate issuers and from the signed objects, *)
(* and say the same (App::recompute_sig_status: "computed from the same    *)
(* index and must stay consistent with each other").                       *)
StatusMatchesTheArrow ==
  fileOpen /\ parseSignable(roots) /\ ~isSelfSigned(roots) /\ sigStatus.issuer # path
  => {e \in drawn(issuanceEdges(signables)) : e.signed = path}
       = IF sigStatus.issuer = NoFile THEN {}
         ELSE {edge(sigStatus.issuer, path, sigStatus.verdict = "verified")}

(* No file is in an index twice, so that the first entry found is the one. *)
OneEntryPerFile ==
  \A entries \in {signables, caIndex, keyFiles, cmsFiles} :
    \A i, j \in DOMAIN entries : entries[i].path = entries[j].path => i = j

(* Whatever was edited, opened, trusted, unlocked or selected last: once   *)
(* the directory has been polled, what is shown is what the index, the     *)
(* document and the files amount to.                                       *)
ShownIsCurrent ==
  ~pending =>
    /\ sigStatus = currentStatus
    /\ pathStatus \in currentPaths
    /\ browserRelations = currentRelations

(* What other programs do to the directory reaches all the indexes         *)
(* (App::refresh_filesystem).                                              *)
IndexIsTheDisk ==
  /\ without(signables, path) = without(scan(disk, signableFiles(disk)), path)
  /\ without(caIndex, path) = without(certCandidates(scan(disk, signableFiles(disk))), path)
  /\ without(keyFiles, path) = without(keyEntries(scan(disk, usableKeyFiles(disk))), path)
  /\ cmsFiles = scan(disk, messageFiles(disk))

ChangesAreNoticed == pending ~> IndexIsTheDisk

(* Only the open document's entry may hold what no file does.              *)
OnlyTheOpenDocumentIsLive ==
  \A i \in DOMAIN signables :
    signables[i].path # path => signables[i].content \in onceOnDisk[signables[i].path]

(* The entry of an unmodified key is that of its content.                  *)
UnmodifiedIsAsScanned ==
  fileOpen /\ ~dirty /\ ~pending =>
    {k.key : k \in {e \in Range(keyFiles) : e.path = path}}
      = IF usableKey(roots) THEN {roots.key} ELSE {}
=============================================================================
