------------------------------- MODULE Rekey -------------------------------
(***************************************************************************)
(* Re-keying a certificate and re-signing what it issued: the dialog, the  *)
(* worker that runs perform_rekey, the poll that installs its outcome, and *)
(* the re-sign dialog (src/src/app.rs), over the key files whose stored    *)
(* one-time-signature index is all that survives a restart (src/src/xmss.rs*)
(* and src/src/hsslms.rs).  The folder holds one certificate, Root, and    *)
(* the objects it issued.  A document's content matters here only by the   *)
(* key it carries and the key it is signed with, so nobody edits it by     *)
(* hand: under a given key each object is one message.  The stateless      *)
(* algorithms are the keys outside OneTime.                                *)
(***************************************************************************)
EXTENDS Integers, FiniteSets

CONSTANTS
    Issued,       \* the certificates and CRLs that Root issued
    Root,         \* the certificate that is re-keyed
    Keys,         \* the key pairs there can be
    OneTime,      \* those of a stateful algorithm (XMSS, HSS/LMS)
    Algorithm,    \* the signature algorithm of each key
    First,        \* the key Root starts with
    Authority,    \* a key from outside the folder, which may have signed Root
    KeyPaths,     \* file names of private keys
    FirstPath,    \* where First is stored
    Leaves,       \* signatures a stateful key can make
    Environment   \* which of Events can happen

Events == {"restart", "crash", "resign", "copy", "create", "die", "torn"}

ASSUME ParametersAreSound ==
    /\ OneTime \subseteq Keys /\ First \in Keys \ OneTime /\ Authority \notin Keys
    /\ Root \notin Issued /\ FirstPath \in KeyPaths
    /\ DOMAIN Algorithm = Keys \cup {Authority}
    /\ \A k \in OneTime, l \in Keys \ OneTime : Algorithm[k] # Algorithm[l]
    /\ Leaves \in Nat /\ Environment \subseteq Events

Objects == Issued \cup {Root}
NoFile == [key |-> Authority, index |-> 0]    \* no file of this name
Foreign == [key |-> Authority, index |-> 1]   \* a file that holds no usable key
Stored == [key : Keys, index : 0..Leaves]
Torn == [spki |-> Authority, signer |-> Root] \* a write broke off half way
Content == [spki : Keys \cup {Authority}, signer : Keys \cup {Authority}]
NoSignature == [key |-> Authority, index |-> 0]
NoPlan == [key |-> Authority, target |-> FirstPath, persistable |-> FALSE,
           chosen |-> {}, selfSigned |-> FALSE, before |-> <<>>]

VARIABLES
    keyFile,    \* the key files on disk
    file,       \* the objects on disk
    open,       \* the object in the editor
    document,   \* its content there
    dirty,
    mode,
    offer,      \* the existing keys the open dialog lists
    plan,       \* the RekeyPlan being worked on
    worker,     \* where perform_rekey stands
    held,       \* the index in the worker's copy of the private key
    todo,       \* the issued objects it has still to re-sign
    failures,   \* the failures it has met: "object", "state"
    report,     \* how the last re-key ended, while the status line says so
    pending,    \* a signature that exists in the process only
    registry,   \* the process-wide next index of each one-time key
    born,       \* the keys generated so far
    published,  \* the signatures of one-time keys that left the process
    retired     \* the keys the user was warned about

disk == <<keyFile, file>>
ui == <<open, document, dirty, mode, offer, pending>>
work == <<plan, worker, held, todo, failures>>
ghost == <<born, published, retired>>
vars == <<disk, ui, work, report, registry, ghost>>

(***************************************************************************)
(* The signature backends.                                                 *)
(***************************************************************************)
NoReport == [kind |-> "none", plan |-> NoPlan]

larger(a, b) == IF a >= b THEN a ELSE b

\* The index Botan takes: the one in the serialized key, unless its registry
\* knows that a later one was reached in this process.
leaf(key, index) == IF key \in OneTime THEN larger(index, registry[key]) ELSE index

canSign(key, index) == key \in OneTime => leaf(key, index) < Leaves

advanced(key, index) == IF key \in OneTime THEN leaf(key, index) + 1 ELSE index

Consume(key, index) ==
    registry' = IF key \in OneTime
                THEN [registry EXCEPT ![key] = leaf(key, index) + 1] ELSE registry

\* The signature goes into a document or a file that others can read.
Publish(key, index, object) ==
    published' = IF key \in OneTime
                 THEN published \cup {[key |-> key, index |-> index, object |-> object]}
                 ELSE published

(***************************************************************************)
(* Files.  A write that fails leaves the file alone when it cannot be      *)
(* opened, and cut off when the disk fills up ("torn").                    *)
(***************************************************************************)
holds(path) == keyFile[path] \in Stored

FailToWriteKey(path) ==
    \/ UNCHANGED keyFile
    \/ "torn" \in Environment /\ keyFile' = [keyFile EXCEPT ![path] = Foreign]

FailToWriteObject(object) ==
    \/ UNCHANGED file
    \/ "torn" \in Environment /\ file' = [file EXCEPT ![object] = Torn]

\* write_current: the dirty flag falls only when the write succeeded.
WriteCurrent(content, changed) ==
    \/ /\ file' = [file EXCEPT ![open] = content]
       /\ dirty' = FALSE
    \/ /\ FailToWriteObject(open)
       /\ dirty' = changed

(***************************************************************************)
(* The re-key dialog.                                                      *)
(***************************************************************************)
StartRekey ==
    /\ mode = "Browse" /\ open = Root
    /\ mode' = "EditPubKey"
    /\ offer' = {[path |-> p, key |-> keyFile[p].key] :
                    p \in {q \in KeyPaths : holds(q)}}
    /\ report' = NoReport
    /\ UNCHANGED <<disk, open, document, dirty, pending, work, registry, ghost>>

CancelPubkey ==
    /\ mode = "EditPubKey"
    /\ mode' = "Browse" /\ offer' = {}
    /\ UNCHANGED <<disk, open, document, dirty, pending, work, report, registry, ghost>>

\* Mutant of following: the issued objects before the certificate.
followingSignsFirst == [generate |-> "resign", resign |-> "build", build |-> "persist"]

\* The order of perform_rekey.
following == [generate |-> "build", build |-> "resign", resign |-> "persist"]

\* A slow algorithm runs on a thread behind the progress window, any other
\* inside the key handler ("Inline": the event loop waits for it).
Submit(key, target, persistable, chosen, step, index) ==
    /\ plan' = [key |-> key, target |-> target, persistable |-> persistable,
                chosen |-> chosen, selfSigned |-> document.signer = document.spki,
                before |-> file]
    /\ worker' = step /\ held' = index /\ todo' = chosen /\ failures' = {}
    /\ mode' \in {"Progress"} \cup (IF key \in OneTime THEN {} ELSE {"Inline"})
    /\ offer' = {}

\* A key file is never chosen under a name in use: the dialog stays open.
SubmitGenerate(key, path, chosen) ==
    /\ mode = "EditPubKey"
    /\ key \notin born
    /\ keyFile[path] = NoFile
    /\ Submit(key, path, TRUE, chosen, "generate", 0)
    /\ UNCHANGED <<disk, open, document, dirty, pending, report, registry, ghost>>

\* The key material is the first that matches the chosen key's identity,
\* wherever it is stored; the state goes back to the chosen file, if that is
\* a container which can take it.
SubmitExisting(choice, path, chosen) ==
    /\ mode = "EditPubKey"
    /\ choice \in offer /\ choice.key \notin retired
    /\ holds(path) /\ keyFile[path].key = choice.key
    /\ \E persistable \in {FALSE} \cup {keyFile[choice.path] # NoFile} :
          Submit(choice.key, choice.path, persistable, chosen,
                 following["generate"], keyFile[path].index)
    /\ UNCHANGED <<disk, open, document, dirty, pending, report, registry, ghost>>

(***************************************************************************)
(* perform_rekey.                                                          *)
(***************************************************************************)
working == mode \in {"Progress", "Inline"}

Fail == worker' = "error"

\* Mutant of ObtainKey: the key is written with its final state only.
ObtainKeyUnwritten ==
    /\ working /\ worker = "generate"
    /\ worker' = following["generate"]
    /\ born' = born \cup {plan.key}
    /\ UNCHANGED <<disk, ui, plan, held, todo, failures, report, registry,
                   published, retired>>

\* 1. Generate the key and write its file to reserve the name.
ObtainKey ==
    /\ working /\ worker = "generate"
    /\ \/ /\ keyFile' = [keyFile EXCEPT ![plan.target] = [key |-> plan.key, index |-> 0]]
          /\ worker' = following["generate"]
          /\ born' = born \cup {plan.key}
       \/ /\ FailToWriteKey(plan.target)
          /\ Fail
          /\ UNCHANGED born
    /\ UNCHANGED <<file, ui, plan, held, todo, failures, report, registry,
                   published, retired>>

\* 2. Put the new public key into the certificate, signing it if it signed
\*    itself.
BuildRekeyedCert ==
    /\ working /\ worker = "build"
    /\ \/ /\ plan.selfSigned => canSign(plan.key, held)
          /\ IF plan.selfSigned
             THEN /\ Consume(plan.key, held)
                  /\ pending' = [key |-> plan.key, index |-> leaf(plan.key, held)]
                  /\ held' = advanced(plan.key, held)
             ELSE UNCHANGED <<held, registry, pending>>
          /\ worker' = following["build"]
       \/ Fail /\ UNCHANGED <<held, registry, pending>>
    /\ UNCHANGED <<disk, open, document, dirty, mode, offer, plan, todo, failures,
                   report, ghost>>

\* Mutant of ResignIssuedFile: a failure is not reported.
ResignIssuedFileSilent(object) ==
    /\ working /\ worker = "resign" /\ object \in todo
    /\ todo' = todo \ {object}
    /\ UNCHANGED <<disk, ui, plan, worker, held, failures, report, registry, ghost>>

\* 3. Re-sign the selected objects one by one, each from the key as the last
\*    successful one left it.
ResignIssuedFile(object) ==
    /\ working /\ worker = "resign" /\ object \in todo
    /\ todo' = todo \ {object}
    /\ \/ /\ file[object] # Torn /\ canSign(plan.key, held)
          /\ Consume(plan.key, held)
          /\ Publish(plan.key, leaf(plan.key, held), object)
          /\ held' = advanced(plan.key, held)
          /\ file' = [file EXCEPT ![object].signer = plan.key]
          /\ UNCHANGED failures
       \/ \* signed, but not written
          /\ file[object] # Torn /\ canSign(plan.key, held)
          /\ Consume(plan.key, held)
          /\ FailToWriteObject(object)
          /\ failures' = failures \cup {"object"}
          /\ UNCHANGED <<held, published>>
       \/ \* not read, not parsed or not signed
          /\ failures' = failures \cup {"object"}
          /\ UNCHANGED <<held, published, registry, file>>
    /\ UNCHANGED <<keyFile, ui, plan, worker, report, born, retired>>

AllResigned ==
    /\ working /\ worker = "resign" /\ todo = {}
    /\ worker' = following["resign"]
    /\ UNCHANGED <<disk, ui, plan, held, todo, failures, report, registry, ghost>>

\* Mutant of PersistState: the key file keeps the initial state.
PersistStateForgotten ==
    /\ working /\ worker = "persist"
    /\ worker' = "done"
    /\ UNCHANGED <<disk, ui, plan, held, todo, failures, report, registry, ghost>>

\* 4. Write the final state of a stateful key back to its file.
PersistState ==
    /\ working /\ worker = "persist"
    /\ worker' = "done"
    /\ \/ plan.key \notin OneTime /\ UNCHANGED <<keyFile, failures>>
       \/ /\ plan.key \in OneTime /\ plan.persistable
          /\ keyFile' = [keyFile EXCEPT ![plan.target] = [key |-> plan.key, index |-> held]]
          /\ UNCHANGED failures
       \/ /\ plan.key \in OneTime /\ plan.persistable
          /\ FailToWriteKey(plan.target)
          /\ failures' = failures \cup {"state"}
       \/ /\ plan.key \in OneTime /\ ~plan.persistable
          /\ failures' = failures \cup {"state"}
          /\ UNCHANGED keyFile
    /\ UNCHANGED <<file, ui, plan, held, todo, report, registry, ghost>>

\* The thread panics: its end of the channel closes with nothing sent.
WorkerDies ==
    /\ "die" \in Environment
    /\ mode = "Progress" /\ worker \notin {"done", "error", "gone"}
    /\ worker' = "gone"
    /\ UNCHANGED <<disk, ui, plan, held, todo, failures, report, registry, ghost>>

(***************************************************************************)
(* The poll of the event loop, and the same call made inline.              *)
(***************************************************************************)
PlanIsDone ==
    /\ mode' = "Browse" /\ pending' = NoSignature
    /\ plan' = NoPlan /\ worker' = "idle" /\ held' = 0 /\ todo' = {} /\ failures' = {}

\* apply_rekey_outcome for a finished re-key: install the certificate, save
\* it, and sum up.
ApplyOutcome ==
    /\ working /\ worker = "done"
    /\ LET content == [spki |-> plan.key,
                       signer |-> IF plan.selfSigned THEN plan.key ELSE document.signer]
       IN  document' = content /\ WriteCurrent(content, TRUE)
    /\ report' = [kind |-> IF failures = {} /\ ~dirty' THEN "complete" ELSE "incomplete",
                  plan |-> plan]
    /\ retired' = IF "state" \in failures THEN retired \cup {plan.key} ELSE retired
    /\ Publish(pending.key, pending.index, Root)
    /\ PlanIsDone
    /\ UNCHANGED <<keyFile, open, offer, registry, born>>

ApplyError ==
    /\ working /\ worker = "error"
    /\ report' = [kind |-> "error", plan |-> plan]
    /\ PlanIsDone
    /\ UNCHANGED <<disk, open, document, dirty, offer, registry, ghost>>

WorkerGone ==
    /\ mode = "Progress" /\ worker = "gone"
    /\ report' = [kind |-> "gone", plan |-> plan]
    /\ PlanIsDone
    /\ UNCHANGED <<disk, open, document, dirty, offer, registry, ghost>>

\* Mutant of PollRekeyProgress: a closed channel is not an answer.
PollRekeyProgressDeaf == ApplyOutcome \/ ApplyError

PollRekeyProgress == ApplyOutcome \/ ApplyError \/ WorkerGone

(***************************************************************************)
(* The re-sign dialog.  Opening it already signs, with the first key file  *)
(* of the issuer's key that works; the updated key is dropped.  It signs   *)
(* with the algorithm the object names, the one it is signed with now, and *)
(* a key of any other is refused.                                          *)
(***************************************************************************)
issuerKey ==
    IF open # Root THEN file[Root].spki
    ELSE IF document.signer = document.spki THEN document.spki ELSE Authority

StartResign(path) ==
    /\ "resign" \in Environment
    /\ mode = "Browse"
    /\ holds(path) /\ keyFile[path].key = issuerKey /\ issuerKey \notin retired
    /\ Algorithm[document.signer] = Algorithm[issuerKey]
    /\ canSign(issuerKey, keyFile[path].index)
    /\ Consume(issuerKey, keyFile[path].index)
    /\ pending' = [key |-> issuerKey, index |-> leaf(issuerKey, keyFile[path].index)]
    /\ mode' = "Resign" /\ report' = NoReport
    /\ UNCHANGED <<disk, open, document, dirty, offer, work, ghost>>

CancelResign ==
    /\ mode = "Resign"
    /\ mode' = "Browse" /\ pending' = NoSignature
    /\ UNCHANGED <<disk, open, document, dirty, offer, work, report, registry, ghost>>

SubmitResign ==
    /\ mode = "Resign"
    /\ document' = [document EXCEPT !.signer = pending.key]
    /\ WriteCurrent(document', TRUE)
    /\ Publish(pending.key, pending.index, open)
    /\ pending' = NoSignature
    /\ mode' = "Browse"
    /\ UNCHANGED <<keyFile, open, offer, work, report, registry, born, retired>>

(***************************************************************************)
(* Saving, opening another object, leaving and starting again.             *)
(***************************************************************************)
Save ==
    /\ mode = "Browse" /\ dirty
    /\ WriteCurrent(document, dirty)
    /\ report' = NoReport
    /\ UNCHANGED <<keyFile, open, document, mode, offer, pending, work, registry, ghost>>

Load(object) ==
    /\ file[object] # Torn
    /\ open' = object /\ document' = file[object] /\ dirty' = FALSE

\* What happens to unsaved work here is the subject of Session.
OpenFile(object) ==
    /\ mode = "Browse" /\ object # open
    /\ Load(object)
    /\ report' = NoReport
    /\ UNCHANGED <<disk, mode, offer, pending, work, registry, ghost>>

\* A new process knows of a one-time key what its file says.
NewProcess ==
    /\ \E object \in Objects : Load(object)
    /\ PlanIsDone /\ offer' = {} /\ report' = NoReport
    /\ registry' = [k \in OneTime |-> 0]
    /\ UNCHANGED <<disk, ghost>>

Restart == "restart" \in Environment /\ mode = "Browse" /\ NewProcess

Crash == "crash" \in Environment /\ NewProcess

(***************************************************************************)
(* Other programs.                                                         *)
(***************************************************************************)
CopyKeyFile(from, to) ==
    /\ "copy" \in Environment
    /\ holds(from) /\ keyFile[to] = NoFile
    /\ keyFile' = [keyFile EXCEPT ![to] = keyFile[from]]
    /\ UNCHANGED <<file, ui, work, report, registry, ghost>>

CreateFile(path) ==
    /\ "create" \in Environment
    /\ keyFile[path] = NoFile
    /\ keyFile' = [keyFile EXCEPT ![path] = Foreign]
    /\ UNCHANGED <<file, ui, work, report, registry, ghost>>

-----------------------------------------------------------------------------
Init ==
    /\ keyFile = [p \in KeyPaths |->
                    IF p = FirstPath THEN [key |-> First, index |-> 0] ELSE NoFile]
    /\ \E signer \in {First, Authority} :
          file = [o \in Objects |-> IF o = Root
                                    THEN [spki |-> First, signer |-> signer]
                                    ELSE [spki |-> Authority, signer |-> First]]
    /\ open = Root /\ document = file[Root] /\ dirty = FALSE
    /\ mode = "Browse" /\ offer = {}
    /\ plan = NoPlan /\ worker = "idle" /\ held = 0 /\ todo = {} /\ failures = {}
    /\ report = NoReport /\ pending = NoSignature
    /\ registry = [k \in OneTime |-> 0]
    /\ born = {First} /\ published = {} /\ retired = {}

Dialog ==
    \/ StartRekey \/ CancelPubkey
    \/ \E path \in KeyPaths, chosen \in SUBSET Issued :
          \/ \E key \in Keys : SubmitGenerate(key, path, chosen)
          \/ \E choice \in offer : SubmitExisting(choice, path, chosen)

PerformRekey ==
    \/ ObtainKey \/ BuildRekeyedCert \/ AllResigned \/ PersistState
    \/ \E object \in Issued : ResignIssuedFile(object)

Resigning == (\E path \in KeyPaths : StartResign(path)) \/ CancelResign \/ SubmitResign

Others ==
    \/ \E from, to \in KeyPaths : CopyKeyFile(from, to)
    \/ \E path \in KeyPaths : CreateFile(path)

Next ==
    \/ Dialog \/ PerformRekey \/ WorkerDies \/ PollRekeyProgress
    \/ Resigning \/ Save \/ (\E object \in Objects : OpenFile(object))
    \/ Restart \/ Crash \/ Others

Spec == Init /\ [][Next]_vars

\* The system schedules the worker, and the event loop polls four times a
\* second.  Nothing is assumed of the user, and the worker may die.
FairSpec == Spec /\ WF_vars(PerformRekey) /\ WF_vars(PollRekeyProgress)

-----------------------------------------------------------------------------
Plans == [key : Keys, target : KeyPaths, persistable : BOOLEAN,
          chosen : SUBSET Issued, selfSigned : BOOLEAN,
          before : [Objects -> Content \cup {Torn}]]

(* Every variable keeps its type: no index passes the number of leaves.    *)
TypeOK ==
    /\ keyFile \in [KeyPaths -> Stored \cup {NoFile, Foreign}]
    /\ file \in [Objects -> Content \cup {Torn}]
    /\ open \in Objects /\ document \in Content /\ dirty \in BOOLEAN
    /\ mode \in {"Browse", "EditPubKey", "Progress", "Inline", "Resign"}
    /\ offer \subseteq [path : KeyPaths, key : Keys]
    /\ plan \in Plans \cup {NoPlan}
    /\ worker \in {"idle", "generate", "build", "resign", "persist", "done",
                   "error", "gone"}
    /\ held \in 0..Leaves /\ todo \subseteq Issued
    /\ failures \subseteq {"object", "state"}
    /\ report \in [kind : {"complete", "incomplete", "error", "gone"}, plan : Plans]
                  \cup {NoReport}
    /\ pending \in Stored \cup {NoSignature}
    /\ registry \in [OneTime -> 0..Leaves]
    /\ born \subseteq Keys /\ retired \subseteq Keys
    /\ published \subseteq [key : OneTime, index : 0..Leaves, object : Objects]

(* A one-time index signs one message, over all runs of the program: what  *)
(* the key file says at a start is never behind what was published         *)
(* (xmss.rs: "across process restarts only the index stored in the         *)
(* serialized key protects").                                              *)
OneMessagePerIndex ==
    \A s, t \in published :
        s.key = t.key /\ s.index = t.index => s.object = t.object

(* When the summary of a re-key reports no failure, the folder is what it  *)
(* says: Root carries the new key, Root (if it signed itself) and all the  *)
(* chosen objects are signed with it, and the key is in its file, past     *)
(* every index that was used (app.rs: "leaves the whole set consistent on  *)
(* disk").                                                                 *)
CompleteMeansConsistent ==
    LET done == report.plan
        stored == keyFile[done.target]
    IN  report.kind = "complete" =>
            /\ file[Root].spki = done.key
            /\ done.selfSigned => file[Root].signer = done.key
            /\ \A object \in done.chosen : file[object].signer = done.key
            /\ stored.key = done.key
            /\ \A s \in published : s.key = done.key => s.index < stored.index

(* A re-key that ends in an error has not touched a signed object.         *)
ErrorLeavesObjects == report.kind = "error" => file = report.plan.before

(* No signature outlives its key: whatever fails or stops, the key that an *)
(* object on disk is signed with is in a key file (app.rs: "Write the      *)
(* initial key now").                                                      *)
SignerIsStored ==
    \A object \in Objects :
        file[object].signer \in Keys =>
            \E path \in KeyPaths : keyFile[path].key = file[object].signer

(* The progress window, which ignores every key, closes again: whatever    *)
(* becomes of the worker, the event loop hears of it.                      *)
ProgressEnds == (mode = "Progress") ~> (mode = "Browse")

(* Re-keying to an existing key signs from the state the chosen file holds *)
(* or a later one (DESIGN.md: "or by loading the chosen existing key").    *)
NeverBehindTheChosenFile ==
    [][mode = "EditPubKey" /\ worker' = "build" =>
          leaf(plan'.key, held') >= keyFile[plan'.target].index]_vars

(* Generating a key never overwrites a file that was there (DESIGN.md:     *)
(* "validating the file name, which never overwrites an existing file").   *)
NeverOverwritesAFile ==
    [][\A path \in KeyPaths : keyFile[path] = Foreign => keyFile'[path] = Foreign]_vars
=============================================================================
