----------------------------- MODULE RekeyProofs -----------------------------
(***************************************************************************)
(* Proofs about module Rekey, for every set of keys, files and objects.    *)
(***************************************************************************)
EXTENDS Rekey, TLAPS

(***************************************************************************)
(* That the signer is stored is not inductive: a signer can come from the  *)
(* plan, the document or a pending signature.                              *)
(***************************************************************************)
HasKey(k) == \E path \in KeyPaths : keyFile[path].key = k

Types ==
  /\ DOMAIN keyFile = KeyPaths
  /\ file \in [Objects -> Content]
  /\ document \in Content /\ open \in Objects
  /\ pending.key \in Keys \cup {Authority}

\* From the step that builds the certificate on, the planned key is where
\* its state will be written.
PlanIsStored ==
  worker \in {"build", "resign", "persist", "done"} =>
    plan.key \in Keys /\ plan.target \in KeyPaths /\ keyFile[plan.target].key = plan.key

\* Before, another program may have copied a key to the name of the new one.
TargetIsSpare ==
  worker = "generate" =>
    /\ plan.key \in Keys /\ plan.target \in KeyPaths
    /\ keyFile[plan.target].key \in Keys =>
         \E path \in KeyPaths \ {plan.target} : keyFile[path].key = keyFile[plan.target].key

OfferIsStored ==
  /\ offer # {} => mode = "EditPubKey"
  /\ \A c \in offer : c.key \in Keys /\ c.path \in KeyPaths /\ keyFile[c.path].key = c.key

SignersInMemory ==
  /\ document.signer \in Keys => HasKey(document.signer)
  /\ pending.key \in Keys => HasKey(pending.key)

SignersOnDisk == \A object \in Objects : file[object].signer \in Keys => HasKey(file[object].signer)

IInv ==
  /\ Types /\ PlanIsStored /\ TargetIsSpare /\ OfferIsStored
  /\ SignersInMemory /\ SignersOnDisk

LEMMA Constants ==
  /\ Authority \notin Keys /\ NoFile.key \notin Keys /\ Foreign.key \notin Keys
  /\ NoSignature.key = Authority
  /\ First \in Keys /\ FirstPath \in KeyPaths /\ Root \in Objects /\ Issued \subseteq Objects
BY ParametersAreSound DEF NoFile, Foreign, NoSignature, Objects

-----------------------------------------------------------------------------
(* No step takes a key from the disk.                                      *)
FilesStay ==
  /\ DOMAIN keyFile' = KeyPaths
  /\ \A path \in KeyPaths : keyFile[path].key \in Keys => keyFile'[path].key = keyFile[path].key

LEMMA StayIfUnchanged ==
  ASSUME Types, UNCHANGED keyFile
  PROVE  FilesStay
BY DEF Types, FilesStay

LEMMA PersistStays ==
  ASSUME IInv, "torn" \notin Environment, PersistState
  PROVE  FilesStay
<1>1. keyFile' = keyFile \/ keyFile' = [keyFile EXCEPT ![plan.target] = [key |-> plan.key, index |-> held]]
  BY DEF PersistState, FailToWriteKey
<1>2. plan.target \in KeyPaths /\ keyFile[plan.target].key = plan.key
  BY DEF PersistState, IInv, PlanIsStored
<1> QED
  BY <1>1, <1>2 DEF FilesStay, IInv, Types

LEMMA OthersStay ==
  ASSUME IInv, Others
  PROVE  FilesStay
<1>1. ASSUME NEW path \in KeyPaths, NEW content, keyFile[path] = NoFile,
             keyFile' = [keyFile EXCEPT ![path] = content]
      PROVE  FilesStay
  BY <1>1, Constants DEF FilesStay, IInv, Types
<1>2. CASE \E from, to \in KeyPaths : CopyKeyFile(from, to)
  BY <1>1, <1>2 DEF CopyKeyFile
<1>3. CASE \E path \in KeyPaths : CreateFile(path)
  BY <1>1, <1>3 DEF CreateFile
<1> QED
  BY <1>2, <1>3 DEF Others

LEMMA ObtainKeeps ==
  ASSUME IInv, "torn" \notin Environment, ObtainKey
  PROVE  /\ DOMAIN keyFile' = KeyPaths
         /\ \A k \in Keys : HasKey(k) => HasKey(k)'
         /\ worker' = "build" => keyFile'[plan.target].key = plan.key
<1> DEFINE target == plan.target
           written == [key |-> plan.key, index |-> 0]
<1>1. \/ keyFile' = [keyFile EXCEPT ![target] = written] /\ worker' = "build"
      \/ keyFile' = keyFile /\ worker' = "error"
  BY DEF ObtainKey, FailToWriteKey, Fail, following
<1>2. target \in KeyPaths /\ DOMAIN keyFile = KeyPaths
  BY DEF ObtainKey, IInv, TargetIsSpare, Types
<1>3. ASSUME NEW k \in Keys, HasKey(k), keyFile' = [keyFile EXCEPT ![target] = written]
      PROVE  HasKey(k)'
  <2>1. PICK path \in KeyPaths : keyFile[path].key = k /\ path # target
    <3>1. PICK path \in KeyPaths : keyFile[path].key = k
      BY <1>3 DEF HasKey
    <3> QED
      BY <3>1 DEF ObtainKey, IInv, TargetIsSpare
  <2>2. keyFile'[path].key = k
    BY <1>2, <1>3, <2>1
  <2> QED
    BY <2>2 DEF HasKey
<1>4. keyFile' = [keyFile EXCEPT ![target] = written] => keyFile'[target].key = plan.key
  BY <1>2
<1> QED
  BY <1>1, <1>2, <1>3, <1>4 DEF HasKey

LEMMA StayKeeps ==
  ASSUME FilesStay
  PROVE  \A k \in Keys : HasKey(k) => HasKey(k)'
BY DEF FilesStay, HasKey

-----------------------------------------------------------------------------
(* What a step has to show once the key files are settled.                 *)
LEMMA Settled ==
  ASSUME IInv, FilesStay,
         Types', PlanIsStored', TargetIsSpare',
         offer' # {} => mode' = "EditPubKey", offer' \subseteq offer,
         document'.signer \in Keys => HasKey(document'.signer),
         pending'.key \in Keys => HasKey(pending'.key),
         \A object \in Objects : file'[object].signer \in Keys => HasKey(file'[object].signer)
  PROVE  IInv'
<1>1. OfferIsStored'
  BY DEF IInv, OfferIsStored, FilesStay
<1>2. SignersInMemory' /\ SignersOnDisk'
  BY StayKeeps DEF SignersInMemory, SignersOnDisk, HasKey
<1> QED
  BY <1>1, <1>2 DEF IInv

\* While the plan is the same and only the worker goes on.
PlanGoesOn ==
  /\ plan' = plan
  /\ worker' \in {"build", "resign", "persist", "done"} =>
        worker \in {"build", "resign", "persist", "done"}
  /\ worker' # "generate"

LEMMA PlanStays ==
  ASSUME IInv, FilesStay, PlanGoesOn
  PROVE  PlanIsStored' /\ TargetIsSpare'
BY DEF IInv, PlanIsStored, TargetIsSpare, FilesStay, PlanGoesOn

\* Without a worker there is nothing to show of the plan.
LEMMA NoWorker ==
  ASSUME worker' = "idle"
  PROVE  PlanIsStored' /\ TargetIsSpare'
BY DEF PlanIsStored, TargetIsSpare

-----------------------------------------------------------------------------
(* The steps.                                                              *)
LEMMA DialogKeeps ==
  ASSUME IInv, StartRekey \/ CancelPubkey
  PROVE  IInv'
<1>1. FilesStay
  BY StayIfUnchanged DEF StartRekey, CancelPubkey, disk, IInv
<1>2. PlanIsStored' /\ TargetIsSpare'
  BY DEF StartRekey, CancelPubkey, disk, work, IInv, PlanIsStored, TargetIsSpare
<1>3. Types' /\ SignersInMemory' /\ SignersOnDisk'
  BY DEF StartRekey, CancelPubkey, disk, IInv, Types, SignersInMemory, SignersOnDisk, HasKey
<1>4. OfferIsStored'
  <2>1. CASE StartRekey
    <3>1. \A p \in KeyPaths : holds(p) => keyFile[p].key \in Keys
      BY DEF holds, Stored
    <3> QED
      BY <2>1, <3>1 DEF StartRekey, OfferIsStored, disk
  <2>2. CASE CancelPubkey
    BY <2>2 DEF CancelPubkey, OfferIsStored
  <2> QED
    BY <2>1, <2>2
<1> QED
  BY <1>2, <1>3, <1>4 DEF IInv

LEMMA SubmitKeeps ==
  ASSUME IInv, NEW path \in KeyPaths, NEW chosen \in SUBSET Issued,
         \/ \E key \in Keys : SubmitGenerate(key, path, chosen)
         \/ \E choice \in offer : SubmitExisting(choice, path, chosen)
  PROVE  IInv'
<1>1. UNCHANGED <<keyFile, file, open, document, pending>> /\ offer' = {}
  BY DEF SubmitGenerate, SubmitExisting, Submit, disk
<1>2. Types' /\ SignersInMemory' /\ SignersOnDisk' /\ OfferIsStored'
  BY <1>1 DEF IInv, Types, SignersInMemory, SignersOnDisk, HasKey, OfferIsStored
<1>3. CASE \E key \in Keys : SubmitGenerate(key, path, chosen)
  <2>1. PICK key \in Keys : SubmitGenerate(key, path, chosen)
    BY <1>3
  <2>2. worker' = "generate" /\ plan'.key = key /\ plan'.target = path /\ keyFile'[path] = NoFile
    BY <2>1, <1>1 DEF SubmitGenerate, Submit
  <2> QED
    BY <1>2, <2>2, Constants DEF PlanIsStored, TargetIsSpare, IInv
<1>4. CASE \E choice \in offer : SubmitExisting(choice, path, chosen)
  <2>1. PICK choice \in offer : SubmitExisting(choice, path, chosen)
    BY <1>4
  <2>2. worker' = "build" /\ plan'.key = choice.key /\ plan'.target = choice.path
    BY <2>1 DEF SubmitExisting, Submit, following
  <2>3. choice.key \in Keys /\ choice.path \in KeyPaths /\ keyFile'[choice.path].key = choice.key
    BY <1>1 DEF IInv, OfferIsStored
  <2> QED
    BY <1>2, <2>2, <2>3 DEF PlanIsStored, TargetIsSpare, IInv
<1> QED
  BY <1>3, <1>4

LEMMA ObtainKeyKeeps ==
  ASSUME IInv, "torn" \notin Environment, ObtainKey
  PROVE  IInv'
<1>1. UNCHANGED <<file, open, document, pending, offer, mode, plan>>
  BY DEF ObtainKey, ui
<1>2. worker' \in {"build", "error"} /\ plan.key \in Keys /\ plan.target \in KeyPaths
  BY DEF ObtainKey, Fail, following, IInv, TargetIsSpare
<1>3. PlanIsStored' /\ TargetIsSpare'
  BY <1>1, <1>2, ObtainKeeps DEF PlanIsStored, TargetIsSpare
<1>4. OfferIsStored'
  BY <1>1 DEF ObtainKey, working, IInv, OfferIsStored
<1>5. Types'
  BY <1>1, ObtainKeeps DEF IInv, Types
<1>6. SignersInMemory' /\ SignersOnDisk'
  BY <1>1, ObtainKeeps DEF IInv, SignersInMemory, SignersOnDisk, HasKey
<1> QED
  BY <1>3, <1>4, <1>5, <1>6 DEF IInv

LEMMA BuildKeeps ==
  ASSUME IInv, BuildRekeyedCert
  PROVE  IInv'
<1>1. UNCHANGED <<keyFile, file, open, document, offer, mode, plan>>
  BY DEF BuildRekeyedCert, disk
<1>2. FilesStay
  BY <1>1, StayIfUnchanged DEF IInv
<1>3. worker = "build" /\ worker' \in {"resign", "error"}
  BY DEF BuildRekeyedCert, Fail, following
<1>4. pending' = pending \/ pending'.key = plan.key
  BY DEF BuildRekeyedCert
<1>5. plan.key \in Keys /\ HasKey(plan.key)
  BY <1>3 DEF IInv, PlanIsStored, HasKey
<1>6. Types' /\ SignersInMemory' /\ SignersOnDisk'
  BY <1>1, <1>4, <1>5 DEF IInv, Types, SignersInMemory, SignersOnDisk, HasKey
<1>7. PlanIsStored' /\ TargetIsSpare'
  BY <1>1, <1>2, <1>3, PlanStays DEF PlanGoesOn
<1>8. OfferIsStored'
  BY <1>1 DEF IInv, OfferIsStored
<1> QED
  BY <1>6, <1>7, <1>8 DEF IInv

\* A step of the worker that leaves the key files and the session alone.
LEMMA WorkerKeeps ==
  ASSUME IInv, UNCHANGED <<open, document, offer, mode, pending>>, FilesStay, PlanGoesOn,
         file' \in [Objects -> Content],
         \A object \in Objects : file'[object].signer \in {file[object].signer, plan.key},
         file' # file => worker = "resign"
  PROVE  IInv'
<1>1. PlanIsStored' /\ TargetIsSpare'
  BY PlanStays
<1>2. Types'
  BY DEF IInv, Types, FilesStay
<1>3. \A object \in Objects : file'[object].signer \in Keys => HasKey(file'[object].signer)
  <2>1. CASE file' = file
    BY <2>1 DEF IInv, SignersOnDisk
  <2>2. CASE worker = "resign"
    <3>1. HasKey(plan.key)
      BY <2>2 DEF IInv, PlanIsStored, HasKey
    <3> QED
      BY <3>1 DEF IInv, SignersOnDisk
  <2> QED
    BY <2>1, <2>2
<1>4. /\ document'.signer \in Keys => HasKey(document'.signer)
      /\ pending'.key \in Keys => HasKey(pending'.key)
      /\ offer' # {} => mode' = "EditPubKey"
  BY DEF IInv, SignersInMemory, OfferIsStored
<1> QED
  BY <1>1, <1>2, <1>3, <1>4, Settled

LEMMA ResignFileKeeps ==
  ASSUME IInv, "torn" \notin Environment, NEW object \in Issued, ResignIssuedFile(object)
  PROVE  IInv'
<1>1. UNCHANGED <<keyFile, open, document, offer, mode, pending, plan, worker>> /\ worker = "resign"
  BY DEF ResignIssuedFile, ui
<1>2. file' = file \/ file' = [file EXCEPT ![object].signer = plan.key]
  BY DEF ResignIssuedFile, FailToWriteObject
<1>3. plan.key \in Keys /\ object \in Objects
  BY <1>1, Constants DEF IInv, PlanIsStored
<1>4. /\ file' \in [Objects -> Content]
      /\ \A o \in Objects : file'[o].signer \in {file[o].signer, plan.key}
  BY <1>2, <1>3 DEF IInv, Types, Content
<1>5. FilesStay
  BY <1>1, StayIfUnchanged DEF IInv
<1> QED
  BY <1>1, <1>4, <1>5, WorkerKeeps DEF PlanGoesOn

LEMMA WorkerStepKeeps ==
  ASSUME IInv, "torn" \notin Environment, AllResigned \/ PersistState \/ WorkerDies
  PROVE  IInv'
<1>1. UNCHANGED <<open, document, offer, mode, pending, plan, file>>
  BY DEF AllResigned, PersistState, WorkerDies, disk, ui
<1>2. PlanGoesOn
  BY DEF AllResigned, PersistState, WorkerDies, following, PlanGoesOn
<1>3. FilesStay
  BY PersistStays, StayIfUnchanged DEF AllResigned, WorkerDies, disk, IInv
<1> QED
  BY <1>1, <1>2, <1>3, WorkerKeeps DEF IInv, Types

\* The certificate is written, or its file keeps what it held.
LEMMA Written ==
  ASSUME IInv, "torn" \notin Environment, NEW content \in Content, NEW changed,
         WriteCurrent(content, changed),
         content.signer \in Keys => HasKey(content.signer)
  PROVE  /\ file' \in [Objects -> Content]
         /\ \A object \in Objects : file'[object].signer \in Keys => HasKey(file'[object].signer)
<1>1. file' = file \/ file' = [file EXCEPT ![open] = content]
  BY DEF WriteCurrent, FailToWriteObject
<1> QED
  BY <1>1 DEF IInv, Types, SignersOnDisk

LEMMA ApplyOutcomeKeeps ==
  ASSUME IInv, "torn" \notin Environment, ApplyOutcome
  PROVE  IInv'
<1> DEFINE signer == IF plan.selfSigned THEN plan.key ELSE document.signer
           content == [spki |-> plan.key, signer |-> signer]
<1>1. plan.key \in Keys /\ HasKey(plan.key)
  BY DEF ApplyOutcome, IInv, PlanIsStored, HasKey
<1>2. content \in Content /\ (content.signer \in Keys => HasKey(content.signer))
  BY <1>1 DEF IInv, Types, Content, SignersInMemory
<1>3. document' = content /\ WriteCurrent(content, TRUE)
  BY DEF ApplyOutcome
<1>4. UNCHANGED <<keyFile, open, offer>> /\ pending' = NoSignature /\ worker' = "idle" /\ working
  BY DEF ApplyOutcome, PlanIsDone
<1> HIDE DEF content
<1>5. /\ file' \in [Objects -> Content]
      /\ \A object \in Objects : file'[object].signer \in Keys => HasKey(file'[object].signer)
  BY <1>2, <1>3, Written
<1>6. offer' = {}
  BY <1>4 DEF working, IInv, OfferIsStored
<1>7. Types' /\ FilesStay
  BY <1>2, <1>3, <1>4, <1>5, Constants, StayIfUnchanged DEF IInv, Types
<1> QED
  BY <1>2, <1>3, <1>4, <1>5, <1>6, <1>7, NoWorker, Settled, Constants

LEMMA NoAnswerKeeps ==
  ASSUME IInv, ApplyError \/ WorkerGone
  PROVE  IInv'
<1>1. /\ UNCHANGED <<keyFile, file, open, document, offer>>
      /\ pending' = NoSignature /\ worker' = "idle" /\ working
  BY DEF ApplyError, WorkerGone, PlanIsDone, disk, working
<1>2. offer' = {}
  BY <1>1 DEF working, IInv, OfferIsStored
<1>3. Types' /\ FilesStay
  BY <1>1, Constants, StayIfUnchanged DEF IInv, Types
<1> QED
  BY <1>1, <1>2, <1>3, NoWorker, Settled, Constants DEF IInv, SignersInMemory, SignersOnDisk

\* The session goes on without touching key files or the work.
LEMMA SessionKeeps ==
  ASSUME IInv, UNCHANGED <<keyFile, plan, worker, offer>>, mode' # mode => offer' = {},
         document' \in Content, open' \in Objects, file' \in [Objects -> Content],
         pending'.key \in Keys \cup {Authority},
         document'.signer \in Keys => HasKey(document'.signer),
         pending'.key \in Keys => HasKey(pending'.key),
         \A object \in Objects : file'[object].signer \in Keys => HasKey(file'[object].signer)
  PROVE  IInv'
<1>1. FilesStay
  BY StayIfUnchanged DEF IInv
<1>2. Types' /\ PlanIsStored' /\ TargetIsSpare'
  BY DEF IInv, Types, PlanIsStored, TargetIsSpare
<1>3. offer' # {} => mode' = "EditPubKey"
  BY DEF IInv, OfferIsStored
<1> QED
  BY <1>1, <1>2, <1>3, Settled

LEMMA ResigningKeeps ==
  ASSUME IInv, "torn" \notin Environment, Resigning
  PROVE  IInv'
<1>1. CASE \E path \in KeyPaths : StartResign(path)
  <2>1. PICK path \in KeyPaths : StartResign(path)
    BY <1>1
  <2>2. pending'.key = keyFile[path].key /\ keyFile[path].key \in Keys
    BY <2>1 DEF StartResign, holds, Stored
  <2>3. UNCHANGED <<keyFile, file, open, document, offer, plan, worker>> /\ offer' = {}
    BY <2>1 DEF StartResign, disk, work, IInv, OfferIsStored
  <2>4. HasKey(pending'.key)
    BY <2>2 DEF HasKey
  <2> QED
    BY <2>2, <2>3, <2>4, SessionKeeps DEF IInv, Types, SignersInMemory, SignersOnDisk
<1>2. CASE CancelResign
  <2>1. UNCHANGED <<keyFile, file, open, document, offer, plan, worker>> /\ offer' = {}
    BY <1>2 DEF CancelResign, disk, work, IInv, OfferIsStored
  <2>2. pending' = NoSignature
    BY <1>2 DEF CancelResign
  <2> QED
    BY <2>1, <2>2, Constants, SessionKeeps DEF IInv, Types, SignersInMemory, SignersOnDisk
<1>3. CASE SubmitResign
  <2> DEFINE content == [document EXCEPT !.signer = pending.key]
  <2>1. content \in Content /\ (content.signer \in Keys => HasKey(content.signer))
    BY DEF IInv, Types, Content, SignersInMemory
  <2>2. document' = content /\ WriteCurrent(document', TRUE)
    BY <1>3 DEF SubmitResign
  <2>3. UNCHANGED <<keyFile, open, offer, plan, worker>> /\ offer' = {} /\ pending' = NoSignature
    BY <1>3 DEF SubmitResign, work, IInv, OfferIsStored
  <2> HIDE DEF content
  <2>4. WriteCurrent(content, TRUE)
    BY <2>2
  <2>5. /\ file' \in [Objects -> Content]
        /\ \A object \in Objects : file'[object].signer \in Keys => HasKey(file'[object].signer)
    BY <2>1, <2>4, Written
  <2> QED
    BY <2>1, <2>2, <2>3, <2>5, Constants, SessionKeeps DEF IInv, Types
<1> QED
  BY <1>1, <1>2, <1>3 DEF Resigning

LEMMA FilesKeep ==
  ASSUME IInv, "torn" \notin Environment, Save \/ (\E object \in Objects : OpenFile(object))
  PROVE  IInv'
<1>1. CASE Save
  <2>1. UNCHANGED <<keyFile, open, document, mode, offer, pending, plan, worker>>
    BY <1>1 DEF Save, work
  <2>2. document \in Content /\ (document.signer \in Keys => HasKey(document.signer))
    BY DEF IInv, Types, SignersInMemory
  <2>3. /\ file' \in [Objects -> Content]
        /\ \A object \in Objects : file'[object].signer \in Keys => HasKey(file'[object].signer)
    BY <1>1, <2>2, Written DEF Save
  <2> QED
    BY <2>1, <2>2, <2>3, SessionKeeps DEF IInv, Types, SignersInMemory
<1>2. CASE \E object \in Objects : OpenFile(object)
  <2>1. PICK object \in Objects : OpenFile(object)
    BY <1>2
  <2>2. UNCHANGED <<keyFile, file, mode, offer, pending, plan, worker>>
    BY <2>1 DEF OpenFile, disk, work
  <2>3. open' = object /\ document' = file[object]
    BY <2>1 DEF OpenFile, Load
  <2> QED
    BY <2>2, <2>3, SessionKeeps DEF IInv, Types, SignersInMemory, SignersOnDisk
<1> QED
  BY <1>1, <1>2

\* Only what is on disk is left, and there the signers have their keys.
LEMMA NewProcessKeeps ==
  ASSUME IInv, NewProcess
  PROVE  IInv'
<1>1. PICK object \in Objects : Load(object)
  BY DEF NewProcess
<1>2. /\ UNCHANGED <<keyFile, file>> /\ open' = object /\ document' = file[object]
      /\ offer' = {} /\ pending' = NoSignature /\ worker' = "idle"
  BY <1>1 DEF NewProcess, Load, PlanIsDone, disk
<1>3. Types' /\ FilesStay
  BY <1>2, Constants, StayIfUnchanged DEF IInv, Types
<1> QED
  BY <1>2, <1>3, NoWorker, Settled, Constants DEF IInv, SignersInMemory, SignersOnDisk

\* A copy is made to a free name, so the original stays elsewhere.
LEMMA OtherProgramsKeep ==
  ASSUME IInv, Others
  PROVE  IInv'
<1>1. FilesStay
  BY OthersStay
<1>2. UNCHANGED <<file, open, document, mode, offer, pending, plan, worker>>
  BY DEF Others, CopyKeyFile, CreateFile, ui, work
<1>3. PlanIsStored'
  BY <1>1, <1>2 DEF IInv, PlanIsStored, FilesStay
<1>4. TargetIsSpare'
  <2> DEFINE target == plan.target
             Spare(disc) == disc[target].key \in Keys =>
                              \E path \in KeyPaths \ {target} : disc[path].key = disc[target].key
  <2>1. SUFFICES ASSUME worker = "generate" PROVE Spare(keyFile')
    BY <1>2 DEF IInv, TargetIsSpare
  <2>2. target \in KeyPaths /\ Spare(keyFile) /\ DOMAIN keyFile = KeyPaths
    BY <2>1 DEF IInv, TargetIsSpare, Types
  <2>3. CASE \E from, to \in KeyPaths : CopyKeyFile(from, to)
    <3>1. PICK from \in KeyPaths, to \in KeyPaths : CopyKeyFile(from, to)
      BY <2>3
    <3>2. /\ keyFile[from].key \in Keys /\ keyFile[to].key \notin Keys
          /\ keyFile' = [keyFile EXCEPT ![to] = keyFile[from]]
      BY <3>1, Constants DEF CopyKeyFile, holds, Stored
    <3> QED
      BY <2>2, <3>2
  <2>4. CASE \E path \in KeyPaths : CreateFile(path)
    <3>1. PICK path \in KeyPaths : CreateFile(path)
      BY <2>4
    <3>2. keyFile[path].key \notin Keys /\ keyFile' = [keyFile EXCEPT ![path] = Foreign]
      BY <3>1, Constants DEF CreateFile
    <3> QED
      BY <2>2, <3>2, Constants
  <2> QED
    BY <2>3, <2>4 DEF Others
<1>5. Types'
  BY <1>1, <1>2 DEF IInv, Types, FilesStay
<1>6. /\ document'.signer \in Keys => HasKey(document'.signer)
      /\ pending'.key \in Keys => HasKey(pending'.key)
      /\ \A object \in Objects : file'[object].signer \in Keys => HasKey(file'[object].signer)
      /\ offer' # {} => mode' = "EditPubKey"
  BY <1>2 DEF IInv, SignersInMemory, SignersOnDisk, OfferIsStored
<1> QED
  BY <1>1, <1>2, <1>3, <1>4, <1>5, <1>6, Settled

LEMMA StutterKeeps ==
  ASSUME IInv, UNCHANGED vars
  PROVE  IInv'
BY DEF vars, disk, ui, work, IInv, Types, PlanIsStored, TargetIsSpare, OfferIsStored,
       SignersInMemory, SignersOnDisk, HasKey

LEMMA InitHolds ==
  ASSUME Init
  PROVE  IInv
<1>1. PICK signer \in {First, Authority} :
        file = [o \in Objects |-> IF o = Root THEN [spki |-> First, signer |-> signer]
                                             ELSE [spki |-> Authority, signer |-> First]]
  BY DEF Init
<1>2. file \in [Objects -> Content] /\ DOMAIN keyFile = KeyPaths
  BY <1>1, Constants DEF Content, Init
<1>3. HasKey(First)
  BY Constants DEF HasKey, Init
<1>4. \A object \in Objects : file[object].signer \in {First, Authority}
  BY <1>1
<1>5. document = file[Root] /\ open = Root /\ offer = {} /\ worker = "idle" /\ pending = NoSignature
  BY DEF Init
<1> QED
  BY <1>2, <1>3, <1>4, <1>5, Constants
  DEF IInv, Types, PlanIsStored, TargetIsSpare, OfferIsStored, SignersInMemory, SignersOnDisk

LEMMA NextKeeps ==
  ASSUME IInv, "torn" \notin Environment, [Next]_vars
  PROVE  IInv'
<1>1. CASE Dialog
  BY <1>1, DialogKeeps, SubmitKeeps DEF Dialog
<1>2. CASE PerformRekey
  BY <1>2, ObtainKeyKeeps, BuildKeeps, WorkerStepKeeps, ResignFileKeeps DEF PerformRekey
<1>3. CASE WorkerDies
  BY <1>3, WorkerStepKeeps
<1>4. CASE PollRekeyProgress
  BY <1>4, ApplyOutcomeKeeps, NoAnswerKeeps DEF PollRekeyProgress
<1>5. CASE Resigning
  BY <1>5, ResigningKeeps
<1>6. CASE Save \/ (\E object \in Objects : OpenFile(object))
  BY <1>6, FilesKeep
<1>7. CASE Restart \/ Crash
  BY <1>7, NewProcessKeeps DEF Restart, Crash
<1>8. CASE Others
  BY <1>8, OtherProgramsKeep
<1>9. CASE UNCHANGED vars
  BY <1>9, StutterKeeps
<1> QED
  BY <1>1, <1>2, <1>3, <1>4, <1>5, <1>6, <1>7, <1>8, <1>9 DEF Next

(***************************************************************************)
(* Whatever fails, stops or is copied, the key an object on disk is signed *)
(* with is in a key file, as long as no write breaks off half way:         *)
(* perform_rekey writes the initial key before it signs anything.          *)
(***************************************************************************)
THEOREM SignersAreStored ==
  ASSUME "torn" \notin Environment
  PROVE  Spec => []SignerIsStored
<1>1. Init => IInv
  BY InitHolds
<1>2. IInv /\ [Next]_vars => IInv'
  BY NextKeeps
<1>3. IInv => SignerIsStored
  BY DEF IInv, SignersOnDisk, HasKey, SignerIsStored
<1> QED
  BY <1>1, <1>2, <1>3, PTL DEF Spec

-----------------------------------------------------------------------------
(***************************************************************************)
(* One-time indices.  What protects them between two re-keys is the key    *)
(* file, and during a re-key the copy of the key that the worker advances; *)
(* the registry of the library only ever makes the next index larger.      *)
(***************************************************************************)
Steps == {"build", "resign", "persist", "done"}

IndexTypes ==
  /\ keyFile \in [KeyPaths -> [key : Keys \cup {Authority}, index : Nat]]
  /\ registry \in [OneTime -> Nat] /\ held \in Nat
  /\ pending \in [key : Keys \cup {Authority}, index : Nat]
  /\ published \subseteq [key : OneTime, index : Nat, object : Objects]

WorkIsShown ==
  /\ mode \in {"Browse", "EditPubKey", "Progress", "Inline"}
  /\ worker \in Steps \cup {"idle", "generate", "error"}
  /\ worker # "idle" => working
  /\ worker \notin {"resign", "persist", "done"} => pending = NoSignature

OneFilePerKey ==
  \A p, q \in KeyPaths : keyFile[p].key \in Keys /\ keyFile[p].key = keyFile[q].key => p = q

Births ==
  /\ \A path \in KeyPaths : keyFile[path].key \in Keys => keyFile[path].key \in born
  /\ \A s \in published : s.key \in born
  /\ retired \subseteq born

PlanOfWork ==
  /\ worker = "generate" => plan.key \in Keys \ born /\ plan.target \in KeyPaths
  /\ worker \in Steps => plan.key \in born \cap Keys /\ plan.key \notin retired
  /\ worker \in Steps \ {"done"} => plan.target \in KeyPaths /\ keyFile[plan.target].key = plan.key
  /\ pending = NoSignature \/ pending.key = plan.key

\* The file of a key that is being used, or whose state could not be saved.
Behind(key) ==
  /\ key = plan.key
  /\ worker \in {"resign", "persist"} \/ (worker = "done" /\ "state" \in failures)

FilesAhead ==
  \A s \in published, path \in KeyPaths :
    s.key = keyFile[path].key /\ s.key \notin retired /\ ~Behind(s.key) => s.index < keyFile[path].index

HeldAhead ==
  worker \in Steps /\ plan.key \in OneTime =>
    /\ \A s \in published : s.key = plan.key => s.index < held
    /\ pending.key = plan.key =>
         /\ pending.index < held
         /\ \A s \in published : s.key = plan.key => s.index # pending.index

\* After the state was saved.
PendingAhead ==
  worker = "done" /\ "state" \notin failures /\ plan.key \in OneTime /\ pending.key = plan.key =>
    \A path \in KeyPaths : keyFile[path].key = plan.key => pending.index < keyFile[path].index

MInv ==
  /\ IndexTypes /\ WorkIsShown /\ OfferIsStored /\ OneFilePerKey /\ Births /\ PlanOfWork
  /\ FilesAhead /\ HeldAhead /\ PendingAhead /\ OneMessagePerIndex

LEMMA LeafIsAhead ==
  ASSUME IndexTypes, NEW key \in OneTime, NEW index \in Nat
  PROVE  leaf(key, index) \in Nat /\ leaf(key, index) >= index
BY DEF IndexTypes, leaf, larger

LEMMA ConsumeTypes ==
  ASSUME IndexTypes, NEW key, NEW index \in Nat, Consume(key, index)
  PROVE  registry' \in [OneTime -> Nat]
<1>1. key \in OneTime => leaf(key, index) + 1 \in Nat
  BY LeafIsAhead
<1> DEFINE next == leaf(key, index) + 1
<1>2. registry' = IF key \in OneTime THEN [registry EXCEPT ![key] = next] ELSE registry
  BY DEF Consume
<1> HIDE DEF next
<1> QED
  BY <1>1, <1>2 DEF IndexTypes, next

LEMMA AdvancedIsAhead ==
  ASSUME IndexTypes, NEW key, NEW index \in Nat
  PROVE  /\ advanced(key, index) \in Nat
         /\ key \in OneTime => advanced(key, index) = leaf(key, index) + 1
BY LeafIsAhead DEF advanced

LEMMA PublishTypes ==
  ASSUME IndexTypes, NEW key, NEW index, key \in OneTime => index \in Nat,
         NEW object \in Objects, Publish(key, index, object)
  PROVE  published' \subseteq [key : OneTime, index : Nat, object : Objects]
BY DEF IndexTypes, Publish

LEMMA PublishIsFresh ==
  ASSUME OneMessagePerIndex, NEW key, NEW index, NEW object, Publish(key, index, object),
         key \in OneTime => \A s \in published : s.key = key => s.index # index
  PROVE  OneMessagePerIndex'
BY DEF OneMessagePerIndex, Publish

-----------------------------------------------------------------------------
(* The steps.                                                              *)
indexVars == <<keyFile, registry, held, pending, published, born, retired, plan, worker, failures>>

\* Dialogs, saving and opening have nothing to do with indices.
LEMMA QuietKeeps ==
  ASSUME MInv, UNCHANGED indexVars, OfferIsStored',
         mode' \in {"Browse", "EditPubKey", "Progress", "Inline"}, working => working'
  PROVE  MInv'
<1>1. IndexTypes' /\ OneFilePerKey' /\ Births' /\ OneMessagePerIndex'
  BY DEF MInv, indexVars, IndexTypes, OneFilePerKey, Births, OneMessagePerIndex
<1>2. WorkIsShown' /\ PlanOfWork'
  BY DEF MInv, indexVars, WorkIsShown, PlanOfWork
<1>3. FilesAhead' /\ HeldAhead' /\ PendingAhead'
  BY DEF MInv, indexVars, FilesAhead, HeldAhead, PendingAhead, Behind
<1> QED
  BY <1>1, <1>2, <1>3 DEF MInv

LEMMA SessionIsQuiet ==
  ASSUME MInv, StartRekey \/ CancelPubkey \/ Save \/ (\E object \in Objects : OpenFile(object))
  PROVE  MInv'
<1>1. UNCHANGED indexVars
  BY DEF StartRekey, CancelPubkey, Save, OpenFile, disk, work, ghost, indexVars
<1>2. mode' \in {"Browse", "EditPubKey"} /\ ~working
  BY DEF StartRekey, CancelPubkey, Save, OpenFile, working
<1>3. OfferIsStored'
  <2>1. CASE StartRekey
    <3>1. \A p \in KeyPaths : holds(p) => keyFile[p].key \in Keys
      BY DEF holds, Stored
    <3> QED
      BY <2>1, <3>1 DEF StartRekey, OfferIsStored, disk
  <2>2. CASE CancelPubkey
    BY <2>2 DEF CancelPubkey, OfferIsStored
  <2>3. CASE Save \/ (\E object \in Objects : OpenFile(object))
    BY <2>3 DEF Save, OpenFile, disk, MInv, OfferIsStored
  <2> QED
    BY <2>1, <2>2, <2>3
<1> QED
  BY <1>1, <1>2, <1>3, QuietKeeps

LEMMA SubmitIsAhead ==
  ASSUME MInv, NEW path \in KeyPaths, NEW chosen \in SUBSET Issued,
         \/ \E key \in Keys : SubmitGenerate(key, path, chosen)
         \/ \E choice \in offer : SubmitExisting(choice, path, chosen)
  PROVE  MInv'
<1>1. /\ UNCHANGED <<keyFile, registry, pending, published, born, retired>>
      /\ offer' = {} /\ failures' = {} /\ mode' \in {"Progress", "Inline"}
      /\ mode = "EditPubKey"
  BY DEF SubmitGenerate, SubmitExisting, Submit, disk, ghost
<1>2. worker = "idle" /\ pending = NoSignature
  BY <1>1 DEF MInv, WorkIsShown, working
<1>3. \/ /\ worker' = "generate" /\ plan'.key \in Keys \ born /\ plan'.target \in KeyPaths /\ held' = 0
      \/ /\ worker' = "build" /\ plan'.key \in Keys \ retired /\ plan'.target \in KeyPaths
         /\ keyFile[plan'.target].key = plan'.key
         /\ keyFile[path].key = plan'.key /\ held' = keyFile[path].index
  <2>1. CASE \E key \in Keys : SubmitGenerate(key, path, chosen)
    BY <2>1 DEF SubmitGenerate, Submit
  <2>2. CASE \E choice \in offer : SubmitExisting(choice, path, chosen)
    <3>1. PICK choice \in offer : SubmitExisting(choice, path, chosen)
      BY <2>2
    <3>2. choice.key \in Keys /\ choice.path \in KeyPaths /\ keyFile[choice.path].key = choice.key
      BY DEF MInv, OfferIsStored
    <3> QED
      BY <3>1, <3>2 DEF SubmitExisting, Submit, following
  <2> QED
    BY <2>1, <2>2
<1>4. IndexTypes'
  BY <1>1, <1>3 DEF MInv, IndexTypes
<1>5. WorkIsShown' /\ OfferIsStored' /\ OneFilePerKey' /\ Births' /\ OneMessagePerIndex'
  BY <1>1, <1>2, <1>3
  DEF MInv, WorkIsShown, OfferIsStored, OneFilePerKey, Births, OneMessagePerIndex, Steps, working
<1>6. PlanOfWork'
  BY <1>1, <1>2, <1>3 DEF MInv, PlanOfWork, Births, Steps
<1>7. \A s \in published, p \in KeyPaths :
        s.key = keyFile[p].key /\ s.key \notin retired => s.index < keyFile[p].index
  BY <1>2 DEF MInv, FilesAhead, Behind
<1>8. FilesAhead' /\ PendingAhead'
  BY <1>1, <1>3, <1>7 DEF FilesAhead, PendingAhead
<1>9. HeldAhead'
  BY <1>1, <1>2, <1>3, <1>7, Constants DEF HeldAhead, Steps
<1> QED
  BY <1>4, <1>5, <1>6, <1>8, <1>9 DEF MInv

\* Nothing was signed with a new key, and its name held another one or none.
LEMMA ObtainIsAhead ==
  ASSUME MInv, ObtainKey
  PROVE  MInv'
<1>1. /\ UNCHANGED <<pending, offer, mode, plan, held, failures, registry, published, retired>>
      /\ working /\ worker = "generate"
  BY DEF ObtainKey, ui
<1>2. plan.key \in Keys \ born /\ plan.target \in KeyPaths /\ pending = NoSignature /\ offer = {}
  BY <1>1 DEF MInv, PlanOfWork, WorkIsShown, OfferIsStored, working
<1>3. \A s \in published : s.key # plan.key
  BY <1>2 DEF MInv, Births
<1>4. \A s \in published, p \in KeyPaths :
        s.key = keyFile[p].key /\ s.key \notin retired => s.index < keyFile[p].index
  BY <1>1 DEF MInv, FilesAhead, Behind
<1>5. CASE /\ keyFile' = [keyFile EXCEPT ![plan.target] = [key |-> plan.key, index |-> 0]]
           /\ worker' = "build" /\ born' = born \cup {plan.key}
  <2>1. IndexTypes'
    BY <1>1, <1>2, <1>5 DEF MInv, IndexTypes
  <2>2. \A p \in KeyPaths : keyFile'[p] = IF p = plan.target THEN [key |-> plan.key, index |-> 0] ELSE keyFile[p]
    BY <1>5 DEF MInv, IndexTypes
  <2>3. OneFilePerKey' /\ Births'
    BY <1>1, <1>2, <1>5, <2>2 DEF MInv, OneFilePerKey, Births
  <2>4. WorkIsShown' /\ OfferIsStored' /\ OneMessagePerIndex'
    BY <1>1, <1>2, <1>5 DEF MInv, WorkIsShown, OfferIsStored, OneMessagePerIndex, Steps, working
  <2>5. PlanOfWork'
    BY <1>1, <1>2, <1>5, <2>2 DEF MInv, PlanOfWork, Births, Steps
  <2>6. FilesAhead' /\ PendingAhead'
    BY <1>1, <1>3, <1>4, <1>5, <2>2 DEF FilesAhead, PendingAhead
  <2>7. HeldAhead'
    BY <1>1, <1>2, <1>3, <1>5, Constants DEF HeldAhead
  <2> QED
    BY <2>1, <2>3, <2>4, <2>5, <2>6, <2>7 DEF MInv
<1>6. CASE /\ keyFile' = keyFile \/ keyFile' = [keyFile EXCEPT ![plan.target] = Foreign]
           /\ worker' = "error" /\ born' = born
  <2>1. IndexTypes'
    BY <1>1, <1>2, <1>6 DEF MInv, IndexTypes, Foreign
  <2>2. \A p \in KeyPaths : keyFile'[p] \in {keyFile[p], Foreign}
    BY <1>6 DEF MInv, IndexTypes
  <2>3. OneFilePerKey' /\ Births'
    BY <1>1, <1>6, <2>2, Constants DEF MInv, OneFilePerKey, Births
  <2>4. WorkIsShown' /\ OfferIsStored' /\ OneMessagePerIndex' /\ PlanOfWork'
    BY <1>1, <1>2, <1>6
    DEF MInv, WorkIsShown, OfferIsStored, OneMessagePerIndex, PlanOfWork, Steps, working
  <2>5. \A s \in published : s.key # Foreign.key
    BY Constants, ParametersAreSound DEF MInv, IndexTypes, Foreign
  <2>6. FilesAhead' /\ PendingAhead' /\ HeldAhead'
    BY <1>1, <1>4, <1>6, <2>2, <2>5 DEF FilesAhead, PendingAhead, HeldAhead, Steps
  <2> QED
    BY <2>1, <2>3, <2>4, <2>6 DEF MInv
<1> QED
  BY <1>5, <1>6 DEF ObtainKey, FailToWriteKey, Fail, following

LEMMA BuildIsAhead ==
  ASSUME MInv, BuildRekeyedCert
  PROVE  MInv'
<1>1. /\ UNCHANGED <<keyFile, offer, mode, plan, failures, published, born, retired>>
      /\ working /\ worker = "build" /\ worker' \in {"resign", "error"}
  BY DEF BuildRekeyedCert, disk, ghost, Fail, following
<1>2. plan.key \in Keys /\ pending = NoSignature /\ held \in Nat
  BY <1>1 DEF MInv, PlanOfWork, WorkIsShown, IndexTypes, Steps
<1>3. plan.key \in OneTime => \A s \in published : s.key = plan.key => s.index < held
  BY <1>1 DEF MInv, HeldAhead, Steps
<1>4. \/ /\ worker' = "resign" /\ Consume(plan.key, held)
         /\ pending' = [key |-> plan.key, index |-> leaf(plan.key, held)]
         /\ held' = advanced(plan.key, held)
      \/ UNCHANGED <<held, registry, pending>>
  BY DEF BuildRekeyedCert, following
<1>5. /\ leaf(plan.key, held) \in Nat /\ leaf(plan.key, held) >= held
      /\ held' \in Nat /\ registry' \in [OneTime -> Nat]
  <2>1. plan.key \in OneTime => leaf(plan.key, held) \in Nat /\ leaf(plan.key, held) >= held
    BY <1>2, LeafIsAhead DEF MInv
  <2>2. plan.key \notin OneTime => leaf(plan.key, held) = held
    BY DEF leaf
  <2>3. advanced(plan.key, held) \in Nat
    BY <1>2, AdvancedIsAhead DEF MInv
  <2>4. Consume(plan.key, held) => registry' \in [OneTime -> Nat]
    BY <1>2, ConsumeTypes DEF MInv
  <2> QED
    BY <1>2, <1>4, <2>1, <2>2, <2>3, <2>4 DEF MInv, IndexTypes
<1>6. IndexTypes'
  BY <1>1, <1>2, <1>4, <1>5 DEF MInv, IndexTypes
<1>7. OfferIsStored' /\ OneFilePerKey' /\ Births' /\ OneMessagePerIndex'
  BY <1>1 DEF MInv, OfferIsStored, OneFilePerKey, Births, OneMessagePerIndex
<1>8. WorkIsShown' /\ PlanOfWork'
  BY <1>1, <1>2, <1>4 DEF MInv, WorkIsShown, PlanOfWork, Steps, working, BuildRekeyedCert, Fail
<1>9. FilesAhead' /\ PendingAhead'
  BY <1>1 DEF MInv, FilesAhead, PendingAhead, Behind
<1>10. HeldAhead'
  <2>1. CASE UNCHANGED <<held, registry, pending>>
    BY <1>1, <1>2, <1>3, <2>1, Constants DEF HeldAhead
  <2>2. CASE /\ pending' = [key |-> plan.key, index |-> leaf(plan.key, held)]
             /\ held' = advanced(plan.key, held)
    <3> DEFINE index == leaf(plan.key, held)
    <3>1. SUFFICES ASSUME plan.key \in OneTime
                   PROVE  /\ \A s \in published : s.key = plan.key => s.index < held'
                          /\ pending'.index < held'
                          /\ \A s \in published : s.key = plan.key => s.index # pending'.index
      BY <1>1 DEF HeldAhead
    <3>2. held' = index + 1 /\ pending'.index = index
      BY <1>2, <2>2, <3>1, AdvancedIsAhead DEF MInv
    <3>3. \A s \in published : s.index \in Nat
      BY DEF MInv, IndexTypes
    <3> HIDE DEF index
    <3>4. index \in Nat /\ index >= held
      BY <1>5 DEF index
    <3> QED
      BY <1>2, <1>3, <3>1, <3>2, <3>3, <3>4
  <2> QED
    BY <1>4, <2>1, <2>2
<1> QED
  BY <1>6, <1>7, <1>8, <1>9, <1>10 DEF MInv

\* The worker goes on and may use the key; nothing but its own key's file
\* falls behind.
LEMMA ResignIsAhead ==
  ASSUME MInv, NEW object \in Issued, ResignIssuedFile(object)
  PROVE  MInv'
<1> DEFINE index == leaf(plan.key, held)
<1>1. /\ UNCHANGED <<keyFile, offer, mode, plan, worker, pending, born, retired>>
      /\ working /\ worker = "resign"
  BY DEF ResignIssuedFile, ui
<1>2. plan.key \in Keys /\ held \in Nat /\ object \in Objects
  BY <1>1, Constants DEF MInv, PlanOfWork, IndexTypes, Steps
<1>3. \/ /\ Consume(plan.key, held) /\ Publish(plan.key, index, object)
         /\ held' = advanced(plan.key, held)
      \/ Consume(plan.key, held) /\ UNCHANGED <<held, published>>
      \/ UNCHANGED <<held, published, registry>>
  BY DEF ResignIssuedFile
<1>4. plan.key \in OneTime => index \in Nat /\ index >= held
  BY <1>2, LeafIsAhead DEF MInv
<1>5. Consume(plan.key, held) => registry' \in [OneTime -> Nat]
  BY <1>2, ConsumeTypes DEF MInv
<1>6. advanced(plan.key, held) \in Nat /\ (plan.key \in OneTime => advanced(plan.key, held) = index + 1)
  BY <1>2, AdvancedIsAhead DEF MInv
<1>7. Publish(plan.key, index, object) =>
        published' \subseteq [key : OneTime, index : Nat, object : Objects]
  BY <1>2, <1>4, PublishTypes DEF MInv
<1> HIDE DEF index
<1>8. IndexTypes'
  BY <1>1, <1>2, <1>3, <1>5, <1>6, <1>7 DEF MInv, IndexTypes
<1>9. plan.key \in OneTime =>
        /\ \A s \in published : s.key = plan.key => s.index \in Nat /\ s.index < held
        /\ pending.key = plan.key =>
             /\ pending.index \in Nat /\ pending.index < held
             /\ \A s \in published : s.key = plan.key => s.index # pending.index
  BY <1>1 DEF MInv, HeldAhead, IndexTypes, Steps
<1>10. \A s \in published' :
         s \in published \/ (s.key = plan.key /\ plan.key \in OneTime /\ s.index = index /\ held' = index + 1)
  BY <1>3, <1>6 DEF Publish
<1>11. held' = held \/ (plan.key \in OneTime => held' = index + 1)
  BY <1>3, <1>6
<1>12. HeldAhead'
  <2>1. SUFFICES ASSUME plan.key \in OneTime
                 PROVE  /\ \A s \in published' : s.key = plan.key => s.index < held'
                        /\ pending.key = plan.key =>
                             /\ pending.index < held'
                             /\ \A s \in published' : s.key = plan.key => s.index # pending.index
    BY <1>1 DEF HeldAhead
  <2>2. index \in Nat /\ index >= held /\ (held' = held \/ held' = index + 1)
    BY <1>4, <1>11, <2>1
  <2>3. ASSUME NEW s \in published', s.key = plan.key
        PROVE  s.index < held' /\ (pending.key = plan.key => s.index # pending.index)
    <3>1. CASE s \in published
      BY <1>2, <1>9, <2>1, <2>2, <2>3, <3>1
    <3>2. CASE s.index = index /\ held' = index + 1
      BY <1>2, <1>9, <2>1, <2>2, <3>2
    <3> QED
      BY <1>10, <3>1, <3>2
  <2>4. pending.key = plan.key => pending.index < held'
    BY <1>2, <1>9, <2>1, <2>2
  <2> QED
    BY <2>3, <2>4
<1>13. OneMessagePerIndex'
  <2>1. Publish(plan.key, index, object) => OneMessagePerIndex'
    <3>1. plan.key \in OneTime => \A s \in published : s.key = plan.key => s.index # index
      BY <1>2, <1>4, <1>9
    <3> QED
      BY <3>1, PublishIsFresh DEF MInv
  <2>2. UNCHANGED published => OneMessagePerIndex'
    BY DEF MInv, OneMessagePerIndex
  <2> QED
    BY <1>3, <2>1, <2>2
<1>14. OfferIsStored' /\ OneFilePerKey' /\ WorkIsShown' /\ PlanOfWork'
  BY <1>1 DEF MInv, OfferIsStored, OneFilePerKey, WorkIsShown, PlanOfWork, Steps, working
<1>15. Births' /\ FilesAhead' /\ PendingAhead'
  BY <1>1, <1>10 DEF MInv, Births, PlanOfWork, FilesAhead, PendingAhead, Behind, Steps
<1> QED
  BY <1>8, <1>12, <1>13, <1>14, <1>15 DEF MInv

LEMMA AllResignedIsAhead ==
  ASSUME MInv, AllResigned
  PROVE  MInv'
<1>1. /\ UNCHANGED <<keyFile, registry, held, pending, published, born, retired, plan, failures, mode, offer>>
      /\ working /\ worker = "resign" /\ worker' = "persist"
  BY DEF AllResigned, disk, ui, ghost, following
<1>2. IndexTypes' /\ OfferIsStored' /\ OneFilePerKey' /\ Births' /\ OneMessagePerIndex'
  BY <1>1 DEF MInv, IndexTypes, OfferIsStored, OneFilePerKey, Births, OneMessagePerIndex
<1>3. WorkIsShown' /\ PlanOfWork' /\ HeldAhead'
  BY <1>1 DEF MInv, WorkIsShown, PlanOfWork, HeldAhead, Steps, working
<1>4. FilesAhead' /\ PendingAhead'
  BY <1>1 DEF MInv, FilesAhead, PendingAhead, Behind
<1> QED
  BY <1>2, <1>3, <1>4 DEF MInv

\* The saved state is past every index that was used, and a failure to save
\* it is remembered.
LEMMA PersistIsAhead ==
  ASSUME MInv, PersistState
  PROVE  MInv'
<1>1. /\ UNCHANGED <<registry, held, pending, published, born, retired, plan, mode, offer>>
      /\ working /\ worker = "persist" /\ worker' = "done"
  BY DEF PersistState, ui, ghost
<1>2. /\ plan.key \in born \cap Keys /\ plan.key \notin retired /\ plan.target \in KeyPaths
      /\ keyFile[plan.target].key = plan.key /\ held \in Nat /\ offer = {}
  BY <1>1 DEF MInv, PlanOfWork, IndexTypes, Steps, OfferIsStored, working
<1>3. \/ plan.key \notin OneTime /\ UNCHANGED keyFile
      \/ keyFile' = [keyFile EXCEPT ![plan.target] = [key |-> plan.key, index |-> held]]
      \/ /\ keyFile' = keyFile \/ keyFile' = [keyFile EXCEPT ![plan.target] = Foreign]
         /\ "state" \in failures'
  BY DEF PersistState, FailToWriteKey
<1>4. DOMAIN keyFile = KeyPaths
  BY DEF MInv, IndexTypes
<1>5. \A p \in KeyPaths : \/ keyFile'[p] = keyFile[p] \/ keyFile'[p] = Foreign
                          \/ p = plan.target /\ keyFile'[p] = [key |-> plan.key, index |-> held]
  BY <1>3, <1>4
<1>6. keyFile' \in [KeyPaths -> [key : Keys \cup {Authority}, index : Nat]]
  BY <1>2, <1>3 DEF MInv, IndexTypes, Foreign
<1>7. IndexTypes'
  BY <1>1, <1>6 DEF MInv, IndexTypes
<1>8. OneFilePerKey' /\ Births'
  BY <1>1, <1>2, <1>5, Constants DEF MInv, OneFilePerKey, Births
<1>9. OfferIsStored' /\ WorkIsShown' /\ PlanOfWork' /\ OneMessagePerIndex' /\ HeldAhead'
  BY <1>1, <1>2
  DEF MInv, OfferIsStored, WorkIsShown, PlanOfWork, OneMessagePerIndex, HeldAhead, Steps, working
<1>10. \A p \in KeyPaths : keyFile'[p].key = plan.key /\ plan.key \in OneTime /\ "state" \notin failures' =>
          keyFile'[p].index = held
  <2>1. SUFFICES ASSUME NEW p \in KeyPaths, keyFile'[p].key = plan.key,
                        keyFile' = [keyFile EXCEPT ![plan.target] = [key |-> plan.key, index |-> held]]
                 PROVE  keyFile'[p].index = held
    BY <1>3
  <2>2. CASE p = plan.target
    BY <1>2, <1>4, <2>1, <2>2
  <2>3. CASE p # plan.target
    <3>1. keyFile[p].key = plan.key
      BY <1>4, <2>1, <2>3
    <3> QED
      BY <1>2, <2>3, <3>1 DEF MInv, OneFilePerKey
  <2> QED
    BY <2>2, <2>3
<1>11. FilesAhead'
  <2>1. SUFFICES ASSUME NEW s \in published, NEW p \in KeyPaths,
                        s.key = keyFile'[p].key, s.key \notin retired, ~Behind(s.key)'
                 PROVE  s.index < keyFile'[p].index
    BY <1>1 DEF FilesAhead
  <2>2. s.key \in OneTime /\ OneTime \subseteq Keys
    BY ParametersAreSound DEF MInv, IndexTypes
  <2>3. CASE s.key = plan.key
    <3>1. keyFile'[p].index = held
      BY <1>1, <1>10, <2>1, <2>2, <2>3 DEF Behind
    <3> QED
      BY <1>1, <2>2, <2>3, <3>1 DEF MInv, HeldAhead, Steps
  <2>4. CASE s.key # plan.key
    <3>1. keyFile'[p] = keyFile[p]
      BY <1>5, <2>1, <2>2, <2>4, Constants
    <3> QED
      BY <2>1, <2>4, <3>1 DEF MInv, FilesAhead, Behind
  <2> QED
    BY <2>3, <2>4
<1>12. PendingAhead'
  BY <1>1, <1>10 DEF MInv, PendingAhead, HeldAhead, Steps
<1> QED
  BY <1>7, <1>8, <1>9, <1>11, <1>12 DEF MInv

\* Installed: the certificate's own signature leaves the process.
LEMMA OutcomeIsAhead ==
  ASSUME MInv, ApplyOutcome
  PROVE  MInv'
<1>1. /\ UNCHANGED <<keyFile, registry, born, offer>>
      /\ working /\ worker = "done" /\ worker' = "idle" /\ mode' = "Browse"
      /\ pending' = NoSignature /\ held' = 0 /\ plan' = NoPlan
      /\ Publish(pending.key, pending.index, Root)
      /\ retired' = IF "state" \in failures THEN retired \cup {plan.key} ELSE retired
  BY DEF ApplyOutcome, PlanIsDone
<1>2. /\ plan.key \in born \cap Keys /\ offer = {} /\ pending.index \in Nat
      /\ pending = NoSignature \/ pending.key = plan.key
  BY <1>1 DEF MInv, PlanOfWork, OfferIsStored, IndexTypes, Steps, working
<1>3. pending.key \in OneTime => pending.key = plan.key
  BY <1>2, Constants, ParametersAreSound
<1>4. \A s \in published' : s \in published \/
         (s.key = plan.key /\ s.key = pending.key /\ s.index = pending.index /\ plan.key \in OneTime)
  BY <1>1, <1>3 DEF Publish
<1>5. IndexTypes'
  <2>1. published' \subseteq [key : OneTime, index : Nat, object : Objects]
    BY <1>1, <1>2, Constants, PublishTypes DEF MInv
  <2> QED
    BY <1>1, <2>1, Constants DEF MInv, IndexTypes, NoSignature
<1>6. OneMessagePerIndex'
  <2>1. pending.key \in OneTime => \A s \in published : s.key = pending.key => s.index # pending.index
    BY <1>1, <1>3 DEF MInv, HeldAhead, Steps
  <2> QED
    BY <1>1, <2>1, PublishIsFresh DEF MInv
<1>7. OfferIsStored' /\ OneFilePerKey' /\ Births'
  BY <1>1, <1>2, <1>4 DEF MInv, OfferIsStored, OneFilePerKey, Births
<1>8. WorkIsShown' /\ PlanOfWork' /\ HeldAhead' /\ PendingAhead'
  BY <1>1 DEF WorkIsShown, PlanOfWork, HeldAhead, PendingAhead, Steps
<1>9. FilesAhead'
  <2>1. SUFFICES ASSUME NEW s \in published', NEW p \in KeyPaths, s.key = keyFile[p].key, s.key \notin retired'
                 PROVE  s.index < keyFile[p].index
    BY <1>1 DEF FilesAhead
  <2>2. s.key \notin retired /\ (s.key = plan.key => "state" \notin failures)
    BY <1>1, <2>1
  <2>3. CASE s \in published
    BY <1>1, <2>1, <2>2, <2>3 DEF MInv, FilesAhead, Behind
  <2>4. CASE s.key = plan.key /\ s.key = pending.key /\ s.index = pending.index /\ plan.key \in OneTime
    BY <1>1, <2>1, <2>2, <2>4 DEF MInv, PendingAhead
  <2> QED
    BY <1>4, <2>3, <2>4
<1> QED
  BY <1>5, <1>6, <1>7, <1>8, <1>9 DEF MInv

\* An error comes before the first signature, a restart after the last.
LEMMA EndIsAhead ==
  ASSUME MInv, UNCHANGED <<keyFile, published, born, retired>>, registry' \in [OneTime -> Nat],
         PlanIsDone, offer' = {}, worker \in {"idle", "error"}
  PROVE  MInv'
<1>1. mode' = "Browse" /\ pending' = NoSignature /\ worker' = "idle" /\ held' = 0
  BY DEF PlanIsDone
<1>2. IndexTypes' /\ OneFilePerKey' /\ Births' /\ OneMessagePerIndex'
  BY <1>1 DEF MInv, IndexTypes, OneFilePerKey, Births, OneMessagePerIndex, NoSignature
<1>3. WorkIsShown' /\ PlanOfWork' /\ HeldAhead' /\ PendingAhead' /\ OfferIsStored'
  BY <1>1 DEF WorkIsShown, PlanOfWork, HeldAhead, PendingAhead, OfferIsStored, Steps
<1>4. FilesAhead'
  BY <1>1 DEF MInv, FilesAhead, Behind
<1> QED
  BY <1>2, <1>3, <1>4 DEF MInv

LEMMA CreateIsAhead ==
  ASSUME MInv, NEW path \in KeyPaths, CreateFile(path)
  PROVE  MInv'
<1>1. /\ UNCHANGED <<registry, held, pending, published, born, retired, plan, worker, failures, mode, offer>>
      /\ keyFile[path].key \notin Keys /\ keyFile' = [keyFile EXCEPT ![path] = Foreign]
  BY Constants DEF CreateFile, ui, work, ghost
<1>2. \A p \in KeyPaths : keyFile[p].key \in Keys => keyFile'[p] = keyFile[p]
  BY <1>1 DEF MInv, IndexTypes
<1>3. \A p \in KeyPaths : keyFile'[p] \in {keyFile[p], Foreign}
  BY <1>1 DEF MInv, IndexTypes
<1>4. IndexTypes'
  BY <1>1 DEF MInv, IndexTypes, Foreign
<1>5. OneFilePerKey' /\ Births' /\ OneMessagePerIndex' /\ OfferIsStored'
  BY <1>1, <1>2, <1>3, Constants DEF MInv, OneFilePerKey, Births, OneMessagePerIndex, OfferIsStored
<1>6. WorkIsShown' /\ HeldAhead'
  BY <1>1 DEF MInv, WorkIsShown, HeldAhead, working
<1>7. PlanOfWork'
  BY <1>1, <1>2 DEF MInv, PlanOfWork, Steps
<1>8. \A p \in KeyPaths : keyFile'[p].key \in Keys => keyFile'[p] = keyFile[p]
  BY <1>3, Constants
<1>9. FilesAhead'
  <2>1. \A s \in published : s.key \in Keys
    BY ParametersAreSound DEF MInv, IndexTypes
  <2> QED
    BY <1>1, <1>8, <2>1 DEF MInv, FilesAhead, Behind
<1>10. PendingAhead'
  BY <1>1, <1>8, ParametersAreSound DEF MInv, PendingAhead
<1> QED
  BY <1>4, <1>5, <1>6, <1>7, <1>9, <1>10 DEF MInv

LEMMA InitIsAhead ==
  ASSUME Init
  PROVE  MInv
<1>1. keyFile = [p \in KeyPaths |-> IF p = FirstPath THEN [key |-> First, index |-> 0] ELSE NoFile]
  BY DEF Init
<1>2. /\ mode = "Browse" /\ offer = {} /\ worker = "idle" /\ held = 0 /\ pending = NoSignature
      /\ registry = [k \in OneTime |-> 0] /\ born = {First} /\ published = {} /\ retired = {}
  BY DEF Init
<1>3. IndexTypes
  BY <1>1, <1>2, Constants DEF IndexTypes, NoFile, NoSignature
<1>4. OneFilePerKey /\ Births
  BY <1>1, <1>2, Constants DEF OneFilePerKey, Births
<1>5. WorkIsShown /\ PlanOfWork /\ HeldAhead /\ PendingAhead /\ OfferIsStored
  BY <1>2 DEF WorkIsShown, PlanOfWork, HeldAhead, PendingAhead, OfferIsStored, Steps
<1>6. FilesAhead /\ OneMessagePerIndex
  BY <1>2 DEF FilesAhead, OneMessagePerIndex
<1> QED
  BY <1>3, <1>4, <1>5, <1>6 DEF MInv

\* Restarts, torn writes and names taken by other programs; no crash, no
\* copied key file, no worker that dies, and no re-sign dialog.
Orderly == Environment \subseteq {"restart", "torn", "create"}

LEMMA NextIsAhead ==
  ASSUME MInv, Orderly, [Next]_vars
  PROVE  MInv'
<1>1. CASE Dialog
  BY <1>1, SessionIsQuiet, SubmitIsAhead DEF Dialog
<1>2. CASE PerformRekey
  BY <1>2, ObtainIsAhead, BuildIsAhead, AllResignedIsAhead, PersistIsAhead, ResignIsAhead DEF PerformRekey
<1>3. CASE PollRekeyProgress
  <2>1. CASE ApplyOutcome
    BY <2>1, OutcomeIsAhead
  <2>2. CASE ApplyError
    <3>1. /\ UNCHANGED <<keyFile, published, born, retired, registry, offer>>
          /\ PlanIsDone /\ worker = "error" /\ working
      BY <2>2 DEF ApplyError, disk, ghost
    <3>2. offer' = {}
      BY <3>1 DEF MInv, OfferIsStored, working
    <3> QED
      BY <3>1, <3>2, EndIsAhead DEF MInv, IndexTypes
  <2>3. CASE WorkerGone
    BY <2>3 DEF WorkerGone, MInv, WorkIsShown, Steps
  <2> QED
    BY <1>3, <2>1, <2>2, <2>3 DEF PollRekeyProgress
<1>4. CASE Save \/ (\E object \in Objects : OpenFile(object))
  BY <1>4, SessionIsQuiet
<1>5. CASE Restart
  <2>1. /\ UNCHANGED <<keyFile, published, born, retired>> /\ PlanIsDone /\ offer' = {}
        /\ registry' = [k \in OneTime |-> 0] /\ worker = "idle"
    BY <1>5 DEF Restart, NewProcess, disk, ghost, MInv, WorkIsShown, working
  <2> QED
    BY <2>1, EndIsAhead
<1>6. CASE Others
  BY <1>6, CreateIsAhead DEF Others, CopyKeyFile, Orderly
<1>7. CASE Resigning
  BY <1>7 DEF Resigning, StartResign, CancelResign, SubmitResign, Orderly, MInv, WorkIsShown
<1>8. CASE WorkerDies \/ Crash
  BY <1>8 DEF WorkerDies, Crash, Orderly
<1>9. CASE UNCHANGED vars
  BY <1>9, QuietKeeps DEF vars, disk, ui, work, ghost, indexVars, MInv, OfferIsStored, WorkIsShown, working
<1> QED
  BY <1>1, <1>2, <1>3, <1>4, <1>5, <1>6, <1>7, <1>8, <1>9 DEF Next

(***************************************************************************)
(* A one-time index never signs two messages, over any number of re-keys,  *)
(* failing and torn writes and restarts, whatever the number of keys,      *)
(* files, objects and leaves: perform_rekey writes the final state after   *)
(* its signatures, and a key whose state could not be saved is given up.   *)
(***************************************************************************)
THEOREM IndicesAreUsedOnce ==
  ASSUME Orderly
  PROVE  Spec => []OneMessagePerIndex
<1>1. Init => MInv
  BY InitIsAhead
<1>2. MInv /\ [Next]_vars => MInv'
  BY NextIsAhead
<1>3. MInv => OneMessagePerIndex
  BY DEF MInv
<1> QED
  BY <1>1, <1>2, <1>3, PTL DEF Spec

-----------------------------------------------------------------------------
(***************************************************************************)
(* Errors.  They come before the first object is written, and whatever     *)
(* writes an object later takes the report of the error away.              *)
(***************************************************************************)
EInv ==
  /\ worker # "idle" => working
  /\ report # NoReport => mode = "Browse"
  /\ worker \in {"generate", "build", "error"} => file = plan.before
  /\ ErrorLeavesObjects

LEMMA ErrorStep ==
  ASSUME EInv, [Next]_vars
  PROVE  EInv'
<1> USE DEF EInv, working, ErrorLeavesObjects
<1>1. CASE Dialog
  <2>1. CASE StartRekey \/ CancelPubkey
    BY <2>1 DEF StartRekey, CancelPubkey, disk, work, NoReport
  <2>2. ASSUME NEW path \in KeyPaths, NEW chosen \in SUBSET Issued,
               \/ \E key \in Keys : SubmitGenerate(key, path, chosen)
               \/ \E choice \in offer : SubmitExisting(choice, path, chosen)
        PROVE  EInv'
    <3>1. /\ mode = "EditPubKey" /\ mode' \in {"Progress", "Inline"}
          /\ UNCHANGED <<file, report>> /\ plan'.before = file
      BY <2>2 DEF SubmitGenerate, SubmitExisting, Submit, disk
    <3> QED
      BY <3>1 DEF NoReport
  <2> QED
    BY <1>1, <2>1, <2>2 DEF Dialog
<1>2. CASE PerformRekey
  <2>1. working /\ UNCHANGED <<mode, report, plan>>
    BY <1>2 DEF PerformRekey, ObtainKey, BuildRekeyedCert, AllResigned, PersistState, ResignIssuedFile, ui
  <2>2. report = NoReport
    BY <2>1
  <2>3. CASE ObtainKey \/ BuildRekeyedCert \/ AllResigned \/ PersistState
    BY <2>1, <2>2, <2>3
    DEF ObtainKey, BuildRekeyedCert, AllResigned, PersistState, disk, following, NoReport
  <2>4. CASE \E object \in Issued : ResignIssuedFile(object)
    BY <2>1, <2>2, <2>4 DEF ResignIssuedFile, NoReport
  <2> QED
    BY <1>2, <2>3, <2>4 DEF PerformRekey
<1>3. CASE WorkerDies
  BY <1>3 DEF WorkerDies, disk, ui
<1>4. CASE PollRekeyProgress
  <2>1. worker' = "idle" /\ mode' = "Browse"
    BY <1>4 DEF PollRekeyProgress, ApplyOutcome, ApplyError, WorkerGone, PlanIsDone
  <2>2. report'.kind # "error" \/ (worker = "error" /\ file' = file /\ report'.plan = plan)
    <3>1. CASE ApplyOutcome
      <4> DEFINE kind == IF failures = {} /\ ~dirty' THEN "complete" ELSE "incomplete"
      <4>1. report' = [kind |-> kind, plan |-> plan]
        BY <3>1 DEF ApplyOutcome
      <4>2. kind # "error"
        OBVIOUS
      <4> QED
        BY <4>1, <4>2
    <3>2. CASE ApplyError
      BY <3>2 DEF ApplyError, disk
    <3>3. CASE WorkerGone
      BY <3>3 DEF WorkerGone
    <3> QED
      BY <1>4, <3>1, <3>2, <3>3 DEF PollRekeyProgress
  <2> QED
    BY <2>1, <2>2
<1>5. CASE Resigning
  <2>1. CASE \E path \in KeyPaths : StartResign(path)
    BY <2>1 DEF StartResign, disk, work, NoReport
  <2>2. CASE CancelResign
    BY <2>2 DEF CancelResign, disk, work
  <2>3. CASE SubmitResign
    BY <2>3 DEF SubmitResign, work, NoReport
  <2> QED
    BY <1>5, <2>1, <2>2, <2>3 DEF Resigning
<1>6. CASE Save \/ (\E object \in Objects : OpenFile(object))
  BY <1>6 DEF Save, OpenFile, disk, work, NoReport
<1>7. CASE Restart \/ Crash
  BY <1>7 DEF Restart, Crash, NewProcess, PlanIsDone, disk, NoReport
<1>8. CASE Others
  BY <1>8 DEF Others, CopyKeyFile, CreateFile, ui, work
<1>9. CASE UNCHANGED vars
  BY <1>9 DEF vars, disk, ui, work
<1> QED
  BY <1>1, <1>2, <1>3, <1>4, <1>5, <1>6, <1>7, <1>8, <1>9 DEF Next

(***************************************************************************)
(* A re-key that ends in an error has not touched a signed object,         *)
(* whatever else happens: perform_rekey returns before it re-signs.        *)
(***************************************************************************)
THEOREM ErrorsChangeNothing == Spec => []ErrorLeavesObjects
<1>1. Init => EInv
  BY DEF Init, EInv, ErrorLeavesObjects, NoReport
<1>2. EInv /\ [Next]_vars => EInv'
  BY ErrorStep
<1>3. EInv => ErrorLeavesObjects
  BY DEF EInv
<1> QED
  BY <1>1, <1>2, <1>3, PTL DEF Spec

-----------------------------------------------------------------------------
(***************************************************************************)
(* Summaries.                                                              *)
(***************************************************************************)
FileTypes ==
  /\ file \in [Objects -> Content \cup {Torn}]
  /\ document \in Content /\ open \in Objects
  /\ mode \in {"EditPubKey", "Progress", "Inline"} => open = Root

ResignedSoFar ==
  worker \in Steps \cup {"generate"} =>
    /\ plan.chosen \subseteq Issued
    /\ worker \in {"persist", "done"} => todo = {}
    /\ "object" \notin failures => \A object \in plan.chosen \ todo : file[object].signer = plan.key

SavedAtTheEnd ==
  worker = "done" /\ "state" \notin failures =>
    plan.target \in KeyPaths /\ keyFile[plan.target].key = plan.key

ReportedIsAKey == report.kind = "complete" => report.plan.key \in Keys /\ report.plan.target \in KeyPaths

CInv ==
  /\ MInv /\ EInv /\ FileTypes /\ ResignedSoFar /\ SavedAtTheEnd /\ ReportedIsAKey
  /\ CompleteMeansConsistent

LEMMA NothingReported ==
  ASSUME report = NoReport
  PROVE  ReportedIsAKey /\ CompleteMeansConsistent
BY DEF NoReport, ReportedIsAKey, CompleteMeansConsistent

LEMMA NothingReportedNext ==
  ASSUME report' = NoReport
  PROVE  ReportedIsAKey' /\ CompleteMeansConsistent'
BY DEF NoReport, ReportedIsAKey, CompleteMeansConsistent

LEMMA FileKinds ==
  ASSUME FileTypes, NEW object \in Objects
  PROVE  file[object] \in Content \cup {Torn}
BY DEF FileTypes

LEMMA WrittenTypes ==
  ASSUME FileTypes, NEW content \in Content, NEW changed, WriteCurrent(content, changed)
  PROVE  file' \in [Objects -> Content \cup {Torn}]
<1>1. \/ file' = file \/ file' = [file EXCEPT ![open] = content] \/ file' = [file EXCEPT ![open] = Torn]
  BY DEF WriteCurrent, FailToWriteObject
<1> QED
  BY <1>1 DEF FileTypes

\* The steps in which no report stands and no work goes on, before and after.
LEMMA IdleStep ==
  ASSUME CInv, MInv', EInv', worker' \in {"idle", "error"}, report' = NoReport,
         file' \in [Objects -> Content \cup {Torn}], document' \in Content, open' \in Objects,
         mode' \in {"EditPubKey", "Progress", "Inline"} => open' = Root
  PROVE  CInv'
<1>1. FileTypes' /\ ResignedSoFar' /\ SavedAtTheEnd'
  BY DEF FileTypes, ResignedSoFar, SavedAtTheEnd, Steps
<1> QED
  BY <1>1, NothingReportedNext DEF CInv

LEMMA DialogSummaries ==
  ASSUME CInv, MInv', EInv', Dialog
  PROVE  CInv'
<1>1. CASE StartRekey
  BY <1>1, IdleStep DEF StartRekey, disk, work, CInv, EInv, FileTypes, working
<1>2. CASE CancelPubkey
  <2>1. report = NoReport /\ worker = "idle"
    BY <1>2 DEF CancelPubkey, CInv, EInv, working
  <2> QED
    BY <1>2, <2>1, IdleStep DEF CancelPubkey, disk, work, CInv, FileTypes
<1>3. ASSUME NEW path \in KeyPaths, NEW chosen \in SUBSET Issued,
             \/ \E key \in Keys : SubmitGenerate(key, path, chosen)
             \/ \E choice \in offer : SubmitExisting(choice, path, chosen)
      PROVE  CInv'
  <2>1. /\ UNCHANGED <<file, open, document, report>> /\ mode = "EditPubKey"
        /\ plan'.chosen = chosen /\ todo' = chosen /\ worker' \in {"generate", "build"}
    BY <1>3 DEF SubmitGenerate, SubmitExisting, Submit, disk, following
  <2>2. report' = NoReport
    BY <2>1 DEF CInv, EInv
  <2>3. FileTypes' /\ ResignedSoFar' /\ SavedAtTheEnd'
    BY <2>1 DEF CInv, FileTypes, ResignedSoFar, SavedAtTheEnd
  <2> QED
    BY <2>2, <2>3, NothingReportedNext DEF CInv
<1> QED
  BY <1>1, <1>2, <1>3 DEF Dialog

LEMMA WorkSummaries ==
  ASSUME CInv, MInv', EInv', PerformRekey
  PROVE  CInv'
<1>1. working /\ UNCHANGED <<open, document, mode, report, plan>>
  BY DEF PerformRekey, ObtainKey, BuildRekeyedCert, AllResigned, PersistState, ResignIssuedFile, disk, ui
<1>2. report' = NoReport /\ open = Root
  BY <1>1 DEF CInv, EInv, FileTypes, working
<1>3. CASE ObtainKey \/ BuildRekeyedCert
  <2>1. UNCHANGED <<file, todo, failures>> /\ worker' \notin {"persist", "done"}
    BY <1>3 DEF ObtainKey, BuildRekeyedCert, disk, following, Fail
  <2>2. worker \in {"generate", "build"}
    BY <1>3 DEF ObtainKey, BuildRekeyedCert
  <2>3. FileTypes' /\ ResignedSoFar' /\ SavedAtTheEnd'
    BY <1>1, <2>1, <2>2 DEF CInv, FileTypes, ResignedSoFar, SavedAtTheEnd, Steps
  <2> QED
    BY <1>2, <2>3, NothingReportedNext DEF CInv
<1>4. CASE AllResigned
  BY <1>1, <1>2, <1>4, NothingReportedNext
  DEF AllResigned, disk, following, CInv, FileTypes, ResignedSoFar, SavedAtTheEnd, Steps
<1>5. CASE PersistState
  <2>1. /\ UNCHANGED <<file, todo>> /\ worker = "persist" /\ worker' = "done"
        /\ "object" \in failures => "object" \in failures'
    BY <1>5 DEF PersistState
  <2>2. FileTypes' /\ ResignedSoFar'
    BY <1>1, <2>1 DEF CInv, FileTypes, ResignedSoFar, Steps
  <2>3. plan.target \in KeyPaths /\ keyFile[plan.target].key = plan.key /\ DOMAIN keyFile = KeyPaths
    BY <2>1 DEF CInv, MInv, PlanOfWork, IndexTypes, Steps
  <2>4. \/ keyFile' = keyFile \/ "state" \in failures'
        \/ keyFile' = [keyFile EXCEPT ![plan.target] = [key |-> plan.key, index |-> held]]
    BY <1>5 DEF PersistState
  <2>5. SavedAtTheEnd'
    BY <1>1, <2>3, <2>4 DEF SavedAtTheEnd
  <2> QED
    BY <1>2, <2>2, <2>5, NothingReportedNext DEF CInv
<1>6. CASE \E object \in Issued : ResignIssuedFile(object)
  <2>1. PICK object \in Issued : ResignIssuedFile(object)
    BY <1>6
  <2>2. /\ worker = "resign" /\ worker' = "resign" /\ todo' = todo \ {object}
        /\ \/ file[object] # Torn /\ file' = [file EXCEPT ![object].signer = plan.key] /\ failures' = failures
           \/ file' \in {file, [file EXCEPT ![object] = Torn]} /\ "object" \in failures'
    BY <2>1 DEF ResignIssuedFile, FailToWriteObject
  <2>3. object \in Objects /\ plan.key \in Keys
    BY <2>2, Constants DEF CInv, MInv, PlanOfWork, Steps
  <2>4. file' \in [Objects -> Content \cup {Torn}]
    <3>1. CASE file[object] # Torn /\ file' = [file EXCEPT ![object].signer = plan.key]
      <4>1. file[object] \in Content
        BY <2>3, <3>1, FileKinds DEF CInv
      <4>2. [file[object] EXCEPT !.signer = plan.key] \in Content
        BY <2>3, <4>1 DEF Content
      <4> DEFINE content == [file[object] EXCEPT !.signer = plan.key]
      <4>3. file' = [file EXCEPT ![object] = content]
        BY <3>1
      <4>4. content \in Content
        BY <4>2
      <4> HIDE DEF content
      <4> QED
        BY <2>3, <4>3, <4>4 DEF CInv, FileTypes
    <3>2. CASE file' \in {file, [file EXCEPT ![object] = Torn]}
      BY <2>3, <3>2 DEF CInv, FileTypes
    <3> QED
      BY <2>2, <3>1, <3>2
  <2>5. "object" \notin failures' => \A o \in plan.chosen \ todo' : file'[o].signer = plan.key
    <3>1. SUFFICES ASSUME failures' = failures, "object" \notin failures, file[object] # Torn,
                          file' = [file EXCEPT ![object].signer = plan.key],
                          NEW o \in plan.chosen \ todo'
                   PROVE  file'[o].signer = plan.key
      BY <2>2
    <3>2. o \in Objects /\ DOMAIN file = Objects
      BY <2>2, Constants DEF CInv, ResignedSoFar, FileTypes, Steps
    <3>3. CASE o = object
      <4>1. file[object] \in Content
        BY <2>3, <3>1, FileKinds DEF CInv
      <4> QED
        BY <3>1, <3>2, <3>3, <4>1 DEF Content
    <3>4. CASE o # object
      BY <2>2, <3>1, <3>2, <3>4 DEF CInv, ResignedSoFar, Steps
    <3> QED
      BY <3>3, <3>4
  <2>6. FileTypes' /\ ResignedSoFar' /\ SavedAtTheEnd'
    BY <1>1, <2>2, <2>4, <2>5 DEF CInv, FileTypes, ResignedSoFar, SavedAtTheEnd, Steps
  <2> QED
    BY <1>2, <2>6, NothingReportedNext DEF CInv
<1> QED
  BY <1>3, <1>4, <1>5, <1>6 DEF PerformRekey

\* A summary without a failure: everything was written, and saved.
LEMMA OutcomeSummary ==
  ASSUME CInv, MInv', EInv', ApplyOutcome
  PROVE  CInv'
<1> DEFINE signer == IF plan.selfSigned THEN plan.key ELSE document.signer
           content == [spki |-> plan.key, signer |-> signer]
<1>1. /\ worker = "done" /\ working /\ worker' = "idle" /\ UNCHANGED <<keyFile, open>>
      /\ mode' = "Browse" /\ document' = content /\ WriteCurrent(content, TRUE)
      /\ report' = [kind |-> IF failures = {} /\ ~dirty' THEN "complete" ELSE "incomplete", plan |-> plan]
      /\ Publish(pending.key, pending.index, Root)
  BY DEF ApplyOutcome, PlanIsDone
<1>2. plan.key \in Keys /\ plan.key \notin retired /\ open = Root /\ Root \in Objects
  BY <1>1, Constants DEF CInv, MInv, PlanOfWork, FileTypes, Steps, working
<1>3. content \in Content
  BY <1>2 DEF CInv, FileTypes, Content
<1>4. content.spki = plan.key /\ (plan.selfSigned => content.signer = plan.key)
  OBVIOUS
<1> HIDE DEF content
<1>5. FileTypes'
  BY <1>1, <1>3, WrittenTypes DEF CInv, FileTypes
<1>6. ResignedSoFar' /\ SavedAtTheEnd'
  BY <1>1 DEF ResignedSoFar, SavedAtTheEnd, Steps
<1>7. ReportedIsAKey' /\ CompleteMeansConsistent'
  <2>1. SUFFICES ASSUME report'.kind = "complete"
                 PROVE  ReportedIsAKey' /\ CompleteMeansConsistent'
    BY DEF ReportedIsAKey, CompleteMeansConsistent
  <2>2. failures = {} /\ ~dirty' /\ report'.plan = plan
    BY <1>1, <2>1
  <2>3. file' = [file EXCEPT ![Root] = content]
    BY <1>1, <1>2, <2>2 DEF WriteCurrent
  <2>4. file'[Root] = content /\ \A o \in Issued : file'[o] = file[o]
    BY <1>2, <2>3, ParametersAreSound DEF CInv, FileTypes, Objects
  <2>5. \A o \in plan.chosen : o \in Issued /\ file'[o].signer = plan.key
    BY <1>1, <2>2, <2>4 DEF CInv, ResignedSoFar, Steps
  <2>6. plan.target \in KeyPaths /\ keyFile[plan.target].key = plan.key
    BY <1>1, <2>2 DEF CInv, SavedAtTheEnd
  <2>7. \A s \in published' : s.key = plan.key => s.index < keyFile[plan.target].index
    <3>1. SUFFICES ASSUME NEW s \in published', s.key = plan.key
                   PROVE  s.index < keyFile[plan.target].index
      OBVIOUS
    <3>2. CASE s \in published
      BY <1>1, <1>2, <2>2, <2>6, <3>1, <3>2 DEF CInv, MInv, FilesAhead, Behind
    <3>3. CASE s \notin published
      <4>1. s.key = pending.key /\ s.index = pending.index /\ pending.key \in OneTime
        BY <1>1, <3>3 DEF Publish
      <4> QED
        BY <1>1, <2>2, <2>6, <3>1, <4>1 DEF CInv, MInv, PendingAhead
    <3> QED
      BY <3>2, <3>3
  <2> QED
    BY <1>1, <1>2, <1>4, <2>2, <2>4, <2>5, <2>6, <2>7 DEF ReportedIsAKey, CompleteMeansConsistent
<1> QED
  BY <1>5, <1>6, <1>7 DEF CInv

LEMMA CreateKeepsSummaries ==
  ASSUME CInv, MInv', EInv', NEW path \in KeyPaths, CreateFile(path)
  PROVE  CInv'
<1>1. /\ UNCHANGED <<file, open, document, mode, plan, worker, todo, failures, report, published>>
      /\ keyFile[path].key \notin Keys /\ keyFile' = [keyFile EXCEPT ![path] = Foreign]
  BY Constants DEF CreateFile, ui, work, ghost
<1>2. \A p \in KeyPaths : keyFile[p].key \in Keys => keyFile'[p] = keyFile[p]
  BY <1>1 DEF CInv, MInv, IndexTypes
<1>3. FileTypes' /\ ResignedSoFar' /\ ReportedIsAKey'
  BY <1>1 DEF CInv, FileTypes, ResignedSoFar, ReportedIsAKey
<1>4. SavedAtTheEnd'
  BY <1>1, <1>2 DEF CInv, MInv, PlanOfWork, SavedAtTheEnd, Steps
<1>5. CompleteMeansConsistent'
  BY <1>1, <1>2 DEF CInv, ReportedIsAKey, CompleteMeansConsistent
<1> QED
  BY <1>3, <1>4, <1>5 DEF CInv

LEMMA NextSummaries ==
  ASSUME CInv, Orderly, [Next]_vars
  PROVE  CInv'
<1>1. MInv' /\ EInv'
  BY NextIsAhead, ErrorStep DEF CInv
<1>2. CASE Dialog
  BY <1>1, <1>2, DialogSummaries
<1>3. CASE PerformRekey
  BY <1>1, <1>3, WorkSummaries
<1>4. CASE PollRekeyProgress
  <2>1. CASE ApplyOutcome
    BY <1>1, <2>1, OutcomeSummary
  <2>2. CASE ApplyError \/ WorkerGone
    <3>1. /\ UNCHANGED <<file, open, document>> /\ worker' = "idle" /\ mode' = "Browse"
          /\ report'.kind \in {"error", "gone"}
      BY <2>2 DEF ApplyError, WorkerGone, PlanIsDone, disk
    <3>2. FileTypes' /\ ResignedSoFar' /\ SavedAtTheEnd' /\ ReportedIsAKey' /\ CompleteMeansConsistent'
      BY <3>1
      DEF CInv, FileTypes, ResignedSoFar, SavedAtTheEnd, ReportedIsAKey, CompleteMeansConsistent, Steps
    <3> QED
      BY <1>1, <3>2 DEF CInv
  <2> QED
    BY <1>4, <2>1, <2>2 DEF PollRekeyProgress
<1>5. CASE Save
  <2>1. document \in Content
    BY DEF CInv, FileTypes
  <2>2. file' \in [Objects -> Content \cup {Torn}]
    BY <1>5, <2>1, WrittenTypes DEF Save, CInv
  <2> QED
    BY <1>1, <1>5, <2>2, IdleStep DEF Save, work, CInv, EInv, FileTypes, working
<1>6. CASE \E object \in Objects : OpenFile(object)
  <2>1. PICK object \in Objects : OpenFile(object)
    BY <1>6
  <2>2. file[object] \in Content
    BY <2>1, FileKinds DEF OpenFile, Load, CInv
  <2> QED
    BY <1>1, <2>1, <2>2, IdleStep DEF OpenFile, Load, disk, work, CInv, EInv, FileTypes, working
<1>7. CASE Restart
  <2>1. PICK object \in Objects : Load(object)
    BY <1>7 DEF Restart, NewProcess
  <2>2. file[object] \in Content
    BY <2>1, FileKinds DEF Load, CInv
  <2>3. UNCHANGED file /\ worker' = "idle" /\ mode' = "Browse" /\ report' = NoReport
    BY <1>7 DEF Restart, NewProcess, PlanIsDone, disk
  <2> QED
    BY <1>1, <2>1, <2>2, <2>3, IdleStep DEF Load, CInv, FileTypes
<1>8. CASE Others
  BY <1>1, <1>8, CreateKeepsSummaries DEF Others, CopyKeyFile, Orderly
<1>9. CASE Resigning
  BY <1>9 DEF Resigning, StartResign, CancelResign, SubmitResign, Orderly, CInv, MInv, WorkIsShown
<1>10. CASE WorkerDies \/ Crash
  BY <1>10 DEF WorkerDies, Crash, Orderly
<1>11. CASE UNCHANGED vars
  BY <1>1, <1>11
  DEF vars, disk, ui, work, ghost, CInv, FileTypes, ResignedSoFar, SavedAtTheEnd, ReportedIsAKey,
      CompleteMeansConsistent
<1> QED
  BY <1>2, <1>3, <1>4, <1>5, <1>6, <1>7, <1>8, <1>9, <1>10, <1>11 DEF Next

(***************************************************************************)
(* When the summary of a re-key reports no failure, the folder is what it  *)
(* says: Root and the chosen objects carry the new key's signatures, and   *)
(* the key is in its file, past every index that was used (RekeyReport).   *)
(***************************************************************************)
THEOREM SummariesAreTrue ==
  ASSUME Orderly
  PROVE  Spec => []CompleteMeansConsistent
<1>1. Init => CInv
  <2>1. SUFFICES ASSUME Init PROVE CInv
    OBVIOUS
  <2>2. PICK signer \in {First, Authority} :
          file = [o \in Objects |-> IF o = Root THEN [spki |-> First, signer |-> signer]
                                               ELSE [spki |-> Authority, signer |-> First]]
    BY <2>1 DEF Init
  <2>3. file \in [Objects -> Content \cup {Torn}] /\ file[Root] \in Content
    BY <2>2, Constants DEF Content
  <2>4. FileTypes /\ ResignedSoFar /\ SavedAtTheEnd
    BY <2>1, <2>3, Constants DEF Init, FileTypes, ResignedSoFar, SavedAtTheEnd, Steps
  <2>5. report = NoReport /\ EInv
    BY <2>1 DEF Init, EInv, ErrorLeavesObjects, NoReport
  <2> QED
    BY <2>1, <2>4, <2>5, InitIsAhead, NothingReported DEF CInv
<1>2. CInv /\ [Next]_vars => CInv'
  BY NextSummaries
<1>3. CInv => CompleteMeansConsistent
  BY DEF CInv
<1> QED
  BY <1>1, <1>2, <1>3, PTL DEF Spec

-----------------------------------------------------------------------------
(***************************************************************************)
(* The types, under every fault of Environment.  No index, in a file, in   *)
(* the worker's copy or in the registry, passes the number of leaves: each *)
(* signature is preceded by canSign.  A worker has a plan.                 *)
(***************************************************************************)
FilesTyped ==
  /\ keyFile \in [KeyPaths -> Stored \cup {NoFile, Foreign}]
  /\ file \in [Objects -> Content \cup {Torn}]

EditorTyped ==
  /\ open \in Objects /\ document \in Content /\ dirty \in BOOLEAN
  /\ mode \in {"Browse", "EditPubKey", "Progress", "Inline", "Resign"}
  /\ offer \subseteq [path : KeyPaths, key : Keys]

Reports == [kind : {"complete", "incomplete", "error", "gone"}, plan : Plans] \cup {NoReport}

WorkTyped ==
  /\ plan \in Plans \cup {NoPlan}
  /\ worker \in {"idle", "generate", "build", "resign", "persist", "done", "error", "gone"}
  /\ held \in 0 .. Leaves
  /\ todo \subseteq Issued
  /\ failures \subseteq {"object", "state"}
  /\ report \in Reports
  /\ working => plan \in Plans

IndicesTyped ==
  /\ pending \in Stored \cup {NoSignature}
  /\ registry \in [OneTime -> 0 .. Leaves]

HistoryTyped ==
  /\ born \subseteq Keys /\ retired \subseteq Keys
  /\ published \subseteq [key : OneTime, index : 0 .. Leaves, object : Objects]

WInv == FilesTyped /\ EditorTyped /\ WorkTyped /\ IndicesTyped /\ HistoryTyped

LEMMA FilesStayTyped ==
  ASSUME FilesTyped, UNCHANGED <<keyFile, file>> PROVE FilesTyped'
BY DEF FilesTyped

LEMMA WorkStaysTyped ==
  ASSUME WorkTyped, UNCHANGED work, report' \in Reports, working' => working PROVE WorkTyped'
BY DEF WorkTyped, work

LEMMA IndicesStayTyped ==
  ASSUME IndicesTyped, UNCHANGED <<pending, registry>> PROVE IndicesTyped'
BY DEF IndicesTyped

LEMMA HistoryStaysTyped ==
  ASSUME HistoryTyped, UNCHANGED <<born, published, retired>> PROVE HistoryTyped'
BY DEF HistoryTyped

LEMMA NoReportTyped ==
  /\ NoReport \in Reports
  /\ WorkTyped => report \in Reports
BY DEF Reports, WorkTyped

LEMMA SignatureFits ==
  ASSUME IndicesTyped, NEW key \in Keys, NEW index \in 0 .. Leaves, canSign(key, index)
  PROVE  /\ leaf(key, index) \in 0 .. Leaves
         /\ advanced(key, index) \in 0 .. Leaves
         /\ Consume(key, index) => registry' \in [OneTime -> 0 .. Leaves]
<1>1. Leaves \in Nat
  BY ParametersAreSound
<1>2. CASE key \in OneTime
  <2> DEFINE l == leaf(key, index)
  <2>1. l \in 0 .. Leaves /\ l < Leaves
    BY <1>1, <1>2 DEF IndicesTyped, leaf, larger, canSign
  <2>2. advanced(key, index) = l + 1
    BY <1>2 DEF advanced
  <2>3. Consume(key, index) => registry' = [registry EXCEPT ![key] = l + 1]
    BY <1>2 DEF Consume
  <2> HIDE DEF l
  <2>4. l + 1 \in 0 .. Leaves
    BY <1>1, <2>1
  <2>5. Consume(key, index) => registry' \in [OneTime -> 0 .. Leaves]
    BY <1>2, <2>3, <2>4 DEF IndicesTyped
  <2> QED
    BY <2>1, <2>2, <2>4, <2>5 DEF l
<1>3. CASE key \notin OneTime
  BY <1>3 DEF IndicesTyped, leaf, advanced, Consume
<1> QED
  BY <1>2, <1>3

LEMMA PublishFits ==
  ASSUME HistoryTyped, NEW key, NEW index, key \in OneTime => index \in 0 .. Leaves,
         NEW object \in Objects, Publish(key, index, object)
  PROVE  published' \subseteq [key : OneTime, index : 0 .. Leaves, object : Objects]
BY DEF HistoryTyped, Publish

LEMMA PendingFits ==
  ASSUME IndicesTyped
  PROVE  /\ pending.key \in Keys \cup {Authority}
         /\ pending.key \in OneTime => pending.index \in 0 .. Leaves
BY ParametersAreSound DEF IndicesTyped, Stored, NoSignature

LEMMA KeyWriteFits ==
  ASSUME FilesTyped, NEW path \in KeyPaths, FailToWriteKey(path)
  PROVE  keyFile' \in [KeyPaths -> Stored \cup {NoFile, Foreign}]
BY DEF FilesTyped, FailToWriteKey

LEMMA ObjectWriteFits ==
  ASSUME FilesTyped, NEW object \in Objects, FailToWriteObject(object)
  PROVE  file' \in [Objects -> Content \cup {Torn}]
BY DEF FilesTyped, FailToWriteObject

LEMMA CurrentWriteFits ==
  ASSUME FilesTyped, EditorTyped, NEW content \in Content, NEW changed \in BOOLEAN,
         WriteCurrent(content, changed)
  PROVE  file' \in [Objects -> Content \cup {Torn}] /\ dirty' \in BOOLEAN
<1>1. open \in Objects
  BY DEF EditorTyped
<1>2. CASE file' = [file EXCEPT ![open] = content] /\ dirty' = FALSE
  <2>1. file' \in [Objects -> Content \cup {Torn}]
    BY <1>1, <1>2 DEF FilesTyped
  <2> QED
    BY <1>2, <2>1, Zenon
<1>3. CASE FailToWriteObject(open) /\ dirty' = changed
  <2>1. file' \in [Objects -> Content \cup {Torn}]
    BY <1>1, <1>3, ObjectWriteFits
  <2> QED
    BY <1>3, <2>1, Zenon
<1> QED
  BY <1>2, <1>3 DEF WriteCurrent

LEMMA DoneTyped ==
  ASSUME PlanIsDone, report' \in Reports PROVE WorkTyped' /\ mode' = "Browse" /\ pending' = NoSignature
BY ParametersAreSound DEF PlanIsDone, WorkTyped, working

-----------------------------------------------------------------------------
LEMMA DialogTyped == ASSUME WInv, Dialog PROVE WInv'
<1> USE DEF WInv
<1>1. CASE StartRekey
  <2>1. /\ UNCHANGED <<disk, open, document, dirty, pending, work, registry, ghost>>
        /\ mode' = "EditPubKey" /\ report' = NoReport
        /\ offer' = {[path |-> p, key |-> keyFile[p].key] : p \in {q \in KeyPaths : holds(q)}}
    BY <1>1 DEF StartRekey
  <2>2. offer' \subseteq [path : KeyPaths, key : Keys]
    BY <2>1 DEF holds, Stored
  <2>3. EditorTyped'
    BY <2>1, <2>2 DEF EditorTyped
  <2>4. ~working'
    BY <2>1 DEF working
  <2> QED
    BY <2>1, <2>3, <2>4, FilesStayTyped, WorkStaysTyped, IndicesStayTyped, HistoryStaysTyped,
       NoReportTyped DEF disk, ghost
<1>2. CASE CancelPubkey
  <2>1. /\ UNCHANGED <<disk, open, document, dirty, pending, work, report, registry, ghost>>
        /\ mode' = "Browse" /\ offer' = {}
    BY <1>2 DEF CancelPubkey
  <2>2. EditorTyped'
    BY <2>1 DEF EditorTyped
  <2>3. ~working' /\ report' \in Reports
    BY <2>1, NoReportTyped DEF working
  <2> QED
    BY <2>1, <2>2, <2>3, FilesStayTyped, WorkStaysTyped, IndicesStayTyped, HistoryStaysTyped
    DEF disk, ghost
<1>3. ASSUME NEW key \in Keys, NEW target \in KeyPaths, NEW persistable \in BOOLEAN,
             NEW chosen \in SUBSET Issued, NEW step \in {"generate", "build"},
             NEW index \in 0 .. Leaves,
             Submit(key, target, persistable, chosen, step, index),
             UNCHANGED <<disk, open, document, dirty, pending, report, registry, ghost>>
      PROVE  WInv'
  <2>1. /\ plan' = [key |-> key, target |-> target, persistable |-> persistable,
                    chosen |-> chosen, selfSigned |-> document.signer = document.spki,
                    before |-> file]
        /\ worker' = step /\ held' = index /\ todo' = chosen /\ failures' = {}
        /\ mode' \in {"Progress", "Inline"}
        /\ offer' = {}
    BY <1>3 DEF Submit
  <2>2. plan' \in Plans
    <3>1. (document.signer = document.spki) \in BOOLEAN
      BY Zenon
    <3> DEFINE self == document.signer = document.spki
    <3> HIDE DEF self
    <3> QED
      BY <2>1, <3>1 DEF Plans, FilesTyped, self
  <2>3. EditorTyped'
    BY <1>3, <2>1 DEF EditorTyped
  <2>4. WorkTyped'
    BY <1>3, <2>1, <2>2, NoReportTyped DEF WorkTyped
  <2> QED
    BY <1>3, <2>3, <2>4, FilesStayTyped, IndicesStayTyped, HistoryStaysTyped DEF disk, ghost
<1>4. ASSUME NEW path \in KeyPaths, NEW chosen \in SUBSET Issued, NEW key \in Keys,
             SubmitGenerate(key, path, chosen)
      PROVE  WInv'
  <2>1. 0 \in 0 .. Leaves
    BY ParametersAreSound
  <2> QED
    BY <1>3, <1>4, <2>1 DEF SubmitGenerate
<1>5. ASSUME NEW path \in KeyPaths, NEW chosen \in SUBSET Issued, NEW choice \in offer,
             SubmitExisting(choice, path, chosen)
      PROVE  WInv'
  <2>1. choice.key \in Keys /\ choice.path \in KeyPaths
    BY <1>5 DEF EditorTyped
  <2>2. keyFile[path].index \in 0 .. Leaves
    BY <1>5 DEF SubmitExisting, holds, Stored
  <2>3. following["generate"] = "build"
    BY DEF following
  <2>4. PICK persistable \in {FALSE} \cup {keyFile[choice.path] # NoFile} :
          Submit(choice.key, choice.path, persistable, chosen, "build", keyFile[path].index)
    BY <1>5, <2>3 DEF SubmitExisting
  <2>5. persistable \in BOOLEAN
    BY <2>4, Zenon
  <2>6. UNCHANGED <<disk, open, document, dirty, pending, report, registry, ghost>>
    BY <1>5 DEF SubmitExisting
  <2> QED
    BY <1>3, <2>1, <2>2, <2>4, <2>5, <2>6
<1> QED
  BY <1>1, <1>2, <1>4, <1>5 DEF Dialog

LEMMA FollowingTyped ==
  /\ following["generate"] = "build" /\ following["build"] = "resign"
  /\ following["resign"] = "persist"
BY DEF following

\* A step of the worker: it keeps its plan, and the user's keys are ignored.
LEMMA WorkerTyped ==
  ASSUME WInv, working, UNCHANGED <<open, document, dirty, mode, offer, plan, report>>,
         worker' \in {"build", "resign", "persist", "done", "error", "gone"},
         held' \in 0 .. Leaves, todo' \subseteq todo,
         failures' \subseteq failures \cup {"object", "state"}
  PROVE  EditorTyped' /\ WorkTyped'
<1>1. EditorTyped'
  BY DEF WInv, EditorTyped
<1>2. WorkTyped'
  BY DEF WInv, WorkTyped
<1> QED
  BY <1>1, <1>2

LEMMA ObtainTyped == ASSUME WInv, ObtainKey PROVE WInv'
<1>1. /\ UNCHANGED <<file, ui, plan, held, todo, failures, report, registry, published, retired>>
      /\ working
  BY DEF ObtainKey
<1>2. plan \in Plans /\ plan.key \in Keys /\ plan.target \in KeyPaths
  BY <1>1 DEF WInv, WorkTyped, Plans
<1>3. worker' \in {"build", "error"}
  BY FollowingTyped DEF ObtainKey, Fail
<1>4. [key |-> plan.key, index |-> 0] \in Stored
  BY <1>2, ParametersAreSound DEF Stored
<1>5. keyFile' \in [KeyPaths -> Stored \cup {NoFile, Foreign}]
  BY <1>2, <1>4, KeyWriteFits DEF ObtainKey, WInv, FilesTyped
<1>6. born' \subseteq Keys
  BY <1>2 DEF ObtainKey, WInv, HistoryTyped
<1>7. FilesTyped' /\ HistoryTyped'
  BY <1>1, <1>5, <1>6 DEF WInv, FilesTyped, HistoryTyped
<1>8. EditorTyped' /\ WorkTyped'
  <2>1. held \in 0 .. Leaves
    BY DEF WInv, WorkTyped
  <2> QED
    BY <1>1, <1>3, <2>1, WorkerTyped DEF ui
<1> QED
  BY <1>1, <1>7, <1>8, IndicesStayTyped DEF ui, WInv

LEMMA BuildTyped == ASSUME WInv, BuildRekeyedCert PROVE WInv'
<1>1. /\ UNCHANGED <<disk, open, document, dirty, mode, offer, plan, todo, failures, report, ghost>>
      /\ working
  BY DEF BuildRekeyedCert
<1>2. plan \in Plans /\ plan.key \in Keys /\ held \in 0 .. Leaves
  BY <1>1 DEF WInv, WorkTyped, Plans
<1>3. worker' \in {"resign", "error"}
  BY FollowingTyped DEF BuildRekeyedCert, Fail
<1>4. held' \in 0 .. Leaves /\ IndicesTyped'
  <2>1. CASE UNCHANGED <<held, registry, pending>>
    BY <1>2, <2>1, IndicesStayTyped DEF WInv
  <2>2. CASE /\ canSign(plan.key, held) /\ Consume(plan.key, held)
             /\ pending' = [key |-> plan.key, index |-> leaf(plan.key, held)]
             /\ held' = advanced(plan.key, held)
    <3>1. /\ leaf(plan.key, held) \in 0 .. Leaves /\ advanced(plan.key, held) \in 0 .. Leaves
          /\ registry' \in [OneTime -> 0 .. Leaves]
      BY <1>2, <2>2, SignatureFits DEF WInv
    <3>2. pending' \in Stored
      BY <1>2, <2>2, <3>1 DEF Stored
    <3> QED
      BY <2>2, <3>1, <3>2 DEF IndicesTyped
  <2> QED
    BY <2>1, <2>2 DEF BuildRekeyedCert
<1>5. EditorTyped' /\ WorkTyped'
  BY <1>1, <1>3, <1>4, WorkerTyped
<1> QED
  BY <1>1, <1>4, <1>5, FilesStayTyped, HistoryStaysTyped DEF disk, ghost, WInv

LEMMA ResignFileTyped ==
  ASSUME WInv, NEW object \in Issued, ResignIssuedFile(object) PROVE WInv'
<1>1. /\ UNCHANGED <<keyFile, ui, plan, worker, report, born, retired>>
      /\ working /\ worker = "resign" /\ todo' = todo \ {object}
  BY DEF ResignIssuedFile
<1>2. plan \in Plans /\ plan.key \in Keys /\ held \in 0 .. Leaves
  BY <1>1 DEF WInv, WorkTyped, Plans
<1>3. object \in Objects
  BY DEF Objects
<1> DEFINE signed == /\ file[object] # Torn /\ canSign(plan.key, held)
                     /\ Consume(plan.key, held)
           Goal == /\ held' \in 0 .. Leaves /\ registry' \in [OneTime -> 0 .. Leaves]
                   /\ failures' \subseteq failures \cup {"object", "state"}
                   /\ file' \in [Objects -> Content \cup {Torn}]
                   /\ published' \subseteq [key : OneTime, index : 0 .. Leaves, object : Objects]
<1>4. signed => /\ leaf(plan.key, held) \in 0 .. Leaves /\ advanced(plan.key, held) \in 0 .. Leaves
                /\ registry' \in [OneTime -> 0 .. Leaves]
  BY <1>2, SignatureFits DEF WInv
<1>5. ASSUME signed, Publish(plan.key, leaf(plan.key, held), object),
             held' = advanced(plan.key, held),
             file' = [file EXCEPT ![object].signer = plan.key], UNCHANGED failures
      PROVE  Goal
  <2>1. file[object] \in Content
    BY <1>3, <1>5 DEF WInv, FilesTyped
  <2>2. [file[object] EXCEPT !.signer = plan.key] \in Content
    BY <1>2, <2>1 DEF Content
  <2>3. file' \in [Objects -> Content \cup {Torn}]
    BY <1>3, <1>5, <2>2 DEF WInv, FilesTyped
  <2>4. published' \subseteq [key : OneTime, index : 0 .. Leaves, object : Objects]
    BY <1>3, <1>4, <1>5, PublishFits DEF WInv
  <2> QED
    BY <1>4, <1>5, <2>3, <2>4
<1>6. ASSUME signed, FailToWriteObject(object),
             failures' = failures \cup {"object"}, UNCHANGED <<held, published>>
      PROVE  Goal
  BY <1>2, <1>3, <1>4, <1>6, ObjectWriteFits DEF WInv, HistoryTyped
<1>7. ASSUME failures' = failures \cup {"object"}, UNCHANGED <<held, published, registry, file>>
      PROVE  Goal
  BY <1>2, <1>7 DEF WInv, HistoryTyped, FilesTyped, IndicesTyped
<1>8. Goal
  BY <1>5, <1>6, <1>7 DEF ResignIssuedFile
<1>9. EditorTyped' /\ WorkTyped'
  BY <1>1, <1>8, WorkerTyped DEF ui
<1>10. FilesTyped' /\ HistoryTyped' /\ IndicesTyped'
  BY <1>1, <1>8 DEF WInv, FilesTyped, HistoryTyped, IndicesTyped, ui
<1> QED
  BY <1>9, <1>10 DEF WInv

LEMMA PersistTyped == ASSUME WInv, PersistState PROVE WInv'
<1>1. /\ UNCHANGED <<file, ui, plan, held, todo, report, registry, ghost>>
      /\ working /\ worker' = "done"
  BY DEF PersistState
<1>2. plan \in Plans /\ plan.key \in Keys /\ plan.target \in KeyPaths /\ held \in 0 .. Leaves
  BY <1>1 DEF WInv, WorkTyped, Plans
<1>3. [key |-> plan.key, index |-> held] \in Stored
  BY <1>2 DEF Stored
<1>4. \/ keyFile' = keyFile
      \/ keyFile' = [keyFile EXCEPT ![plan.target] = [key |-> plan.key, index |-> held]]
      \/ FailToWriteKey(plan.target)
  BY DEF PersistState
<1>5. keyFile' \in [KeyPaths -> Stored \cup {NoFile, Foreign}]
  BY <1>2, <1>3, <1>4, KeyWriteFits DEF WInv, FilesTyped
<1>6. failures' \subseteq failures \cup {"object", "state"}
  BY DEF PersistState
<1>7. EditorTyped' /\ WorkTyped'
  BY <1>1, <1>2, <1>6, WorkerTyped DEF ui
<1>8. FilesTyped'
  BY <1>1, <1>5 DEF WInv, FilesTyped
<1> QED
  BY <1>1, <1>7, <1>8, IndicesStayTyped, HistoryStaysTyped DEF ui, ghost, WInv

\* The worker goes on to its last step, or dies.
LEMMA WorkerMovesTyped == ASSUME WInv, AllResigned \/ WorkerDies PROVE WInv'
<1>1. /\ UNCHANGED <<disk, ui, plan, held, todo, failures, report, registry, ghost>>
      /\ working /\ worker' \in {"persist", "gone"}
  BY FollowingTyped DEF AllResigned, WorkerDies, working
<1>2. held \in 0 .. Leaves
  BY DEF WInv, WorkTyped
<1>3. EditorTyped' /\ WorkTyped'
  BY <1>1, <1>2, WorkerTyped DEF ui
<1> QED
  BY <1>1, <1>3, FilesStayTyped, IndicesStayTyped, HistoryStaysTyped DEF disk, ui, ghost, WInv

LEMMA PollTyped == ASSUME WInv, PollRekeyProgress PROVE WInv'
<1>1. CASE ApplyOutcome
  <2> DEFINE content == [spki |-> plan.key,
                         signer |-> IF plan.selfSigned THEN plan.key ELSE document.signer]
  <2>1. /\ working /\ PlanIsDone /\ UNCHANGED <<keyFile, open, offer, registry, born>>
        /\ document' = content /\ WriteCurrent(content, TRUE)
        /\ retired' = IF "state" \in failures THEN retired \cup {plan.key} ELSE retired
        /\ Publish(pending.key, pending.index, Root)
        /\ report' = [kind |-> IF failures = {} /\ ~dirty' THEN "complete" ELSE "incomplete",
                      plan |-> plan]
    BY <1>1 DEF ApplyOutcome
  <2>2. plan \in Plans /\ plan.key \in Keys
    BY <2>1 DEF WInv, WorkTyped, Plans
  <2>3. content \in Content
    BY <2>2 DEF Content, WInv, EditorTyped
  <2>4. report' \in Reports
    <3> DEFINE kind == IF failures = {} /\ ~dirty' THEN "complete" ELSE "incomplete"
    <3>1. kind \in {"complete", "incomplete", "error", "gone"}
      OBVIOUS
    <3>2. report' = [kind |-> kind, plan |-> plan]
      BY <2>1
    <3> HIDE DEF kind
    <3> QED
      BY <2>2, <3>1, <3>2 DEF Reports
  <2> HIDE DEF content
  <2>5. file' \in [Objects -> Content \cup {Torn}] /\ dirty' \in BOOLEAN
    BY <2>1, <2>3, CurrentWriteFits DEF WInv
  <2>6. retired' \subseteq Keys
    BY <2>1, <2>2 DEF WInv, HistoryTyped
  <2>7. published' \subseteq [key : OneTime, index : 0 .. Leaves, object : Objects]
    <3>1. Root \in Objects
      BY DEF Objects
    <3> QED
      BY <2>1, <3>1, PendingFits, PublishFits DEF WInv
  <2>8. WorkTyped' /\ mode' = "Browse" /\ pending' = NoSignature
    BY <2>1, <2>4, DoneTyped
  <2>9. EditorTyped'
    <3>1. dirty' \in BOOLEAN
      BY <2>5
    <3>2. open' \in Objects /\ document' \in Content /\ offer' \subseteq [path : KeyPaths, key : Keys]
      BY <2>1, <2>3 DEF WInv, EditorTyped
    <3>3. mode' \in {"Browse", "EditPubKey", "Progress", "Inline", "Resign"}
      BY <2>8
    <3> QED
      BY <3>1, <3>2, <3>3 DEF EditorTyped
  <2> QED
    BY <2>1, <2>5, <2>6, <2>7, <2>8, <2>9 DEF WInv, FilesTyped, IndicesTyped, HistoryTyped
<1>2. CASE ApplyError \/ WorkerGone
  <2>1. /\ working /\ PlanIsDone
        /\ UNCHANGED <<disk, open, document, dirty, offer, registry, ghost>>
        /\ report' \in [kind : {"error", "gone"}, plan : {plan}]
    BY <1>2 DEF ApplyError, WorkerGone, working
  <2>2. plan \in Plans
    BY <2>1 DEF WInv, WorkTyped
  <2>3. report' \in Reports
    BY <2>1, <2>2 DEF Reports
  <2>4. WorkTyped' /\ mode' = "Browse" /\ pending' = NoSignature
    BY <2>1, <2>3, DoneTyped
  <2>5. EditorTyped'
    BY <2>1, <2>4 DEF WInv, EditorTyped
  <2>6. IndicesTyped'
    BY <2>1, <2>4 DEF WInv, IndicesTyped
  <2> QED
    BY <2>1, <2>4, <2>5, <2>6, FilesStayTyped, HistoryStaysTyped DEF disk, ghost, WInv
<1> QED
  BY <1>1, <1>2 DEF PollRekeyProgress

LEMMA ResigningTyped == ASSUME WInv, Resigning PROVE WInv'
<1>1. ASSUME NEW path \in KeyPaths, StartResign(path) PROVE WInv'
  <2>1. /\ UNCHANGED <<disk, open, document, dirty, offer, work, ghost>>
        /\ keyFile[path] \in Stored /\ keyFile[path].key = issuerKey
        /\ canSign(issuerKey, keyFile[path].index) /\ Consume(issuerKey, keyFile[path].index)
        /\ pending' = [key |-> issuerKey, index |-> leaf(issuerKey, keyFile[path].index)]
        /\ mode' = "Resign" /\ report' = NoReport
    BY <1>1 DEF StartResign, holds
  <2>2. issuerKey \in Keys /\ keyFile[path].index \in 0 .. Leaves
    BY <2>1 DEF Stored
  <2>3. /\ leaf(issuerKey, keyFile[path].index) \in 0 .. Leaves
        /\ registry' \in [OneTime -> 0 .. Leaves]
    BY <2>1, <2>2, SignatureFits DEF WInv
  <2>4. pending' \in Stored
    BY <2>1, <2>2, <2>3 DEF Stored
  <2>5. IndicesTyped' /\ EditorTyped'
    BY <2>1, <2>3, <2>4 DEF WInv, IndicesTyped, EditorTyped
  <2>6. ~working'
    BY <2>1 DEF working
  <2> QED
    BY <2>1, <2>5, <2>6, FilesStayTyped, WorkStaysTyped, HistoryStaysTyped, NoReportTyped
    DEF disk, ghost, WInv
<1>2. CASE CancelResign
  <2>1. /\ UNCHANGED <<disk, open, document, dirty, offer, work, report, registry, ghost>>
        /\ mode' = "Browse" /\ pending' = NoSignature
    BY <1>2 DEF CancelResign
  <2>2. IndicesTyped' /\ EditorTyped'
    BY <2>1 DEF WInv, IndicesTyped, EditorTyped
  <2>3. ~working'
    BY <2>1 DEF working
  <2> QED
    BY <2>1, <2>2, <2>3, FilesStayTyped, WorkStaysTyped, HistoryStaysTyped, NoReportTyped
    DEF disk, ghost, WInv
<1>3. CASE SubmitResign
  <2>1. /\ UNCHANGED <<keyFile, open, offer, work, report, registry, born, retired>>
        /\ document' = [document EXCEPT !.signer = pending.key]
        /\ WriteCurrent(document', TRUE) /\ Publish(pending.key, pending.index, open)
        /\ mode' = "Browse" /\ pending' = NoSignature
    BY <1>3 DEF SubmitResign
  <2>2. document' \in Content
    BY <2>1, PendingFits DEF WInv, EditorTyped, Content
  <2>3. file' \in [Objects -> Content \cup {Torn}] /\ dirty' \in BOOLEAN
    <3> DEFINE content == document'
    <3>1. content \in Content /\ WriteCurrent(content, TRUE)
      BY <2>1, <2>2
    <3> HIDE DEF content
    <3> QED
      BY <3>1, CurrentWriteFits DEF WInv
  <2>4. published' \subseteq [key : OneTime, index : 0 .. Leaves, object : Objects]
    <3>1. open \in Objects
      BY DEF WInv, EditorTyped
    <3> QED
      BY <2>1, <3>1, PendingFits, PublishFits DEF WInv
  <2>5. EditorTyped'
    BY <2>1, <2>2, <2>3 DEF WInv, EditorTyped
  <2>6. ~working'
    BY <2>1 DEF working
  <2>7. FilesTyped' /\ HistoryTyped' /\ IndicesTyped'
    BY <2>1, <2>3, <2>4 DEF WInv, FilesTyped, HistoryTyped, IndicesTyped
  <2> QED
    BY <2>1, <2>5, <2>6, <2>7, WorkStaysTyped, NoReportTyped DEF WInv
<1> QED
  BY <1>1, <1>2, <1>3 DEF Resigning

LEMMA LoadTyped ==
  ASSUME WInv, NEW object \in Objects, Load(object)
  PROVE  open' \in Objects /\ document' \in Content /\ dirty' \in BOOLEAN
BY DEF WInv, FilesTyped, Load

LEMMA SessionTyped ==
  ASSUME WInv, Save \/ (\E object \in Objects : OpenFile(object)) PROVE WInv'
<1>1. CASE Save
  <2>1. /\ UNCHANGED <<keyFile, open, document, mode, offer, pending, work, registry, ghost>>
        /\ WriteCurrent(document, dirty) /\ report' = NoReport
    BY <1>1 DEF Save
  <2>2. file' \in [Objects -> Content \cup {Torn}] /\ dirty' \in BOOLEAN
    BY <2>1, CurrentWriteFits DEF WInv, EditorTyped
  <2>3. EditorTyped' /\ FilesTyped'
    BY <2>1, <2>2 DEF WInv, EditorTyped, FilesTyped
  <2>4. working' => working
    BY <2>1 DEF working
  <2> QED
    BY <2>1, <2>3, <2>4, WorkStaysTyped, IndicesStayTyped, HistoryStaysTyped, NoReportTyped
    DEF ghost, WInv
<1>2. ASSUME NEW object \in Objects, OpenFile(object) PROVE WInv'
  <2>1. /\ UNCHANGED <<disk, mode, offer, pending, work, registry, ghost>>
        /\ Load(object) /\ report' = NoReport
    BY <1>2 DEF OpenFile
  <2>2. EditorTyped'
    BY <2>1, LoadTyped DEF WInv, EditorTyped
  <2>3. working' => working
    BY <2>1 DEF working
  <2> QED
    BY <2>1, <2>2, <2>3, FilesStayTyped, WorkStaysTyped, IndicesStayTyped, HistoryStaysTyped,
       NoReportTyped DEF disk, ghost, WInv
<1> QED
  BY <1>1, <1>2

LEMMA NewProcessTyped == ASSUME WInv, NewProcess PROVE WInv'
<1>1. PICK object \in Objects : Load(object)
  BY DEF NewProcess
<1>2. /\ PlanIsDone /\ offer' = {} /\ report' = NoReport
      /\ registry' = [k \in OneTime |-> 0] /\ UNCHANGED <<disk, ghost>>
  BY DEF NewProcess
<1>3. WorkTyped' /\ mode' = "Browse" /\ pending' = NoSignature
  BY <1>2, DoneTyped, NoReportTyped
<1>4. EditorTyped'
  BY <1>1, <1>2, <1>3, LoadTyped DEF EditorTyped
<1>5. IndicesTyped'
  BY <1>2, <1>3, ParametersAreSound DEF IndicesTyped
<1> QED
  BY <1>2, <1>3, <1>4, <1>5, FilesStayTyped, HistoryStaysTyped DEF disk, ghost, WInv

LEMMA OthersTyped == ASSUME WInv, Others PROVE WInv'
<1>1. UNCHANGED <<file, ui, work, report, registry, ghost>>
  BY DEF Others, CopyKeyFile, CreateFile
<1>2. keyFile' \in [KeyPaths -> Stored \cup {NoFile, Foreign}]
  BY DEF Others, CopyKeyFile, CreateFile, holds, WInv, FilesTyped
<1>3. FilesTyped' /\ EditorTyped'
  BY <1>1, <1>2 DEF WInv, FilesTyped, EditorTyped, ui
<1>4. working' => working
  BY <1>1 DEF working, ui
<1> QED
  BY <1>1, <1>3, <1>4, WorkStaysTyped, IndicesStayTyped, HistoryStaysTyped, NoReportTyped
  DEF ui, ghost, WInv

LEMMA FirstTyped == ASSUME Init PROVE WInv
<1>1. PICK signer \in {First, Authority} :
        file = [o \in Objects |-> IF o = Root THEN [spki |-> First, signer |-> signer]
                                              ELSE [spki |-> Authority, signer |-> First]]
  BY DEF Init
<1>2. file \in [Objects -> Content \cup {Torn}] /\ file[Root] \in Content
  BY <1>1, Constants DEF Content
<1>3. keyFile \in [KeyPaths -> Stored \cup {NoFile, Foreign}]
  <2>1. [key |-> First, index |-> 0] \in Stored
    BY Constants, ParametersAreSound DEF Stored
  <2> QED
    BY <2>1 DEF Init
<1>4. FilesTyped
  BY <1>2, <1>3 DEF FilesTyped
<1>5. EditorTyped
  <2>1. open \in Objects /\ document \in Content /\ offer = {} /\ mode = "Browse" /\ dirty = FALSE
    BY <1>2, Constants DEF Init
  <2> QED
    BY <2>1 DEF EditorTyped
<1>6. WorkTyped
  <2>1. 0 \in 0 .. Leaves
    BY ParametersAreSound
  <2> QED
    BY <2>1 DEF Init, WorkTyped, Reports, working
<1>7. IndicesTyped
  BY ParametersAreSound DEF Init, IndicesTyped
<1>8. HistoryTyped
  BY Constants DEF Init, HistoryTyped
<1> QED
  BY <1>4, <1>5, <1>6, <1>7, <1>8 DEF WInv

(* Whatever fails, stops, or is done to the files meanwhile: every         *)
(* variable keeps its type, and no index of a one-time key, in its file,   *)
(* in the process or in a signature, passes the number of its leaves.      *)
THEOREM TypeCorrect == Spec => []TypeOK
<1>1. WInv /\ [Next]_vars => WInv'
  <2> SUFFICES ASSUME WInv, [Next]_vars PROVE WInv'
    OBVIOUS
  <2>1. CASE PerformRekey
    BY <2>1, ObtainTyped, BuildTyped, WorkerMovesTyped, PersistTyped, ResignFileTyped DEF PerformRekey
  <2>2. CASE UNCHANGED vars
    <3>1. /\ UNCHANGED <<keyFile, file, pending, registry, born, published, retired, work>>
          /\ UNCHANGED <<open, document, dirty, mode, offer, report>>
      BY <2>2 DEF vars, disk, ui, ghost
    <3>2. EditorTyped' /\ (working' => working)
      BY <3>1 DEF WInv, EditorTyped, working
    <3> QED
      BY <3>1, <3>2, FilesStayTyped, WorkStaysTyped, IndicesStayTyped, HistoryStaysTyped,
         NoReportTyped DEF WInv
  <2>3. CASE Restart \/ Crash
    BY <2>3, NewProcessTyped DEF Restart, Crash
  <2> QED
    BY <2>1, <2>2, <2>3, DialogTyped, WorkerMovesTyped, PollTyped, ResigningTyped, SessionTyped,
       OthersTyped DEF Next
<1>2. WInv => TypeOK
  BY DEF WInv, TypeOK, FilesTyped, EditorTyped, WorkTyped, Reports, IndicesTyped, HistoryTyped
<1> QED
  BY <1>1, <1>2, FirstTyped, PTL DEF Spec
=============================================================================
