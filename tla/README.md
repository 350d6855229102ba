# A verification of asn1-editor

asn1-editor is a terminal program that shows, edits, signs and re-keys ASN.1
files (certificates, CRLs, private keys, PKCS#12 and CMS containers). This
directory holds TLA+ modules that model its interactive core, the TLC
configurations that check them on small instances, and proofs of their main
properties for every instance.

## 1. The system

One process, one thread, one `App` value; the event loop (`src/src/tui.rs`)
draws, polls, reads a key and calls one method of `App` (`src/src/app.rs`). The
only second thread is the worker of a slow re-key. The outside world - the
directory being browsed, the clipboard, the cryptographic libraries - changes
and fails on its own.

| Component | State it keeps | Operations | What makes it hard, what makes it correct |
|---|---|---|---|
| session: `tui.rs` event loop and handlers, `app.rs` document life cycle, `main.rs` | mode, focus, the document (`path`, `out_path`, `roots`, `rows`, `selected`, `dirty`), three pending confirmations, the search string | one handler per key and mode; preview and open a file; edit, insert, move, delete; save; new file; menu bar; two polls | a confirmation is a flag armed by one key and used by a later one; whoever replaces the document must replace everything that belongs to it. Correct: unsaved work is lost only after the user was warned, and the modified mark tells the truth |
| edit history: `EditHistory`, `HexEditor`, `TextEditor` | buffer, cursor, anchor, marked range, undo list, clipboard | move, select, type, paste, delete, cut, copy, undo | off-by-ones over half octets, a stale anchor, a full undo list. Correct: indices stay in the buffer, undo restores exactly, a cut can be pasted back |
| file browser: `browser.rs` | loaded part of the directory tree, rows, selection, startup baseline, search filter | expand, collapse, move, filter, refresh from disk | rows index entries that a refresh re-sorts; files come and go while the tree is partly loaded |
| re-keying and re-signing: `app.rs` (`submit_pubkey`, `perform_rekey`, `resign_state`, ...), `xmss.rs`, `hsslms.rs`, `keygen.rs` | key files, the index of one-time signatures inside them, the worker and its channel | generate or load a key, sign the certificate, re-sign issued objects, write the key's state back, install the result | several files written one after the other, each of which may fail; a crash in between; a stateful key whose index must never be used twice |
| revealed content: `pkcs8.rs`, `pkcs12.rs`, `Decrypted`, `Pkcs12Reveal`, `CmsReveal` | the decrypted trees beside the document, retained passwords | decrypt, edit, re-encrypt into the document, hide | the virtual tree and the container must be kept consistent through every edit |
| relations and validation: `verify.rs`, `x509.rs`, `pathval*.rs` | indexes of certificates, CRLs, keys and CMS messages, the trust set, signature and path status | scan, find issuers, verify, validate a path, mark as trusted | snapshots that must follow disk and document |
| BER: `ber.rs` | none | parse, encode, definite and indefinite lengths, encapsulated values | parse and encode must be inverse; offsets and lengths |
| specifications: `spec.rs`, `oid.rs`, `specs/` | the loaded modules | parse ASN.1 modules, match a document against types | recursive matching with optional and choice components |
| containers: `input.rs`, `clipboard.rs` | none | recognise and write PEM, base64, hex, raw | wrap and load must be inverse |
| tree pane: `app.rs` (`rebuild_rows`, folding, the two searches) | rows, selection, folding, filter, search index | select, fold, filter, search all files; every edit rebuilds the rows | rows point into four kinds of trees that an edit parses again; the selection and the folding have to survive it |
| extension forms: `x509/*.rs`, `app.rs` | form state | read and write BasicConstraints, KeyUsage, ExtendedKeyUsage | reading back what was written, and losing nothing else |
| public-key dialog: `PubKeyState` of `app.rs`, `keygen.rs` | chosen algorithm, parameters, key source, file name, objects to re-sign | some thirty keys, one plan | everything depends on the algorithm, which ten keys can change |
| the rest: `dump.rs`, `cost.rs`, `version.rs`, `hashsig.rs`, `keygen.rs` | none | print, estimate, generate | pure output and calls into libraries |

The source lies in `src/src/`; line numbers below and in `PROJECT.json` are those
of that directory. `PROJECT.json` has, for every definition that models code, the
lines it stands for, and lists the hazards with the properties aimed at them.

## 2. The modules

| Module | What it is | Composition |
|---|---|---|
| `Session` | the event loop, the document life cycle, the confirmations | its own specification |
| `EditHistory` | the buffer of the hex and text editors | implements `UndoLog` |
| `UndoLog` | the abstract promise of an undo: a bounded log of values | instantiated in `EditHistory` |
| `Rekey` | re-keying and re-signing over key files, objects and the worker | dialog, worker thread, poll, other programs |
| `Browser` | the directory tree, its rows, the refresh, App's indexes | browser, disk and indexes |
| `Reveal` | decrypted keys, PKCS#12 regions and messages, edited in place | implements `Vault` |
| `Vault` | the abstract promise: a secret changes alone and in place, the one that is shown unless a part is locked | instantiated in `Reveal` |
| `Relations` | indexes, signature status, relation arrows, trust and certification paths | document, browser selection, disk, other programs |
| `Ber` | decoding and encoding, octet for octet; operators, no state | extended by the three below and by `Forms` |
| `Containers` | PEM, base64, hex and raw files, pasted digits; operators | extended by `Document` |
| `Specs` | the parser of specification files and the matcher; operators | extended by `Document` |
| `Document` | the open document from file to file, with the hex, base64, raw and type-specific editors of a value | `Ber`, `Containers` and `Specs` together |
| `Outline` | the tree pane: rows, folding, cursor, the two searches, and what an edit does to them | document and revealed trees |
| `Forms` | the forms of three certificate extensions | extends `Ber` |
| `KeyDialog` | the public-key dialog and the plan it submits | its own specification |
| `Dialogs` | how forms and the dialog are reached from an element and two menus | `Forms` and `KeyDialog` together |
| `MC...` | the small instances | extend the module of the same name |
| `Positions` | positions of a sequence: keeping some, filtering | extended by `Reveal`, `Relations` and `KeyDialog` |
| `SessionProofs`, `EditHistoryProofs`, `RekeyProofs`, `BrowserProofs`, `RevealProofs`, `RelationsProofs`, `KeyDialogProofs`, `OutlineProofs` | theorems and proofs | extend the module of the same name |

The modules see the same program from different sides, and each abstracts what
another one details. `Session` has a flat list of files where `Browser` has the
tree, one Dialog where `EditHistory` has a buffer and `Dialogs` the forms, one
Crypto dialog with its outcomes where `KeyDialog` has its fields and `Rekey` the
whole protocol. `Document` has the octets of a document, `Outline` its rows and
`Reveal` its secrets; `Relations` takes from a document what its parsers take.

Definitions named "Mutant of X" above a definition X are X with one plausible
mistake. They are used in no specification: they show that a property notices.

### Session

State is that of `App` with the local variables of `tui::event_loop`
(`quitConfirm` is `quit_confirm`, `openConfirm` is `browser_open_confirm`,
`deleteConfirm` is `delete_confirm`). An action is one turn of the loop: the key,
the handler of the current mode and everything that handler calls - opening a
file includes the reset of selection, mode and confirmations, an edit includes
rebuilding the rows and clamping the selection, a new file includes refreshing the
browser. `PollFilesystem` and `PollRekeyProgress` are the turns without a key.

A document is a sequence of distinct elements: what the properties need is which
element a row stands for, that deleting and moving change it, and that a search
hides some. A path is its rank in the order of the pane. `Junk` is a file that
does not parse, or was cut off by a failed write. `persisted` and `warned` are
history variables, read by properties only.

### EditHistory

`buf`, `cursor`, `anchor`, `fresh`, `undo` are the fields of `HexEditor`,
`TextEditor` and their `EditHistory`. Positions are offsets between items, so that
Rust's half-open ranges and `String` indices map without change; `Unit` is 2 where
the hex editor rounds a selection outwards to whole octets, and 1 in the text
editors. Every operation (`Step`, `Jump`, `SelectAll`, `Insert`, `RemoveOne`,
`Copy`, `Cut`, `Paste`, `Undo`) is an action, including the no-ops that still move
the cursor or clear the mark. The clipboard is one register that other programs
write too; `taken` is what `TextEditor::insert_text` makes of it, which drops the
control characters but for the newlines of the raw format. For the hex editor the
register holds the digits that `clipboard::hex_digits` reads (`Containers` has that
reading), and there is nothing to drop.

### Rekey

The folder holds a certificate `Root` and the objects it issued. `keyFile` and
`file` are the disk; `registry` is the process-wide memory of the signature
library, `held` the copy of the private key that the worker advances. The four
steps of `perform_rekey` (obtain the key and write its initial state; build the
certificate; re-sign the issued objects one by one; write the final state) are one
action each, so that a crash, the user and other programs come between any two.
`ApplyOutcome` is the installation by `poll_rekey_progress`, or inline for a fast
algorithm. `report` is what the status line says, with the plan it is about. The
re-sign dialog signs with the algorithm that the object names, so `StartResign` wants
the key it is signed with now and the issuer's to be of one `Algorithm`: an object that
a re-key left out is refused.

Assumed of what lies outside the code:
- the signature library (Botan) continues from the later of the index in the
  serialized key and the index it remembers in this process, for XMSS and HSS/LMS
  alike, and refuses past the last leaf;
- a signature is published when the document or file that carries it has been
  installed or written; one that was computed and thrown away is not;
- a user who was told that the state of a key could not be saved does not use that
  key again (`retired`);
- an object has one content to be signed under each key: nobody edits by hand
  between two signatures. `OneMessagePerIndex` is the stronger for it, since a
  second signature of the same object is then no violation, whatever the reason.

Root is self-signed when the document is signed with the key it carries. Not in
the model: the form fields of the dialog (a rejected value leaves the dialog open,
a stutter), the re-sign dialog that opens without a usable key, re-keying an object
other than Root, and the outcome in which the built certificate does not parse.

### Browser

A path is a number, and numbers order the names of siblings. `tree` has one entry
per path that was read; `rows` are index paths into it, exactly as in the code
(`Vec<Vec<usize>>`), which is what makes re-sorting dangerous. `refreshed(tree)`
is `refresh_dir` over the whole loaded part, `differs` what it reports as a change.
`Refresh` composes it with `App::refresh_filesystem`: the indexes are read again
(`scanned`) and the search narrows the rows once more. `initial` is the startup
snapshot that statuses are relative to.

Assumed: each change on disk has a modification time of its own, later than all
before (two changes within the clock's resolution are not told apart); names differ
when their case is ignored; there are no symbolic links; the browsed directory
itself stays. `scanned` stands for all indexes of `App`, without the overlay of the
open document.

### Reveal

A container is the sequence of its encrypted regions, its MacData and what it
holds outside of them. A ciphertext remembers what was encrypted, under which
password and IV: it opens with that password only. Decryption parameters are
supported, not implemented, or another algorithm altogether, which is what
`pkcs8_parse` and `parse_pkcs12` tell apart. The virtual trees (`decrypted`,
`pkcs12`, `cmsReveal`), the retained passwords and the unlocked keys are the fields
of `App`. An edit is one action: the inner forest, its encryption into the
document, the MAC, the rebuild, and for an edit outside of the revealed content
the decryption once more (`refresh_decrypted_tree`, `refresh_pkcs12_reveal`). The
Vault is instantiated with the plaintexts of the regions as its secrets.

An IV is one of two and differs from the last. A password may open a part of a
PKCS#12 only (`SubmitPkcs12`): in `Reveal.cfg` after one of its ciphertexts was
damaged (`AnyPart` of `MCReveal`), in `RevealPartial.cfg` from the start, with two
passwords. The region an edit replaces is found by its position among those shown, so
with a part locked it may be another one. `Vault` says which: the shown one, or, when
one before it is locked, one that does not come after it (`hits`); that it is always
the shown one (`EditsWhatIsShown`) is refuted (section 5). After any edit everything
is shown or nothing.

### Relations

A file is what the parsers take from it: names, serial, key, key identifiers, a
signature that remembers who made it over what. `signables`, `caIndex`, `keyFiles`,
`cmsFiles` are the indexes of the last scan; `recomputeSigStatus` is
`recompute_sig_status` whole: the overlay of the open document, the verification,
the own key entry, the path and the arrows. OpenSSL's path building is external:
`builtChains` allows any chain of issuers from the target to an anchor.

### Ber, Containers, Specs, Document

The pure part of the program as operators, recursive where the code is, over octets.
A tag number is the sequence of its 7-bit groups, because TLC's numbers are narrower
than the code's. `Document` composes them: `opened(input)` is `load`, `parse_forest`,
`identify`; each editor has its initial text and its octets (`initialText`,
`toBytes`); an edit replaces the content, encodes and parses again (`rebuilt`),
copies the folding and identifies again. The text editors decode what they are given
as the code does, with a replacement character for what is no character; the one
for a REAL opens empty. An INTEGER is converted digit by digit, at any length.
The sum of a header's size and a content length may overflow 64 bits: it panics or
wraps around, depending on the build (`OverflowChecks`), and the slice that
follows panics as well, so the program ends (`Dies`; `running` is FALSE from then on).
The specification files are parsed from tokens when the editor starts.

### Outline

A forest is a function from the paths of its nodes to the nodes, closed under the
enclosing and the preceding ones (`isForest`), where the code has vectors of children:
a path is how the code finds a node (`node_at`). A node has an identity, a word that the
search may find, and, when it is a ciphertext, the forest it decrypts to. Rows are made by `collectForest` and `spliced`
in the order of `rebuild_rows`, with the placeholders of a search. The history
variables `held` (what the last edit put in place) and `before` (what was on a row)
are read by `EditsKeepTheView` only. No two nodes of a file have the same identity, and
an edit gives a new one to what it inserts (`hasIdentities`, `FreeId`): the code has
none, and the guards and the rows never read them. `Unlock` reveals the ciphertexts of one kind, as
`submit_password` does, also when they are revealed already; a wrong password then hides
them and leaves the rows (`UnlockFails`), whose nodes are gone (`hasNode`): they cannot be
folded or edited until something makes the rows again. An edit in a PKCS#12 parses it again, while the tree of a
decrypted key stays as it was edited (`refreshed`, `Rebuild`). `rowsIdent` and
`rowsRevealed` are the labels and the regions the rows were made with, which are not always
those of the document (section 5).

### Forms, KeyDialog, Dialogs

`Forms` reads and writes the octets of an extension; a digit of an entered number is
the number it stands for, so that what is shown can be compared with what is
written. `isKnown` says, from X.509 and DER and not from the code, of which values a
form knows everything: those come back octet for octet, of the others only what the form
knows (`kept`). `KeyDialog` counts rows from 0, as the code does; a file name is a sequence
whose first element may be an algorithm's default name. `Dialogs` opens one of them
at a time from 'e', the edit menu and the menu of cryptographic adjustments.

## 3. The runs

All passing runs are exhaustive over their instance. `CHECK_DEADLOCK FALSE` is said
in the runs of `Rekey`, where a cut-off root file leaves nothing to do, of `Reveal`
and `Relations`, whose edits are bounded, and of `Document`, where a panic may have
ended the program.

| Run | Question | Instance and bounds | Why that is enough |
|---|---|---|---|
| `session` | is unsaved work lost only after a warning, is a clean mark the truth, is the selection a row | one document of up to 2 elements out of 2 and a free name before it; two search strings, one that finds nothing; directory and single-file start (with `-o` onto the other name); 3.3 million states | two names are what it takes to switch and to confuse input and output; two elements to delete one, move one, hide one or both; saves may fail and truncate |
| `session_external` | is unsaved work lost only after a warning while other programs write | documents of one element, one external write at any time | one foreign write can create, change or destroy either file between any two keys |
| `edit_history_hex` | indices in bounds, undo walks back and marks what it brought back, a cut can be pasted back | 2 digits at the start and up to 4, 3 recorded changes, undo depth 2, a paste of 2 | odd and even lengths, selections that are rounded, an undo list that overflows |
| `rekey` | one message per index, a summary without failure is true, an error leaves objects alone | 2 issued objects, one stateless and one stateful key with 3 leaves, 2 key files, failing and torn writes, restarts; 4 million states | Root and two objects use up three leaves exactly, a restart in between re-reads the stored index, a second re-key meets the used key |
| `rekey_anything` | the signing key is always stored, the progress window closes | 1 issued object, 2 leaves, and all that can happen but torn writes: crashes, a dying worker, copied and foreign key files, re-signing | each event can come between any two steps of the worker |
| `browser` | rows show the tree, a refresh tells every change once, statuses are true, the place is kept | 4 paths - a directory with a file and a directory in it, a file that may turn into a directory - and 2 changes on disk | two levels, two kinds of siblings, and a change after a change of the same entry |
| `reveal` | what is shown is what is encrypted, no partial update, the MAC fits, the Vault's promise | an encrypted key, a PKCS#12 with two regions, a message and a plaintext key, 2 passwords, 3 edits; 740 000 states | an edit inside, one outside and one inside again; right and wrong passwords; an edit outside can damage a region, so that a part is shown, or make it one of an algorithm that is not implemented |
| `relations` | status, arrows and indexes agree with one another and with what is open | 3 files: a root, a certificate it issued and a CRL, a message or a key (three startups), 2 changes by the user or other programs | root, issuer and subject; a change of the document and one of the file below it, in both orders |
| `document` | the saved file is the document, the tree is the file's, an untouched edit changes nothing that the editor can show, what is entered is stored, the best type is found | files of every container with 1 edit of every kind: boundary lengths up to those that overflow, integers, reals, OIDs, dates and texts in three encodings, some broken, indefinite and nested encodings, items entered in forms that are not DER, 3 specification files, one of them broken off; builds without overflow checks; ends where a panic ended the program | the conversions have their edges at one sign bit, one length octet, one arc, one character; an edit is followed by the whole chain of encoding, parsing and naming |
| `outline` | the rows are the outline, Left climbs, an edit keeps the view, both panes find the same | 5 files - plain, empty, with a revealed key, PKCS#12 and message - searches of 2 letters, 1 edit; 300 000 states | two levels, two regions, a hidden run before, between and after matches; a wrong password before and after a right one, then every key on the rows it leaves |
| `dialogs` | a form writes what it says and keeps what it knows, indices and file name follow the choices, the submitted key fits | a certificate and four bare lists of extensions, some well-formed and some not: a path length below 0, at and beyond the end of 32 bits and without a CA, bits beyond the ninth, OIDs that do not decode, repeated or out of order, a value that is none; 4 typed texts, 2 changes; 3 families, 4 keys, 2 levels; 710 000 states | every key of the dialog in every order up to 2 typed or toggled changes; files that vanish under the dialog |

A run that is expected to find a violation has one property, quoted from what the
repository says of itself (`findings` in `PROJECT.json`): `rekey_resign` re-keys
Root to the stateful key together with an object it issued, re-signs the one, restarts
and re-signs the other, and the same one-time index has signed two messages. Section 5 has those without a run.

The type invariants are theorems (section 4) or, where there is no proof, stated in
their module and checked on the same instances when a definition changes.

### Fairness

Only `ProgressEnds` needs it. Weak fairness of `PerformRekey`: the worker is an
operating-system thread that runs (or the event loop itself, which waits for it).
Weak fairness of `PollRekeyProgress`: `event_loop` polls every 250 ms whether or not
a key is pressed. Nothing is assumed of the user, of other programs or of the
worker's survival; `WorkerDies` stays possible at every step.

## 4. What is proved

TLAPS checks the following for all values of the constants that satisfy the named
assumptions of the modules (any set of paths, any set of elements, any initial value,
both selection units, any undo depth).

`SessionProofs`:
- `TypeCorrect`. The work is in the documents: replacing, swapping, removing and
  inserting keep a sequence free of duplicates and within its bound
  (`ReplaceContent`, `SwapContent`, `RemoveContent`, `InsertContent`), and the
  selection, counted in rows, stays a natural number (`RankIsNatural`,
  `ClampIsNatural` over the finiteness of the rows).
- `CleanDocumentsArePersisted`. Inductive as it stands, together with the types.
- `QuitIsConfirmed`. The property speaks of a warning given earlier and is not
  inductive: nothing in it says that an armed flag remembers a warning. `QuitConfirmed`
  adds that an armed `quitConfirm` over a modified document implies that the warning
  is still good, and that the mode is one from which the keys that change the
  document cannot be reached without disarming: the menu bar, a new file or a popup
  can be opened while armed, a dialog cannot.
- `SwitchIsConfirmed`. `OpenConfirmed` needs more, because the dialogs do not look at
  `openConfirm` at all: with the focus in the browser, a dialog that modifies the
  document is only ever open with the confirmation disarmed; a search started in the
  browser leaves the focus there; an edit dialog always has the focus on the document,
  and Tab, the only way back, disarms. Without an open file there is nothing to modify
  (`NothingToEdit`).
- `SelectedIsARow`: there is a row for every number below their count (`RowAtEachIndex`,
  by the least number of elements with enough rows among them), so what `clamp` leaves
  is a row; an element that is moved, and one inserted behind a row that is shown, has a
  row of its own under any filter (`MovedIsARow`, `InsertedIsARow`).

`EditHistoryProofs`:
- `IndicesInBounds` and `TypeCorrect` from the invariant `Safe`: the cursor and the
  anchor in the buffer, the marked range in the buffer, and the same for every entry
  of the undo list with its own buffer. The last part is what `RangesInBounds` lacks:
  an undo restores a cursor that was recorded with an older buffer.
- `UndoIsALog`: initial states map to initial states, and every step to a step of
  `UndoLog` or a stutter (`RecordAppends`, `UndoTruncates`).
- `CutLosesNothing`: pasting right after a cut restores the buffer (`CutAndPaste`), if
  nothing was cut that the editor does not paste (`TakenWhole`). The hex editor has
  nothing of the kind; a value whose text holds a control character does.
- `UndoMarksNoLess`: what lies outside the range an undo marks was in the buffer
  before (`RestoredIsTheDifference`, over the longest shared head and tail).
  The least number with a property (`LeastNatural`, which the other proofs use as well)
  takes the place of an induction.

`RekeyProofs`, for any keys, files, objects and number of leaves
(`ParametersAreSound`):
- `IndicesAreUsedOnce`, under the faults of `Orderly`: failing and torn writes, restarts,
  names taken by other programs. Under each of the others it is false: `RekeyCrash`
  and `rekey_resign` show it of a crash and a re-sign, and a copied key file or a worker
  that dies, followed by a restart, leaves a file behind as well. The invariant `MInv` says where the next
  index is safe. Between two re-keys every file of a key in use is past all published
  signatures of it (`FilesAhead`); during one, the worker's copy is (`HeldAhead`), and the
  certificate's own signature, which is published last, differs from those in between;
  once the state is saved, the file is past that one too (`PendingAhead`). A key whose
  state could not be saved is `Behind` until it is retired. For this each key has one
  file (`OneFilePerKey`) and a generated key has no past (`Births`). Nothing is needed of
  the library's registry but that it never makes an index smaller (`LeafIsAhead`).
- `SummariesAreTrue`, under the same faults, with `CInv` on top: which objects carry the
  new key's signature while the worker is on its way (`ResignedSoFar`) and that the
  target holds the key at the end (`SavedAtTheEnd`).
- `ErrorsChangeNothing`, under every fault: up to the last step that can return an error
  the folder is as it was, and a report does not outlive the next write (`EInv`).
- `SignersAreStored`, under every fault but torn writes: from the step that builds the
  certificate on, the planned key is under its name (`PlanIsStored`), and what another
  program copies to that name before is still elsewhere (`TargetIsSpare`), so no step
  takes a key from the disk (`FilesStay`, `ObtainKeeps`).
- `TypeCorrect`, under every fault: no index, in a file, in the registry, in the worker
  or in a signature, passes the number of leaves. `WInv` adds that a worker on its way
  has a plan, without which what it signs would have no key.

`BrowserProofs`, for any tree of paths and any number of changes on disk. A child has
a greater number than its parent (`TreeIsSound`), which is what makes the recursion
that collects the way down to a path well-founded (`DescentIsDefined`):
- `ChangesAreTold` and `StatusesAreTrue`. A refresh compares statuses and times, not
  entries, and its report decides whether anything else is read again. `BInv` says why
  that is enough: nothing is newer than the clock (`Ages`), what has the time of the
  startup, or that of the index, is what the startup, or the index, holds (`TimesTell`),
  an entry whose time is that of the disk has the kind of what is on the disk
  (`AllTold`), and each top-level entry is that of the index (`Indexed`).
- `RowsAreTheTree`: a refresh that reports nothing has changed nothing at all
  (`QuietRefresh`), so that rows which were not built again still point at the same
  entries.
- `TypeCorrect`, `PlaceIsKept`. The rows are the visible entries, once each, in the
  order of their index paths (`RowsAre`): that order is strict and total
  (`IndexPathsAreOrdered`), so how many come before an entry is a number of its own for
  each (`Ranks`), and since no two entries have one index path (`IndexPathsDiffer`) a
  row finds its entry back (`RowShows`). What changes below an entry moves none of the
  rows up to it (`RowStays`), which is why keeping the number of the row keeps the
  entry. `PlaceInv` adds that entries are listed only in directories that were read
  (`Nested`), and that what was read below directories the indexes know as they are is
  what is on disk (`SeenSinceTheScan`): without it a refresh could move the rows while
  the indexes stay.

`RevealProofs`, for any containers, keys, passwords and edits:
- `TypeCorrect`, `ShownIsTheContent`, `EditsAreWrittenBack`, `MacsFollowEdits`. `RInv`
  says what each of the three virtual trees is of the document (`HoldsPkcs8`,
  `HoldsPkcs12`, `HoldsCms`): the regions shown are those which the retained password
  opens, in order, each with its position. From it every re-encryption that an edit
  starts finds its region and succeeds.
- `MacsFollowEdits` says two things of the MAC after an edit of revealed content: what
  it covers, and that it is keyed with a password that opens a region of the container.
  It does not say that the MAC was keyed with that password before: the code recomputes
  it without looking.
- `RevealsAVault`: every step is one of `Vault` or a stutter, with no hypothesis on the
  passwords. `PInv` adds to `RInv` that what is shown of a PKCS#12 are some of its
  regions in their order, and `NthOfAPart` compares the k-th of some positions with the
  k-th of all: that is the region an edit replaces.

`RelationsProofs`, for any files and contents. Whether a signature verifies and which
chains can be built is left open:
- `NoFileTwice`. `IndexIsWhole` says that each index has one entry per file, that the
  candidates are the certificates of the index, that the open document's entry is the
  document as it is edited and is there whenever it can be, and that the status was made
  from these candidates: the overlay removes one entry and appends another
  (`OwnEntryReplaced`), a scan makes one per file (`ScannedOnce`). Filtering is the keeping
  of positions (`FilteredIsKept`), and keeping twice is keeping once (`KeepOfKeep`).
- `StatusAndArrowAgree`: status and arrow are computed apart, by two searches through
  the same candidates; both stop at the same one (`FoundOnce`).
- `WhatIsShownIsCurrent`: what is shown is a function of document, index, key files,
  trust and selection (`whatIsShown`), and every handler that changes one of these
  computes it again, or leaves it to the poll that follows.
- `TypeCorrect`. `TInv` takes the index invariant along: the kinds of contents of an
  index are those of what a scan recognises (`KindsAreScanned`) and of the document that
  the overlay appends, and the issuer a verdict names is a file because the candidate
  that was found is an entry of the index.

`KeyDialogProofs`, for any tables of families, levels and keys. Assumed of the tables is
that each default is one of the choices, as the test at `keygen.rs:807` demands
(`FamiliesAssumption`, `HssAssumption`), and that the first family is one of plain
algorithms (`FirstFamilyAssumption`):
- `NameFollows`. The name follows the algorithm until it is edited. `Good` adds that the
  dialog has its fields and that an open picker is one that `confirmed` knows. Each key
  either leaves the algorithm's fields and the name alone (`SameNameFollows`), or ends in
  `algorithmChanged` (`ChangedFollows`), or is an edit of the name, which stops it from
  being followed (`FilenameKeysKeep`).
- `IndicesAreRows`. `Sound` says that family, member and levels are choices of the tables,
  that the option in focus is one of those the algorithm leaves (the radio or the row of
  a fitting key), that an open picker is the one of the field in focus, and that the
  name's cursor is in the name. Ten keys change the algorithm; between the
  change and `algorithmChanged` the dialog is only `Ready`, and that step makes it
  `Settled` again.
- `SubmittedIsTheChosen`, from the same invariant: the row that is submitted is one of
  the keys that fit now (`ChosenKeyFits`).

`OutlineProofs`, for any files, words and edits. Assumed of each file (`OutlineAssumption`):
it and each plaintext in it is a forest, no two nodes of both have one identity, and an
octet string that shows a value holds exactly one:
- `RowsOutline`. `IInv` says that the document and what is revealed of it are forests, the
  regions inside it, that the rows are those that `rowsOf` makes of them, and that what they
  show to be revealed is what is (`rowsRevealed`), unless nothing is revealed any more. So
  a row that carries a node of a region is up to date (`RevealedAsShown`). What the walk
  over a forest yields is shown for all forests, from the leaves up, by the greatest depth
  at which it could fail: with no filter the nodes whose ancestors are open (`PlainWalk`),
  with one those with a match in them and the first of each run without
  (`FilteredWalk`), in the order of their paths. That order is strict and total, and a
  plaintext lies between its ciphertext and all that follows it (`InsideIsAfter`), so that
  what is spliced in stays in order. The other half is that every edit
  leaves forests: taking siblings apart and putting them together
  (`SiblingsAre`, `PutSiblingsIs`), and cutting off what is no longer parsed (`ParsedIs`).
- `LeftLeadsOut`: the nearest row further out is the enclosing one, which is shown because
  what it encloses is (`EnclosingRowed`).
- `SearchFindsWhatIsShown`: an unedited document says what its file says, whatever was folded
  (`SearchInv`), and the files are narrowed to those with a match (`FilterIsFound`).
- `EditsLeaveTheView`: after every edit the cursor is on what it put in place or moved, and what was on a
  row and is still there is on one. The inductive invariant adds `AllDiffer`: some document
  in which all identities differ (`distinct`) holds the one that is shown and all that is
  revealed of it (`arePart`), and the regions are all ciphertexts of one kind, in order. It
  is needed because of the fold flags: they are copied by path from the tree as it was
  edited, and would be another node's if a rebuild moved a node. `comesFrom` says of an edit
  where each node was before it, from the siblings it rearranges; identities then tie a
  node on a row before to the one on a row after (`IdIsNamed`, `StaysIs`). A node is on a row without
  a filter if all above it are open (`OpenIsRowed`), and an edit closes nothing
  (`SameFoldsStayOpen`). The two hard cases are
  edits that make a ciphertext disappear or another one appear, so that the numbers of the regions change
  (`RefreshedIs`), and those in a plaintext, which replace a ciphertext of the
  document (`RegionFolds`).
- `TypeCorrect`: each row stands for a node, of the document or of a region.

Only model-checked: `ProgressEnds` and `ChangesAreNoticed`, since liveness under fairness
is beyond the prover. `Ber`, `Containers`, `Specs`, `Document`
and `Forms` are written with RECURSIVE operators, as the code is, which are out of the
prover's reach, and the properties of `Document` and the forms with them.

## 5. Disagreements without a run of their own

Each of these is stated as a property of its module and has a configuration beside it;
`tlc -config X.cfg M` finds the violation in seconds to a minute. The configurations
whose name ends in Doubts hold several such properties: `tlc -continue` reports all.

| Configuration | Property and code | What the repository says of itself |
|---|---|---|
| `SessionDoubts` (MCSession) | `NoDiscardWithoutConfirmation`: `app.rs:4735` `open_empty_document` replaces roots, path and dirty without looking at dirty; neither `commit_new_der` (`app.rs:4709`) nor the menu bar asks. `DeletesTheElementAskedAbout`: `tui.rs:310` `delete_confirm` is reset only by the other keys of the document panes; Tab, the browser, the menu bar and 'q' leave it armed while it comes to stand for another element. `SearchKeyOpensField`: `tui.rs:304` after `/` in the browser the preview may open a file, which puts the mode back to Browse: the search field has lost the keyboard | `DESIGN.md:1497-1501`: "the same two-step unsaved-changes confirmation as `delete`"; `DESIGN.md:397-398`: "any other key disarms it", `app.rs:5862`; `DESIGN.md:1611` |
| `SessionOpen` (MCSession) | `OpensTheFileAskedAbout`: `browser.rs:129` asks for the selected path through rows that hold the indices from before the re-sort: a new file moves the selection, and a pending confirmation with it | `browser.rs:125-126`, `DESIGN.md:1480-1481` |
| `EditHistoryDoubts` (MCEditHistory) | `FreshIsNeverSelected`: `app.rs:495` an anchor equal to the cursor (Ctrl+A in an empty buffer) stays behind, and what is typed becomes the selection. `FreshMarksOnlyInsertions`: `app.rs:516` the marked range is not shifted when items are inserted before it. `UndoMarksWhatReappears`: `app.rs:553` an undo that does not lengthen the value marks nothing. `PasteTakesAll`: `app.rs:689` a text editor drops the control characters of what it pastes | `app.rs:369-371`, the test at `app.rs:8832`; `app.rs:368-369`, `508-509`; `app.rs:535-536`; `app.rs:5945-5946`: "A text editor takes the characters as they are" |
| `RekeyCrash` (MCRekey) | `OneMessagePerIndex`: `app.rs:6701` the final index is written after all signatures; a crash in between lets the next start reuse them | `app.rs:6702-6703`: "so a later session cannot reuse a one-time-signature index" |
| `RekeyCopy` (MCRekey) | `NeverBehindTheChosenFile`: `app.rs:4058-4066` the key is looked up by identity, so an older copy of the chosen file may be the one that signs | `DESIGN.md:1283-1284` |
| `RekeyCreate` (MCRekey) | `NeverOverwritesAFile`: `app.rs:4090`, `6670` the name is checked when the dialog is submitted and written later without looking | `DESIGN.md:1281-1282` |
| `BrowserDoubts` (MCBrowser) | `VanishedAreMarked`: `browser.rs:443-446` when a directory is gone its children keep their status. `WhatIsShownIsIndexed`: `app.rs:2800-2806` a folder unfolded after a change brings its statuses with it, and nothing is left to report. `RightGoesToAChild`: Right on an unfolded directory without visible children goes to the next sibling | `browser.rs:121-126`; `app.rs:2800`; `browser.rs:253-254` |
| `RevealPartial` (MCReveal) | `EditsWhatIsShown`: `app.rs:6300`, `6311` with a password that opens only some of the regions the region to write is found by its position among those shown, and another one is overwritten | `app.rs:2424`, `DESIGN.md:1019-1021` |
| `RelationsDoubts` (MCRelations) | `OnlyTheOpenDocumentIsLive`: `app.rs:2881-2905`, `4401` a document whose changes are discarded leaves them in the indexes. `UnmodifiedIsAsScanned`: `app.rs:4534` an unmodified document keeps the key entry of the last scan | `DESIGN.md:738-742`: "The *currently open file's own entry* in both is the one exception"; `app.rs:4523-4526` |
| `OutlineDoubts` (MCOutline) | `SearchAgrees`: `app.rs:2898` the rows are made before the document is identified, so a search that stands matches with the labels of the document before. `LeftClimbsEverywhere`: Left on a root of a decrypted message stays. `RegionsKeepTheirFolds`: `app.rs:6377` after an edit outside of a PKCS#12's regions these are all unfolded. `RowsShowWhatIsRevealed`: `app.rs:4317-4320`, `4352-4356` a wrong password, asked for again, hides what is revealed without making the rows again, so they go on showing it, with no node behind them, where a lock belongs | `app.rs:4788-4792`, `DESIGN.md:1680-1681`; `app.rs:5222`; `app.rs:6373-6376`; `DESIGN.md:931-932`, `943-944` |
| `DocumentDoubts` (MCDocument) | `EncodingParses`: an element inserted at the greatest depth that can still be parsed makes an encoding that cannot; the tree is then not that of the octets. `NeverDies`: `ber.rs:352` a length close to 2^64, in a file or in what is entered, ends the program. `UntouchedNeverChange`: `app.rs:5567`, `5543`, `5552` a text that does not decode and a number, truth value or date that is not in DER becomes another value when it is opened and applied as it stands; so does one that the raw editor opens empty. `RealsAreReals`: `app.rs:921` `nan`, `infinity` and what is too large for 64 bits are written as words. `TreeIsExactlyOfTheFile`: octets that happen to encode items are encoded anew, so the octet string the tree shows is not the one in the file | `app.rs:6243`: "Should be unreachable: our own encoder output always parses."; `ber.rs:286`: "length overflow", an error; `app.rs:903-904`: "can be applied back unchanged", of an INTEGER; `DESIGN.md:335`: "encoded as ISO 6093 NR3 (decimal)"; `DESIGN.md:284`: "bytes stored verbatim" |
| `DialogsDoubts` (MCDialogs) | `SubmitsASelectedKey`: `app.rs:1916` with the focus on the radio the first key that fits is used, unasked. `PathLenIsWritten`: `app.rs:2204` a path length that is negative, or too large for 32 bits, is shown as it is and written as 0. `UntouchedFormsChangeNothing`: `app.rs:3428` a form that is applied as it was opened drops what it does not know: unknown bits of a Key Usage, OIDs that do not decode, the order of the others | the message of `submit_pubkey`: "select an existing key that fits the chosen algorithm"; `app.rs:2199`: only "An empty field encodes as 0"; `DESIGN.md:1406-1407`, the editor shows "a checkbox per arbitrary OID already present" |

Met while modelling, and part of the model as the code has them, without a property of
their own: a document whose base64 text is well-formed BER by itself is read as raw
(`input.rs:50`); the tag `1F 00 00` is read and written in a form that cannot be read;
the octets inside an encapsulating string are normalised by an edit elsewhere; a BIT
STRING that becomes too short to look into loses its nested elements; `skip_value`
passes over one token, so `DEFAULT -1` fails a file (`spec.rs:353`); a character
outside of the basic plane is entered into a BMPString as two surrogates; a space never reaches the password of the public-key dialog.

## 6. Plan

Done: (1) `Session`, `EditHistory`, `UndoLog` with proofs; (2) `Rekey`, `Browser`;
(3) `Reveal` and `Vault`; (4) `Relations`; (5) `Ber`, `Containers`, `Specs`, composed in
`Document`; (6) `Outline`; (7) `Forms`, `KeyDialog`,
composed in `Dialogs`; (8) `RekeyProofs`, `KeyDialogProofs`; (9)
`BrowserProofs`, `RevealProofs`, `RelationsProofs`, the indices of the dialog, the types
of `Rekey` and `Relations`; (10) `OutlineProofs`.

Theorems to come: those of the models to come. Every safety property of the modules
without RECURSIVE operators that a run expects to hold is stated by a theorem.

Models to come: the composition of `Session` with `Browser` (the list of files replaced
by the tree, so that preview, open and refresh meet folding and searching); the type
picker's cursor and the date editor's; the tokenizer of `spec.rs`.

## 7. What is not modelled, and why

- Drawing (`tui.rs` beyond the handlers), `dump.rs`, `version.rs`, `hashsig.rs`,
  `cost.rs`: output computed from state that others keep; nothing is read back from it.
- Key generation, signature schemes, key derivation, ciphers: calls into OpenSSL and
  Botan. `Rekey`, `Reveal` and `Relations` use them as steps or functions that succeed
  or fail.
- The tokenizer of `spec.rs`: it splits text; the parser over tokens is in `Specs`. The
  OID table of `oid.rs` is a constant.
- Botan's second opinion on a path (`pathval_botan.rs`): computed from the same inputs,
  and only shown.
- The clipboard programs: one register in `EditHistory`.
- Offsets and lengths kept in nodes for the display, and what the display makes of a
  value: a REAL is edited (`Document`), but not shown as a number.
