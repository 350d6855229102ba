------------------------------- MODULE Session -------------------------------
(***************************************************************************)
(* The interactive session: the event loop of src/tui.rs together with the *)
(* document life cycle of src/app.rs - opening, previewing, editing,       *)
(* saving, creating and discarding a document - and the three two-step     *)
(* confirmations (quit, open, delete) that stand between a key press and   *)
(* the loss of unsaved work.                                               *)
(*                                                                         *)
(* Abstractions.  A document is a flat forest: a sequence of distinct      *)
(* elements.  A path is its rank in the browser's alphabetical order, and  *)
(* the pane lists one directory (module Browser has the tree, and what a   *)
(* search leaves of it).  The search string is the set of elements it      *)
(* matches.  The editors, pickers and forms are one "Dialog" that is       *)
(* cancelled or applied; the re-sign and re-key dialogs are one "Crypto".  *)
(***************************************************************************)
EXTENDS Naturals, FiniteSets, Sequences, SequencesExt

CONSTANTS Paths,        \* file paths, as ranks in the browser's sort order
          Elems,        \* ASN.1 elements
          Filters,      \* the sets of elements a typed search string matches
          NoPath, NoElem, NoFilter, Absent, Junk,
          StartedWith,  \* what it may be started with: "directory", "file"
          Startup,      \* what is on disk when the program starts
          Argument,     \* the file argument (single-file mode)
          OutArgument,  \* its -o argument, or the same path
          MaxExternal,  \* bound: writes by other programs
          MaxLen        \* bound: elements of a document

Content == {s \in BoundedSeq(Elems, MaxLen) : IsInjective(s)}
OnDisk == Content \cup {Absent, Junk}

ASSUME PathsAssumption == Paths \subseteq Nat /\ NoPath \notin Paths
ASSUME StartupAssumption ==
  /\ Startup \in [Paths -> OnDisk]
  /\ StartedWith \subseteq {"directory", "file"}
  /\ "file" \in StartedWith =>
       Argument \in Paths /\ OutArgument \in Paths /\ Startup[Argument] \in Content
ASSUME BoundsAssumption == MaxExternal \in Nat /\ MaxLen \in Nat
ASSUME MarkersAssumption ==
  /\ NoElem \notin Elems
  /\ NoFilter \notin Filters
  /\ Absent \notin Content
  /\ Junk \notin Content

VARIABLES
  singleFile,     \* started with a file argument instead of a directory
  disk,           \* what each path holds
  external,       \* how many writes other programs have made
  running, mode, focus,
  path, outPath, roots, selected, dirty,
  filter, filterGlobal,
  entries, bsel,
  quitConfirm, openConfirm, deleteConfirm,
  persisted,      \* history: the read or write that last matched document and disk
  warned          \* history: what the user has been warned of since the last edit

document == <<path, outPath, roots, selected, dirty, persisted>>
searching == <<filter, filterGlobal>>
browser == <<entries, bsel>>
confirms == <<quitConfirm, openConfirm, deleteConfirm>>
world == <<disk, external>>
vars == <<singleFile, world, running, mode, focus, document, searching, browser, confirms, warned>>

Modes == {"Browse", "MenuBar", "NewFile", "Popup", "Dialog", "Password",
          "Crypto", "Filter", "Progress"}

fileOpen == path # NoPath

TypeOK ==
  /\ singleFile \in BOOLEAN
  /\ disk \in [Paths -> OnDisk]
  /\ external \in 0 .. MaxExternal
  /\ running \in BOOLEAN
  /\ mode \in Modes
  /\ focus \in {"Browser", "Document"}
  /\ path \in Paths \cup {NoPath}
  /\ outPath \in Paths \cup {NoPath}
  /\ roots \in Content
  /\ selected \in Nat
  /\ dirty \in BOOLEAN
  /\ persisted \in [at : Paths \cup {NoPath}, what : Content]
  /\ filter \in Filters \cup {NoFilter}
  /\ filterGlobal \in BOOLEAN
  /\ entries \subseteq Paths
  /\ bsel \in Paths \cup {NoPath}
  /\ quitConfirm \in BOOLEAN
  /\ openConfirm \in BOOLEAN
  /\ deleteConfirm \in BOOLEAN
  /\ warned \in [quit : BOOLEAN, open : Paths \cup {NoPath}, delete : Elems \cup {NoElem}]

-----------------------------------------------------------------------------
(* Both panes are indexed by row: the selection is the number of rows      *)
(* above it.                                                               *)
rank(r, S) == Cardinality({q \in S : q < r})
hasRow(S, i) == \E r \in S : rank(r, S) = i
nth(S, i) == CHOOSE r \in S : rank(r, S) = i
clamp(i, S) == IF i < Cardinality(S) THEN i ELSE IF S = {} THEN 0 ELSE Cardinality(S) - 1

(* The structure pane has a row for every element the filter shows, and    *)
(* one placeholder for each run of elements it hides, standing at the      *)
(* first of them.                                                          *)
shown(e, f) == f # NoFilter => e \in f
rowsOf(forest, f) ==
  {k \in DOMAIN forest : shown(forest[k], f) \/ k = 1 \/ shown(forest[k - 1], f)}

rows == rowsOf(roots, filter)
selectedRow == nth(rows, selected)
editable == hasRow(rows, selected) /\ shown(roots[selectedRow], filter)

(* The browser pane has a row for every entry.                             *)
entryAt(S, i) == IF hasRow(S, i) THEN nth(S, i) ELSE NoPath
browserRow == IF bsel = NoPath THEN 0 ELSE rank(bsel, entries)

-----------------------------------------------------------------------------
(* App::open_file, for a file that can be read and parsed.                 *)
readable(p) == p # NoPath /\ disk[p] \in Content

OpenFile(p) ==
  /\ path' = p
  /\ outPath' = p
  /\ roots' = disk[p]
  /\ selected' = 0
  /\ mode' = "Browse"
  /\ dirty' = FALSE
  /\ quitConfirm' = FALSE
  /\ deleteConfirm' = FALSE
  /\ persisted' = [at |-> p, what |-> disk[p]]

(* App::write_current: forest to outPath.  A failed write may have         *)
(* truncated the file; the document stays as dirty as d says.              *)
WriteCurrent(forest, d) ==
  \/ /\ disk' = [disk EXCEPT ![outPath] = forest]
     /\ persisted' = [at |-> outPath, what |-> forest]
     /\ dirty' = FALSE
  \/ /\ disk' \in {disk, [disk EXCEPT ![outPath] = Junk]}
     /\ dirty' = d
     /\ UNCHANGED persisted

Save ==
  \/ ~fileOpen /\ UNCHANGED <<world, document>>
  \/ /\ fileOpen
     /\ WriteCurrent(roots, dirty)
     /\ UNCHANGED <<external, path, outPath, roots, selected>>

(* App::refresh_filesystem.  The browser adds the files that appeared and  *)
(* re-sorts before it asks which entry is selected, so it is the entry now *)
(* at the old index that stays selected.                                   *)
refreshedEntries(d) ==
  IF singleFile THEN entries ELSE entries \cup {p \in Paths : d[p] # Absent}
refreshedSelection(d) == entryAt(refreshedEntries(d), browserRow)

-----------------------------------------------------------------------------
(* The browser pane.  Every key there but Enter and Space disarms the open *)
(* confirmation, and the file then highlighted is previewed.               *)
browserKey == mode = "Browse" /\ focus = "Browser"

previewable(p) == readable(p) /\ ~(fileOpen /\ (path = p \/ dirty))

PreviewBrowserSelection(p, otherMode) ==
  IF previewable(p) THEN OpenFile(p)
  ELSE /\ mode' = otherMode
       /\ quitConfirm' = FALSE
       /\ UNCHANGED <<document, deleteConfirm>>

MoveBrowser ==
  /\ browserKey
  /\ \E p \in entries : bsel' = p /\ PreviewBrowserSelection(p, "Browse")
  /\ openConfirm' = FALSE
  /\ UNCHANGED <<world, running, focus, searching, entries>>

ActivateBrowserEntry ==
  /\ browserKey
  /\ bsel # NoPath
  /\ \/ /\ fileOpen /\ path = bsel
        /\ openConfirm' = FALSE
        /\ focus' = "Document"
        /\ quitConfirm' = FALSE
        /\ UNCHANGED <<mode, document, deleteConfirm>>
     \/ /\ fileOpen /\ path # bsel /\ dirty /\ ~openConfirm
        /\ openConfirm' = TRUE
        /\ quitConfirm' = FALSE
        /\ UNCHANGED <<mode, focus, document, deleteConfirm>>
     \/ /\ ~(fileOpen /\ (path = bsel \/ (dirty /\ ~openConfirm)))
        /\ openConfirm' = FALSE
        /\ IF readable(bsel) THEN OpenFile(bsel) /\ focus' = "Document"
           ELSE quitConfirm' = FALSE /\ UNCHANGED <<mode, focus, document, deleteConfirm>>
  /\ UNCHANGED <<world, running, searching, browser>>

StartBrowserSearch ==
  /\ browserKey
  /\ filterGlobal' = TRUE
  /\ PreviewBrowserSelection(bsel, "Filter")
  /\ openConfirm' = FALSE
  /\ UNCHANGED <<world, running, focus, filter, browser>>

\* 'z', 't' and the keys that do nothing; the keys that scroll the content,
\* '[', ']', '{' and '}', return before the preview.
OtherBrowserKey ==
  /\ browserKey
  /\ \/ \E m \in (IF fileOpen THEN {"Browse", "Password", "Crypto"} ELSE {"Browse"}) :
          PreviewBrowserSelection(bsel, m)
     \/ quitConfirm' = FALSE /\ UNCHANGED <<mode, document, deleteConfirm>>
  /\ openConfirm' = FALSE
  /\ UNCHANGED <<world, running, focus, searching, browser>>

\* Mutant of ToggleFocus: the open confirmation stays armed behind the other pane.
ToggleFocusStaysArmed ==
  /\ mode = "Browse"
  /\ quitConfirm' = FALSE
  /\ focus' = IF singleFile \/ focus = "Browser" THEN "Document" ELSE "Browser"
  /\ UNCHANGED <<world, running, mode, document, searching, browser, openConfirm, deleteConfirm>>

ToggleFocus ==
  /\ mode = "Browse"
  /\ quitConfirm' = FALSE
  /\ IF singleFile THEN UNCHANGED <<focus, openConfirm>>
     ELSE /\ focus' = IF focus = "Browser" THEN "Document" ELSE "Browser"
          /\ openConfirm' = FALSE
  /\ UNCHANGED <<world, running, mode, document, searching, browser, deleteConfirm>>

Quit ==
  /\ mode = "Browse"
  /\ IF ~dirty \/ quitConfirm THEN running' = FALSE /\ UNCHANGED quitConfirm
     ELSE quitConfirm' = TRUE /\ UNCHANGED running
  /\ UNCHANGED <<world, mode, focus, document, searching, browser, openConfirm, deleteConfirm>>

-----------------------------------------------------------------------------
(* The document panes.  Every key there but 'd' disarms the delete         *)
(* confirmation.                                                           *)
\* Mutant of documentKey: an editing key leaves the quit confirmation armed.
documentKeyStaysArmed == mode = "Browse" /\ focus = "Document" /\ UNCHANGED quitConfirm

documentKey == mode = "Browse" /\ focus = "Document" /\ quitConfirm' = FALSE

MoveSelection ==
  /\ documentKey
  /\ selected' \in {rank(r, rows) : r \in rows} \cup {selected}
  /\ deleteConfirm' = FALSE
  /\ UNCHANGED <<world, running, mode, focus, path, outPath, roots, dirty, persisted,
                 searching, browser, openConfirm>>

DeleteSelected ==
  /\ documentKey
  /\ deleteConfirm' = IF editable THEN ~deleteConfirm ELSE deleteConfirm
  /\ IF editable /\ deleteConfirm
     THEN /\ roots' = RemoveAt(roots, selectedRow)
          /\ selected' = clamp(selected, rowsOf(roots', filter))
          /\ dirty' = TRUE
     ELSE UNCHANGED <<roots, selected, dirty>>
  /\ UNCHANGED <<world, running, mode, focus, path, outPath, persisted, searching, browser, openConfirm>>

MoveSelected ==
  /\ documentKey
  /\ editable
  /\ \E j \in {selectedRow - 1, selectedRow + 1} \cap DOMAIN roots :
       /\ roots' = [roots EXCEPT ![selectedRow] = roots[j], ![j] = roots[selectedRow]]
       /\ selected' = rank(j, rowsOf(roots', filter))
  /\ dirty' = TRUE
  /\ deleteConfirm' = FALSE
  /\ UNCHANGED <<world, running, mode, focus, path, outPath, persisted, searching, browser, openConfirm>>

\* 'e', 'E', 'i', 'I', 'z' and '/': a dialog takes over.
OpenDialog ==
  /\ documentKey
  /\ fileOpen
  /\ mode' \in (IF editable \/ roots = <<>> THEN {"Dialog"} ELSE {}) \cup {"Password"}
               \cup (IF singleFile THEN {} ELSE {"Crypto"})
  /\ deleteConfirm' = FALSE
  /\ UNCHANGED <<world, running, focus, document, searching, browser, openConfirm>>

StartFilter ==
  /\ documentKey
  /\ fileOpen
  /\ mode' = "Filter"
  /\ filterGlobal' = FALSE
  /\ deleteConfirm' = FALSE
  /\ UNCHANGED <<world, running, focus, document, filter, browser, openConfirm>>

SaveKey ==
  /\ documentKey
  /\ Save
  /\ deleteConfirm' = FALSE
  /\ UNCHANGED <<running, mode, focus, searching, browser, openConfirm>>

-----------------------------------------------------------------------------
(* The dialogs.                                                            *)
Cancel ==
  /\ mode \in {"Dialog", "Password", "Crypto", "NewFile", "Popup"}
  /\ mode' = "Browse"
  /\ UNCHANGED <<world, running, focus, document, searching, browser, confirms>>

CommitEdit ==
  /\ mode = "Dialog"
  /\ editable
  /\ \E e \in Elems \ Range(roots) :
       roots' = [roots EXCEPT ![selectedRow] = e]
  /\ selected' = clamp(selected, rowsOf(roots', filter))
  /\ dirty' = TRUE
  /\ mode' = "Browse"
  /\ UNCHANGED <<world, running, focus, path, outPath, persisted, searching, browser, confirms>>

CommitInsert ==
  /\ mode = "Dialog"
  /\ Len(roots) < MaxLen
  /\ \E e \in Elems \ Range(roots) :
       \/ roots = <<>> /\ roots' = <<e>> /\ selected' = 0
       \/ /\ editable
          /\ roots' = InsertAt(roots, selectedRow + 1, e)
          /\ selected' = rank(selectedRow + 1, rowsOf(roots', filter))
  /\ dirty' = TRUE
  /\ mode' = "Browse"
  /\ UNCHANGED <<world, running, focus, path, outPath, persisted, searching, browser, confirms>>

(* Re-signing, or re-keying with a fast algorithm, replaces a part of the  *)
(* document and saves it; a slow algorithm first shows a progress window.  *)
Resigned ==
  /\ \E k \in DOMAIN roots, e \in Elems \ Range(roots) : roots' = [roots EXCEPT ![k] = e]
  /\ WriteCurrent(roots', TRUE)
  /\ selected' = clamp(selected, rowsOf(roots', filter))
  /\ mode' = "Browse"
  /\ UNCHANGED <<external, running, focus, path, outPath, searching, browser, confirms>>

SubmitResign == mode = "Crypto" /\ Resigned

SpawnRekey ==
  /\ mode = "Crypto"
  /\ mode' = "Progress"
  /\ UNCHANGED <<world, running, focus, document, searching, browser, confirms>>

PollRekeyProgress ==
  /\ mode = "Progress"
  /\ \/ Resigned
     \/ mode' = "Browse" /\ UNCHANGED <<world, running, focus, document, searching, browser, confirms>>

\* Mutant of FilterType: the rows are made again, the selection is left where it was.
FilterTypeUnclamped ==
  /\ mode = "Filter"
  /\ filter' \in Filters \cup {NoFilter}
  /\ UNCHANGED <<world, running, mode, focus, document, filterGlobal, browser, confirms>>

FilterType ==
  /\ mode = "Filter"
  /\ filter' \in Filters \cup {NoFilter}
  /\ selected' = clamp(selected, rowsOf(roots, filter'))
  /\ UNCHANGED <<world, running, mode, focus, path, outPath, roots, dirty, persisted,
                 filterGlobal, browser, confirms>>

FilterAccept ==
  /\ mode = "Filter"
  /\ mode' = "Browse"
  /\ focus' = IF filterGlobal THEN "Browser" ELSE "Document"
  /\ UNCHANGED <<world, running, document, searching, browser, confirms>>

FilterClear ==
  /\ mode = "Filter"
  /\ mode' = "Browse"
  /\ filter' = NoFilter
  /\ filterGlobal' = FALSE
  /\ selected' = clamp(selected, DOMAIN roots)
  /\ UNCHANGED <<world, running, focus, path, outPath, roots, dirty, persisted, browser, confirms>>

-----------------------------------------------------------------------------
(* The menu bar, whose toggle key is handled before the confirmations are  *)
(* looked at.                                                              *)
ToggleMenuBar ==
  /\ mode \in {"Browse", "MenuBar"}
  /\ mode' = IF mode = "Browse" THEN "MenuBar" ELSE "Browse"
  /\ UNCHANGED <<world, running, focus, document, searching, browser, confirms>>

ActivateMenuEntry ==
  /\ mode = "MenuBar"
  /\ \/ mode' = "Browse" /\ Save
     \/ mode' \in {"NewFile", "Popup"} /\ UNCHANGED <<world, document>>
  /\ UNCHANGED <<running, focus, searching, browser, confirms>>

\* Mutant of CommitNewDer: the output path of the previous document is kept.
CommitNewDerKeepsOutput ==
  /\ mode = "NewFile"
  /\ \E p \in Paths :
       /\ disk[p] = Absent
       /\ disk' = [disk EXCEPT ![p] = <<>>]
       /\ path' = p
       /\ outPath' = outPath
       /\ persisted' = [at |-> p, what |-> <<>>]
       /\ entries' = refreshedEntries(disk')
       /\ bsel' = IF p \in entries' THEN p ELSE bsel
  /\ roots' = <<>>
  /\ selected' = 0
  /\ dirty' = FALSE
  /\ quitConfirm' = FALSE
  /\ deleteConfirm' = FALSE
  /\ mode' = "Browse"
  /\ focus' = "Document"
  /\ UNCHANGED <<external, running, filter, filterGlobal, openConfirm>>

(* App::commit_new_der: the file is created at once, and the empty         *)
(* document replaces the one that was open.                                *)
CommitNewDer ==
  /\ mode = "NewFile"
  /\ \E p \in Paths :
       /\ disk[p] = Absent
       /\ disk' = [disk EXCEPT ![p] = <<>>]
       /\ path' = p
       /\ outPath' = p
       /\ persisted' = [at |-> p, what |-> <<>>]
       /\ entries' = refreshedEntries(disk')
       /\ bsel' = IF p \in entries' THEN p ELSE bsel
  /\ roots' = <<>>
  /\ selected' = 0
  /\ dirty' = FALSE
  /\ quitConfirm' = FALSE
  /\ deleteConfirm' = FALSE
  /\ mode' = "Browse"
  /\ focus' = "Document"
  /\ UNCHANGED <<external, running, filter, filterGlobal, openConfirm>>

-----------------------------------------------------------------------------
(* What happens without a key press.                                       *)
PollFilesystem ==
  /\ mode # "Progress"
  /\ ~singleFile
  /\ entries' = refreshedEntries(disk)
  /\ bsel' = refreshedSelection(disk)
  /\ UNCHANGED <<world, running, mode, focus, document, filter, filterGlobal, confirms>>

External ==
  /\ external < MaxExternal
  /\ external' = external + 1
  /\ \E p \in Paths, c \in OnDisk : c # disk[p] /\ disk' = [disk EXCEPT ![p] = c]
  /\ UNCHANGED <<running, mode, focus, document, searching, browser, confirms>>

-----------------------------------------------------------------------------
Init ==
  /\ \E what \in StartedWith : singleFile = (what = "file")
  /\ disk = Startup
  /\ external = 0
  /\ running = TRUE
  /\ mode \in {"Browse", "Popup"}   \* a popup when a specification failed to load
  /\ focus = IF singleFile THEN "Document" ELSE "Browser"
  /\ path = IF singleFile THEN Argument ELSE NoPath
  /\ outPath = IF singleFile THEN OutArgument ELSE NoPath
  /\ roots = IF singleFile THEN Startup[Argument] ELSE <<>>
  /\ selected = 0
  /\ dirty = FALSE
  /\ filter = NoFilter
  /\ filterGlobal = FALSE
  /\ entries = IF singleFile THEN {} ELSE {p \in Paths : disk[p] # Absent}
  /\ bsel = entryAt(entries, 0)
  /\ quitConfirm = FALSE
  /\ openConfirm = FALSE
  /\ deleteConfirm = FALSE
  /\ persisted = [at |-> path, what |-> roots]
  /\ warned = [quit |-> FALSE, open |-> NoPath, delete |-> NoElem]

\* The history variable warned: a warning counts until the document changes.
Remember ==
  LET fresh(w, none) == IF roots' # roots \/ path' # path THEN none ELSE w
  IN warned' = [quit   |-> IF quitConfirm' /\ ~quitConfirm THEN TRUE
                           ELSE fresh(warned.quit, FALSE),
                open   |-> IF openConfirm' /\ ~openConfirm THEN bsel
                           ELSE fresh(warned.open, NoPath),
                delete |-> IF deleteConfirm' /\ ~deleteConfirm THEN roots[selectedRow]
                           ELSE fresh(warned.delete, NoElem)]

Step(action) == running /\ action /\ Remember /\ UNCHANGED singleFile

BrowserStep == \/ Step(MoveBrowser)
               \/ Step(ActivateBrowserEntry)
               \/ Step(StartBrowserSearch)
               \/ Step(OtherBrowserKey)

DocumentStep == \/ Step(MoveSelection)
                \/ Step(DeleteSelected)
                \/ Step(MoveSelected)
                \/ Step(OpenDialog)
                \/ Step(StartFilter)
                \/ Step(SaveKey)

DialogStep == \/ Step(Cancel)
              \/ Step(CommitEdit)
              \/ Step(CommitInsert)
              \/ Step(SubmitResign)
              \/ Step(SpawnRekey)
              \/ Step(PollRekeyProgress)
              \/ Step(CommitNewDer)
              \/ Step(FilterType)
              \/ Step(FilterAccept)
              \/ Step(FilterClear)

Next ==
  \/ BrowserStep
  \/ DocumentStep
  \/ DialogStep
  \/ Step(ToggleFocus)
  \/ Step(Quit)
  \/ Step(ToggleMenuBar)
  \/ Step(ActivateMenuEntry)
  \/ Step(PollFilesystem)
  \/ Step(External)
  \/ ~running /\ UNCHANGED vars   \* the program has quit

Spec == Init /\ [][Next]_vars

-----------------------------------------------------------------------------
(* Properties.                                                             *)

(* A document that is not marked as modified (App::dirty, the only thing   *)
(* the confirmations look at) is exactly what was last read from, or       *)
(* completely written to, the file that 's' would write.  With -o the file *)
(* first read is the argument rather than the output.                      *)
CleanMeansPersisted ==
  fileOpen /\ ~dirty =>
    /\ roots = persisted.what
    /\ persisted.at = outPath \/ (path = Argument /\ persisted.at = path)

(* Opening another file from the browser throws unsaved changes away only  *)
(* if the user has been warned of it since the last of these changes: the  *)
(* armed confirmation never outlives the state it was given for            *)
(* (activate_browser_entry, and the resets in toggle_focus and             *)
(* handle_browser_key it relies on).                                       *)
SwitchDiscardsOnlyAfterWarning ==
  [][dirty /\ mode # "NewFile" /\ path' # path => warned.open # NoPath]_vars

(* Quitting throws unsaved changes away only if the user has been warned   *)
(* of it since the last of these changes (tui::event_loop's quit_confirm). *)
QuitDiscardsOnlyAfterWarning ==
  [][dirty /\ running /\ ~running' => warned.quit]_vars

(* The selection of the structure pane is a row of it, or nothing where it *)
(* has none, after every edit, deletion, reload and change of the filter,  *)
(* typed for this document or left from the one before (rebuild_rows, and  *)
(* what its callers do with the selection).                                *)
SelectionIsARow == hasRow(rows, selected) \/ (rows = {} /\ selected = 0)

(* Replacing the open document, by whichever key or menu entry, asks       *)
(* before unsaved changes are lost.                                        *)
NoDiscardWithoutConfirmation ==
  [][dirty /\ path' # path => warned.open # NoPath]_vars

(* The element that is deleted is the one the confirmation named.          *)
DeletesTheElementAskedAbout ==
  [][path' = path /\ Len(roots') < Len(roots)
       => Range(roots) \ Range(roots') = {warned.delete}]_vars

(* The file that unsaved changes are discarded for is the one the          *)
(* confirmation named.                                                     *)
OpensTheFileAskedAbout ==
  [][dirty /\ mode # "NewFile" /\ path' # path => path' = warned.open]_vars

(* '/' in the browser gives the search field the keyboard.                 *)
SearchKeyOpensField == [][StartBrowserSearch => mode' = "Filter"]_vars

=============================================================================
