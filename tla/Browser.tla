------------------------------ MODULE Browser ------------------------------
(***************************************************************************)
(* The file browser (src/src/browser.rs): the part of the directory tree   *)
(* that was read so far, the rows that show it, the selected row, and the  *)
(* timed reconciliation with a disk that other programs change, together   *)
(* with the indexes App::refresh_filesystem rebuilds (src/src/app.rs).     *)
(*                                                                         *)
(* A path is a number; numbers order the names of siblings.  Every change  *)
(* on disk has a time of its own, later than all before.                   *)
(***************************************************************************)
EXTENDS Integers, FiniteSets, Sequences, SequencesExt

CONSTANTS
    Paths,      \* what can exist below the browsed directory
    Parent,     \* the directory of each path, Root at the top
    Folders,    \* the paths that can be directories
    Files,      \* the paths that can be files
    MaxTime     \* bound: the clock after the last change on disk

Root == 0

ASSUME TreeIsSound ==
    /\ Paths \subseteq Nat \ {Root} /\ IsFiniteSet(Paths)
    /\ Parent \in [Paths -> Paths \cup {Root}]
    /\ \A p \in Paths : Parent[p] < p
    /\ Folders \cup Files = Paths
    /\ MaxTime \in Nat \ {0}

VARIABLES
    disk,       \* what exists, of which kind, last changed when
    clock,
    initial,    \* the disk at startup, whose times are the baseline
    tree,       \* the entry of each path that was read
    rows,       \* FileBrowser.rows: index paths from the top (0-based)
    selected,   \* 0-based
    filter,     \* the files a search left over, or Everything
    search,     \* the files of the search index, or NoSearch
    scanned     \* the disk as the indexes of App know it

browser == <<tree, rows, selected, filter>>
vars == <<disk, clock, initial, browser, search, scanned>>

Absent == [isDir |-> FALSE, mtime |-> 0]
Unlisted == [status |-> "Unlisted", changedAt |-> 0, isDir |-> FALSE,
             expanded |-> FALSE, loaded |-> FALSE]
Everything == {Root}
NoSearch == {Root}

-----------------------------------------------------------------------------
(* Paths and index paths. *)

\* From the top down to the path.
descent[p \in Paths] ==
    IF Parent[p] = Root THEN <<p>> ELSE Append(descent[Parent[p]], p)

chain == [p \in Paths |-> descent[p]]
above == [p \in Paths |-> ToSet(Front(descent[p]))]
within(p, folder) == p = folder \/ folder \in above[p]

listed(t, p) == t[p].status # "Unlisted"

\* sort_entries: directories first, then by name.
sortsBefore(t, p, q) ==
    IF t[p].isDir = t[q].isDir THEN p < q ELSE t[p].isDir

place(t, p) ==
    Cardinality({q \in Paths : /\ listed(t, q) /\ Parent[q] = Parent[p]
                               /\ sortsBefore(t, q, p)})

indexPath(t, p) == [i \in 1..Len(chain[p]) |-> place(t, chain[p][i])]

\* entry_at: the path of the entry, Root if there is none.
entryAt(t, indices) ==
    LET hits == {p \in Paths : listed(t, p) /\ indexPath(t, p) = indices}
    IN  IF hits = {} THEN Root ELSE CHOOSE p \in hits : TRUE

-----------------------------------------------------------------------------
(* Rows. *)

passes(t, f, p) ==
    \/ f = Everything
    \/ IF t[p].isDir THEN \E file \in f : within(file, p) ELSE p \in f

visible(t, f, p) ==
    /\ listed(t, p) /\ passes(t, f, p)
    /\ \A a \in above[p] : t[a].isDir /\ t[a].expanded /\ passes(t, f, a)

\* Depth first: a directory before its children, those in order.
comesBefore(a, b) ==
    \/ IsStrictPrefix(a, b)
    \/ \E i \in 1..Len(a) : /\ i <= Len(b) /\ a[i] < b[i]
                            /\ \A j \in 1..(i - 1) : a[j] = b[j]

collectRows(t, f) ==
    LET shown == {p \in Paths : visible(t, f, p)}
        at == [p \in shown |-> indexPath(t, p)]
        rank == [p \in shown |-> Cardinality({q \in shown : comesBefore(at[q], at[p])})]
    IN  [i \in 1..Cardinality(shown) |->
            at[CHOOSE p \in shown : rank[p] = i - 1]]

clamp(i, n) == IF n = 0 THEN 0 ELSE IF i >= n THEN n - 1 ELSE i

rowAt(t, r, i) == IF i < Len(r) THEN entryAt(t, r[i + 1]) ELSE Root

selectedEntry == rowAt(tree, rows, selected)

\* rebuild_rows, then select_path: keep to the entry if it has a row.
follow(t, r, entry, i) ==
    LET here == {k \in 0..(Len(r) - 1) : r[k + 1] = indexPath(t, entry)}
    IN  IF entry = Root \/ here = {} THEN clamp(i, Len(r)) ELSE CHOOSE k \in here : TRUE

RebuildRows ==
    /\ rows' = collectRows(tree', filter)
    /\ selected' = clamp(selected, Len(rows'))

-----------------------------------------------------------------------------
(* Reading the disk. *)

exists(p) == disk[p] # Absent
files == {p \in Paths : exists(p) /\ ~disk[p].isDir}

classify(p) ==
    IF initial[p] = Absent THEN [status |-> "New", changedAt |-> disk[p].mtime]
    ELSE IF disk[p].mtime > initial[p].mtime
         THEN [status |-> "Modified", changedAt |-> disk[p].mtime]
         ELSE [status |-> "Unchanged", changedAt |-> 0]

\* Mutant of retag: what is deleted stays so.
retagStaysDeleted(p, entry) ==
    IF entry.status = "Deleted" THEN [entry EXCEPT !.isDir = disk[p].isDir]
    ELSE [entry EXCEPT !.status = classify(p).status, !.changedAt = classify(p).changedAt,
                       !.isDir = disk[p].isDir]

\* What was known of an entry, brought up to date.
retag(p, entry) ==
    [entry EXCEPT !.status = classify(p).status, !.changedAt = classify(p).changedAt,
                  !.isDir = disk[p].isDir]

\* load_children: the first time only.  A directory that is gone has none.
loadChildren(t, folder) ==
    IF t[folder].loaded THEN t
    ELSE [p \in Paths |->
            IF p = folder THEN [t[p] EXCEPT !.loaded = TRUE]
            ELSE IF Parent[p] = folder /\ exists(p) THEN retag(p, Unlisted)
            ELSE t[p]]

\* refresh_dir descends into the directories on disk whose entry is loaded.
reached(t, p) == \A a \in above[p] : disk[a].isDir /\ t[a].loaded

refreshed(t) ==
    [p \in Paths |->
        IF ~reached(t, p) THEN t[p]
        ELSE IF exists(p) THEN retag(p, t[p])
        ELSE IF listed(t, p) THEN [t[p] EXCEPT !.status = "Deleted", !.changedAt = 0]
        ELSE t[p]]

\* Mutant of differs: only what was known is compared.
differsForListed(t, u) ==
    \E p \in Paths : /\ listed(t, p)
                     /\ <<t[p].status, t[p].changedAt>> # <<u[p].status, u[p].changedAt>>

\* Mutant of differs: a second change of a file is none.
differsInStatus(t, u) == \E p \in Paths : t[p].status # u[p].status

\* What refresh reports: a change of kind alone is not one.
differs(t, u) ==
    \E p \in Paths : <<t[p].status, t[p].changedAt>> # <<u[p].status, u[p].changedAt>>

-----------------------------------------------------------------------------
(* The timer. *)

\* FileBrowser::refresh, and the indexes that follow it.  The selected path
\* is looked up with the old rows in the new entries.  A search narrows the
\* rows once more, to what it finds in the new index.
Refresh ==
    /\ tree' = refreshed(tree)
    /\ IF ~differs(tree, tree')
       THEN UNCHANGED <<rows, selected, filter, search, scanned>>
       ELSE LET r == collectRows(tree', filter)
                i == follow(tree', r, rowAt(tree', rows, selected), selected)
            IN  /\ scanned' = disk
                /\ search' = IF search = NoSearch THEN NoSearch ELSE files
                /\ \/ /\ filter = Everything
                      /\ rows' = r /\ selected' = i
                      /\ UNCHANGED filter
                   \/ /\ filter # Everything
                      /\ filter' \in SUBSET files
                      /\ rows' = collectRows(tree', filter')
                      /\ selected' = follow(tree', rows', rowAt(tree', r, i), i)
    /\ UNCHANGED <<disk, clock, initial>>

(* The keys. *)

Move(delta) ==
    /\ rows # <<>>
    /\ selected' = LET i == selected + delta
                   IN  IF i < 0 THEN 0 ELSE clamp(i, Len(rows))
    /\ UNCHANGED <<disk, clock, initial, tree, rows, filter, search, scanned>>

\* Enter or Space on a directory.
ToggleExpand ==
    LET p == selectedEntry
    IN  /\ p # Root /\ tree[p].isDir
        /\ tree' = IF tree[p].expanded THEN [tree EXCEPT ![p].expanded = FALSE]
                   ELSE [loadChildren(tree, p) EXCEPT ![p].expanded = TRUE]
        /\ RebuildRows
        /\ UNCHANGED <<disk, clock, initial, filter, search, scanned>>

CollapseOrParent ==
    LET p == selectedEntry
    IN  /\ p # Root
        /\ IF tree[p].isDir /\ tree[p].expanded
           THEN tree' = [tree EXCEPT ![p].expanded = FALSE] /\ RebuildRows
           ELSE /\ Parent[p] # Root
                /\ selected' = LET up == Front(rows[selected + 1])
                               IN  CHOOSE k \in 0..(Len(rows) - 1) : rows[k + 1] = up
                /\ UNCHANGED <<tree, rows>>
        /\ UNCHANGED <<disk, clock, initial, filter, search, scanned>>

ExpandOrChild ==
    LET p == selectedEntry
    IN  /\ p # Root /\ tree[p].isDir
        /\ IF ~tree[p].expanded
           THEN /\ tree' = [loadChildren(tree, p) EXCEPT ![p].expanded = TRUE]
                /\ RebuildRows
           ELSE /\ selected' = clamp(selected + 1, Len(rows))
                /\ UNCHANGED <<tree, rows>>
        /\ UNCHANGED <<disk, clock, initial, filter, search, scanned>>

\* Mutant of SetFilter: the row number is kept, not the entry.
SetFilterLosingPlace(f) ==
    /\ filter' = f
    /\ rows' = collectRows(tree, f)
    /\ selected' = clamp(selected, Len(rows'))
    /\ UNCHANGED tree

SetFilter(f) ==
    /\ filter' = f
    /\ rows' = collectRows(tree, f)
    /\ selected' = follow(tree, rows', selectedEntry, selected)
    /\ UNCHANGED tree

\* '/' reads the search index and applies what is still in the field.
StartBrowserSearch ==
    /\ search' = files
    /\ \E f \in {Everything} \cup SUBSET files : SetFilter(f)
    /\ UNCHANGED <<disk, clock, initial, scanned>>

\* Each change of the search field matches the index anew.
TypeInSearch ==
    /\ search # NoSearch
    /\ \E f \in {Everything} \cup SUBSET search : SetFilter(f)
    /\ UNCHANGED <<disk, clock, initial, search, scanned>>

ClearSearch ==
    /\ search # NoSearch
    /\ search' = NoSearch
    /\ SetFilter(Everything)
    /\ UNCHANGED <<disk, clock, initial, scanned>>

-----------------------------------------------------------------------------
(* Other programs. *)

\* A change in a directory is a change of the directory.
Change(p, as) ==
    /\ clock < MaxTime
    /\ clock' = clock + 1
    /\ disk' = [q \in Paths |-> IF within(q, p) THEN (IF q = p THEN as ELSE Absent)
                                ELSE IF q = Parent[p] /\ (as = Absent \/ ~exists(p))
                                THEN [disk[q] EXCEPT !.mtime = clock + 1]
                                ELSE disk[q]]
    /\ UNCHANGED <<initial, browser, search, scanned>>

Create(p) ==
    /\ ~exists(p) /\ (Parent[p] # Root => disk[Parent[p]].isDir)
    /\ \E isDir \in BOOLEAN :
          /\ p \in IF isDir THEN Folders ELSE Files
          /\ Change(p, [isDir |-> isDir, mtime |-> clock + 1])

Write(p) == p \in files /\ Change(p, [isDir |-> FALSE, mtime |-> clock + 1])

Delete(p) == exists(p) /\ Change(p, Absent)

-----------------------------------------------------------------------------
Disks == [Paths -> {Absent} \cup [isDir : BOOLEAN, mtime : 1..MaxTime]]

\* A legal directory tree, all of it of one age.
InitialDisks ==
    {d \in [Paths -> {Absent} \cup [isDir : BOOLEAN, mtime : {1}]] :
        \A p \in Paths : d[p] # Absent =>
            /\ p \in IF d[p].isDir THEN Folders ELSE Files
            /\ Parent[p] # Root => d[Parent[p]].isDir}

Init ==
    /\ disk \in InitialDisks /\ clock = 1
    /\ initial = disk /\ scanned = disk
    /\ tree = [p \in Paths |-> IF Parent[p] = Root /\ exists(p)
                               THEN retag(p, Unlisted) ELSE Unlisted]
    /\ filter = Everything /\ search = NoSearch
    /\ rows = collectRows(tree, Everything) /\ selected = 0

Key ==
    \/ \E delta \in {-15, -1, 1, 15} : Move(delta)
    \/ ToggleExpand \/ CollapseOrParent \/ ExpandOrChild
    \/ StartBrowserSearch \/ TypeInSearch \/ ClearSearch

Others == \E p \in Paths : Create(p) \/ Write(p) \/ Delete(p)

Next == Refresh \/ Key \/ Others

Spec == Init /\ [][Next]_vars

-----------------------------------------------------------------------------
Entries == [status : {"Unlisted", "Unchanged", "New", "Modified", "Deleted"},
            changedAt : 0..MaxTime, isDir : BOOLEAN, expanded : BOOLEAN,
            loaded : BOOLEAN]

(* Every variable keeps its type, and the selected row is one of the rows. *)
TypeOK ==
    /\ disk \in Disks /\ initial \in Disks /\ scanned \in Disks
    /\ clock \in 1..MaxTime
    /\ tree \in [Paths -> Entries]
    /\ rows \in Seq(Seq(Nat))
    /\ selected \in Nat /\ (selected # 0 => selected < Len(rows))
    /\ filter \in (SUBSET Files) \cup {Everything}
    /\ search \in (SUBSET Files) \cup {NoSearch}

(* The rows, which are index paths into the entries, always show the tree  *)
(* as it is: whatever a refresh inserts, re-sorts or retags, it has the    *)
(* rows built anew whenever they would point elsewhere.                    *)
RowsShowTheTree == rows = collectRows(tree, filter)

\* A refresh would report nothing: the last one saw the disk as it is.
settled == ~differs(tree, refreshed(tree))

(* One refresh takes in all it can see, so that the next, with the disk as *)
(* it was, reports nothing and the indexes are not read again (the test    *)
(* refresh_without_changes_reports_nothing).                               *)
RefreshSettles ==
    LET t == refreshed(tree) IN ~differs(t, refreshed(t))

(* When a refresh finds nothing, the status of each entry in a directory   *)
(* it reads tells what happened to it since the start, however often it    *)
(* changed, vanished and came back in between (browser.rs, FileStatus).    *)
StatusIsTrue ==
    settled => \A p \in Paths :
        reached(tree, p) /\ listed(tree, p) =>
            /\ (tree[p].status = "Unchanged") <=> (exists(p) /\ disk[p] = initial[p])
            /\ (tree[p].status = "Deleted") <=> ~exists(p)

(* When a refresh finds nothing, the indexes already hold what the files   *)
(* at the top, which are listed from the start, hold on disk: no change of *)
(* theirs is taken for none.                                               *)
TopLevelIsIndexed ==
    settled => \A p \in files : Parent[p] = Root => scanned[p] = disk[p]

(* A refresh tells of a change if there is one and only then: what opens   *)
(* the files again relies on it (App::poll_filesystem).                    *)
RefreshTellsChanges == RefreshSettles /\ TopLevelIsIndexed

(* Folding, unfolding and narrowing keep the place: the selected entry is  *)
(* the one before or, going left, its parent, as long as it has a row.     *)
KeepsPlace ==
    [][/\ UNCHANGED <<disk, scanned>> /\ <<tree, filter>>' # <<tree, filter>>
       /\ selectedEntry # Root /\ visible(tree', filter', selectedEntry)
       => rowAt(tree', rows', selected') = selectedEntry]_vars

(* What is gone from the disk is shown as deleted (browser.rs: "vanished   *)
(* ones marked `Deleted`").                                                *)
VanishedAreMarked ==
    settled => \A p \in Paths :
        listed(tree, p) /\ ~exists(p) => tree[p].status = "Deleted"

(* When a refresh finds nothing, the indexes know every file that is shown *)
(* (app.rs: "so the view stays consistent with disk").                     *)
WhatIsShownIsIndexed ==
    settled => \A p \in files : visible(tree, filter, p) => scanned[p] = disk[p]

(* Right on an unfolded directory goes to its first child (browser.rs: "or *)
(* move to its first child when already expanded").                        *)
RightGoesToAChild ==
    [][ExpandOrChild => LET after == rowAt(tree', rows', selected')
                        IN  after = selectedEntry \/ Parent[after] = selectedEntry]_vars
=============================================================================
