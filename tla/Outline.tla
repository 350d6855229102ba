------------------------------- MODULE Outline -------------------------------
(***************************************************************************)
(* The tree pane: the rows of the open document and of what is revealed    *)
(* in it, folding, the cursor, the filter and the search over all files,   *)
(* and what an edit does to the rows (App::rebuild_rows and the functions  *)
(* that lead to it, src/app.rs).                                           *)
(*                                                                         *)
(* Abstractions.  A node says a word, of letters, that the filter may find *)
(* in it (its readings as hex, text, number or OID are not told apart),    *)
(* and a specification labels nodes with words.  A ciphertext holds the    *)
(* forest of its plaintext; a password opens all that are of a kind, or    *)
(* none.  Files do not change; MaxFilter and MaxEdits bound a session.     *)
(***************************************************************************)
EXTENDS Naturals, FiniteSets, Sequences, SequencesExt

CONSTANTS Files, NoFile, Letters,
          Startup,    \* the forest each file holds
          Labels(_),  \* spec::identify: the labels of a forest, path and word
          FreeId,     \* the identities from here on are no file's
          MaxFilter, MaxEdits

VARIABLES
  file, roots, ident,      \* the open document and its labels
  revealed,                \* decrypted, pkcs12 or cms_reveal: its regions
  rows, selected,
  filter, filterCursor, filterGlobal,
  listed,                  \* the files the browser is narrowed to
  mode,                    \* "Browse" or "FilterInput"
  edits,                   \* how many edits were made
  rowsIdent, rowsRevealed, \* history: the labels and the regions the rows
                           \* were made with
  held, before             \* history: what the last edit put in place, and
                           \* what was on a row before it

doc == <<file, roots, ident, revealed>>
search == <<filter, filterCursor, filterGlobal, listed>>
made == <<rowsIdent, rowsRevealed>>
view == <<rows, selected, made>>
lastEdit == <<held, before>>
vars == <<doc, view, search, mode, edits, lastEdit>>

NoId == 0
inserted == FreeId + edits  \* the identity of a node that is inserted

-----------------------------------------------------------------------------
(* A forest is a function from the paths of its nodes: which child to take *)
(* at each level.  Siblings are a sequence of trees, whose paths start at  *)
(* their own roots.                                                        *)
node(id, says, constructed, cipher, secret) ==
  [id |-> id, says |-> says, constructed |-> constructed, encapsulates |-> FALSE,
   expanded |-> TRUE, cipher |-> cipher, secret |-> secret]

leaf(n) == [p \in {<<>>} |-> n]

Steps == Nat \ {0}
previous(path) == [path EXCEPT ![Len(path)] = @ - 1]

isNode(n) ==
  n \in [id : Nat, says : Seq(Letters), constructed : BOOLEAN, encapsulates : BOOLEAN,
         expanded : BOOLEAN, cipher : {"none", "pkcs8", "pkcs12", "cms"}, secret : {n.secret}]

isForest(forest) ==
  /\ IsFiniteSet(DOMAIN forest)
  /\ forest = [p \in DOMAIN forest |-> forest[p]]
  /\ \A p \in DOMAIN forest :
       /\ p \in Seq(Steps) \ {<<>>} /\ isNode(forest[p])
       /\ Len(p) > 1 => Front(p) \in DOMAIN forest
       /\ Last(p) > 1 => previous(p) \in DOMAIN forest

isDocument(forest) == isForest(forest) /\ \A p \in DOMAIN forest : isForest(forest[p].secret)

hasChildren(forest, path) == Append(path, 1) \in DOMAIN forest
arity(forest, path) == Cardinality({p \in DOMAIN forest : Front(p) = path})

put(forest, path, n) == [forest EXCEPT ![path] = n]

tree(forest, path) ==
  [p \in {SubSeq(q, Len(path) + 1, Len(q)) : q \in {q \in DOMAIN forest : IsPrefix(path, q)}}
     |-> forest[path \o p]]

siblings(forest, parent) ==
  [i \in 1 .. arity(forest, parent) |-> tree(forest, Append(parent, i))]

putSiblings(forest, parent, trees) ==
  [p \in {q \in DOMAIN forest : ~IsStrictPrefix(parent, q)}
          \cup UNION {{parent \o <<i>> \o q : q \in DOMAIN trees[i]} : i \in DOMAIN trees}
     |-> IF IsStrictPrefix(parent, p)
         THEN trees[p[Len(parent) + 1]][SubSeq(p, Len(parent) + 2, Len(p))]
         ELSE forest[p]]

-----------------------------------------------------------------------------
(* What the document is, and where its ciphertexts are: an encrypted key   *)
(* and a PKCS#12 container have a fixed frame, a message is found anywhere.*)
lexBefore(p, q) ==
  \/ IsStrictPrefix(p, q)
  \/ \E n \in DOMAIN p \cap DOMAIN q :
       p[n] < q[n] /\ \A m \in 1 .. n - 1 : p[m] = q[m]

inOrder(paths) ==
  CHOOSE s \in [1 .. Cardinality(paths) -> paths] :
    \A i, j \in DOMAIN s : i < j => lexBefore(s[i], s[j])

inFrame(forest, path) ==
  LET whole == arity(forest, <<>>) = 1
      parts == arity(forest, <<1>>)
  IN CASE forest[path].cipher = "none" -> FALSE
       [] forest[path].cipher = "pkcs8" -> whole /\ parts = 2 /\ path = <<1, 2>>
       [] forest[path].cipher = "pkcs12" -> whole /\ parts \in 2 .. 3 /\ IsPrefix(<<1, 2>>, path)
       [] OTHER -> TRUE

ciphertexts(forest) == {p \in DOMAIN forest : inFrame(forest, p)}

sourceOf == [pkcs8 |-> "Decrypted", pkcs12 |-> "Pkcs12Revealed", cms |-> "CmsRevealed"]

ofKind(forest, of) == {p \in ciphertexts(forest) : sourceOf[forest[p].cipher] = of}

(* No two nodes are the same, neither of a document nor of its plaintexts, *)
(* and an octet string that shows a value holds exactly that one.          *)
placesOf(forest) ==
  ({<<>>} \X DOMAIN forest)
    \cup UNION {{p} \X DOMAIN forest[p].secret : p \in DOMAIN forest}

idAt(forest, place) ==
  IF place[1] = <<>> THEN forest[place[2]].id ELSE forest[place[1]].secret[place[2]].id

hasIdentities(forest) ==
  \A x, y \in placesOf(forest) :
    idAt(forest, x) \in 1 .. FreeId - 1 /\ (idAt(forest, x) = idAt(forest, y) => x = y)

stillWhole(forest, path) == forest[path].encapsulates => arity(forest, path) = 1
isWhole(forest) == \A p \in DOMAIN forest : stillWhole(forest, p)

ASSUME OutlineAssumption ==
  /\ NoFile \notin Files /\ DOMAIN Startup = Files /\ MaxFilter \in Nat /\ MaxEdits \in Nat
  /\ FreeId \in Nat \ {NoId}
  /\ \A f \in Files : /\ isDocument(Startup[f])
                       /\ hasIdentities(Startup[f]) /\ isWhole(Startup[f])

source(of, region) == [of |-> of, region |-> region]
Document == source("Document", 0)
Placeholder == source("DecryptedPlaceholder", 0)

region(forest, at) ==
  [of |-> sourceOf[forest[at].cipher], at |-> at,
   roots |-> forest[at].secret, ident |-> Labels(forest[at].secret)]

decrypted(forest, paths) ==
  [k \in 1 .. Cardinality(paths) |-> region(forest, inOrder(paths)[k])]

-----------------------------------------------------------------------------
(* FilterMatcher                                                           *)
contains(word, part) ==
  \E i \in 0 .. Len(word) : i + Len(part) <= Len(word) /\ SubSeq(word, i + 1, i + Len(part)) = part

matches(n, path, labels, sought) ==
  /\ sought # <<>>
  /\ \/ \E l \in labels : l.path = path /\ contains(l.word, sought)
     \/ ~n.constructed /\ contains(n.says, sought)

\* Mutant of forestContainsMatch: only values are searched for.
forestContainsValue(forest, labels, sought) ==
  \E p \in DOMAIN forest : matches(forest[p], p, {}, sought)

forestContainsMatch(forest, labels, sought) ==
  \E p \in DOMAIN forest : matches(forest[p], p, labels, sought)

-----------------------------------------------------------------------------
(* The rows.  "c" is what collecting them takes along: whose forest it is, *)
(* the depth of its roots, its labels and the filter.                      *)
row(c, path, elided) ==
  [path |-> path, depth |-> c.depth + Len(path) - 1, source |-> c.source, elided |-> elided]

collectRows(n, path, subtrees, c) ==
  <<row(c, path, FALSE)>> \o (IF n.expanded THEN FlattenSeq(subtrees) ELSE <<>>)

\* Mutant of withRuns: a run of hidden siblings is left out altogether.
withoutRuns(subtrees, path, c) == FlattenSeq(subtrees)

withRuns(subtrees, path, c) ==
  FlattenSeq([i \in DOMAIN subtrees |->
                IF subtrees[i] # <<>> THEN subtrees[i]
                ELSE IF i = 1 \/ subtrees[i - 1] # <<>> THEN <<row(c, Append(path, i), TRUE)>>
                ELSE <<>>])

collectRowsFiltered(n, path, subtrees, c) ==
  IF matches(n, path, c.labels, c.filter) \/ \E i \in DOMAIN subtrees : subtrees[i] # <<>>
  THEN <<row(c, path, FALSE)>> \o withRuns(subtrees, path, c)
  ELSE <<>>

collectForest(forest, c) ==
  LET collected[p \in DOMAIN forest] ==
        LET subtrees == [i \in 1 .. arity(forest, p) |-> collected[Append(p, i)]]
        IN IF c.filter = <<>> THEN collectRows(forest[p], p, subtrees, c)
           ELSE collectRowsFiltered(forest[p], p, subtrees, c)
      all == [i \in 1 .. arity(forest, <<>>) |-> collected[<<i>>]]
  IN IF c.filter = <<>> THEN FlattenSeq(all) ELSE withRuns(all, <<>>, c)

context(whose, depth, labels, sought) ==
  [source |-> whose, depth |-> depth, labels |-> labels, filter |-> sought]

(* What is spliced in below a row of the document: a row of a hidden run   *)
(* has a path, too.                                                        *)
spliced(r, forest, regions, sought) ==
  IF regions = <<>>
  THEN IF r.path \in ciphertexts(forest)
       THEN <<[path |-> r.path, depth |-> r.depth + 1, source |-> Placeholder, elided |-> FALSE]>>
       ELSE <<>>
  ELSE FlattenSeq([k \in DOMAIN regions |->
                     IF regions[k].at = r.path
                     THEN collectForest(regions[k].roots,
                            context(source(regions[k].of, k), r.depth + 1, regions[k].ident, sought))
                     ELSE <<>>])

rowsOf(forest, labels, regions, sought) ==
  LET own == collectForest(forest, context(Document, 0, labels, sought))
  IN FlattenSeq([i \in DOMAIN own |-> <<own[i]>> \o spliced(own[i], forest, regions, sought)])

clamped(index, shown) == IF index > Len(shown) /\ shown # <<>> THEN Len(shown)
                         ELSE IF shown = <<>> THEN 1 ELSE index

at(shown, whose, path) == {i \in DOMAIN shown : shown[i].source = whose /\ shown[i].path = path}
find(shown, whose, path, otherwise) ==
  IF at(shown, whose, path) = {} THEN otherwise
  ELSE CHOOSE i \in at(shown, whose, path) : \A j \in at(shown, whose, path) : i <= j

(* App::rebuild_rows, after the document and the filter took their values. *)
RebuildRows ==
  /\ rows' = rowsOf(roots', ident', revealed', filter')
  /\ rowsIdent' = ident' /\ rowsRevealed' = revealed'
  /\ selected' = clamped(selected, rows')

forestOf(whose) == IF whose = Document THEN roots ELSE revealed[whose.region].roots
nodeForRow(r) == forestOf(r.source)[r.path]

(* App::node_for_row: a hidden run and a lock carry no node, and neither   *)
(* does a row of a plaintext that is no longer revealed.                   *)
hasNode(r, regions) ==
  /\ ~r.elided /\ r.source # Placeholder
  /\ r.source = Document \/ r.source.region \in DOMAIN regions
carriesNode(r) == hasNode(r, revealed)
-----------------------------------------------------------------------------
TypeOK ==
  /\ file \in Files \cup {NoFile}
  /\ \A i \in DOMAIN rows :
       \/ rows[i].source = Placeholder /\ rowsRevealed = <<>>
       \/ rows[i].source = Document /\ rows[i].path \in DOMAIN roots
       \/ /\ rows[i].source.region \in DOMAIN rowsRevealed
          /\ rows[i].path \in DOMAIN rowsRevealed[rows[i].source.region].roots
  /\ IF rows = <<>> THEN selected = 1 ELSE selected \in DOMAIN rows
  /\ filter \in Seq(Letters) /\ Len(filter) <= MaxFilter
  /\ filterCursor \in 0 .. Len(filter)
  /\ filterGlobal \in BOOLEAN
  /\ listed \subseteq Files
  /\ mode \in {"Browse", "FilterInput"}
  /\ edits \in 0 .. MaxEdits

Init ==
  /\ file = NoFile /\ roots = <<>> /\ ident = {} /\ revealed = <<>>
  /\ rows = <<>> /\ selected = 1 /\ rowsIdent = {} /\ rowsRevealed = <<>>
  /\ filter = <<>> /\ filterCursor = 0 /\ filterGlobal = FALSE /\ listed = Files
  /\ mode = "Browse" /\ edits = 0 /\ held = NoId /\ before = {}

noEdit == held' = NoId /\ before' = {} /\ UNCHANGED edits

(* The rows are made before the document is identified: with the labels of *)
(* the one that was open before.                                           *)
OpenFile(f) ==
  /\ mode = "Browse"
  /\ file' = f /\ roots' = Startup[f] /\ revealed' = <<>>
  /\ rows' = rowsOf(roots', ident, revealed', filter)
  /\ rowsIdent' = ident /\ rowsRevealed' = revealed'
  /\ selected' = 1
  /\ ident' = Labels(roots')
  /\ edits' = 0 /\ held' = NoId /\ before' = {}
  /\ UNCHANGED <<search, mode>>

(* The right password, or a key that decrypts the message, also of what is *)
(* revealed already: it is parsed anew.                                    *)
Unlock ==
  /\ mode = "Browse"
  /\ \E p \in ciphertexts(roots) :
       revealed' = decrypted(roots, ofKind(roots, sourceOf[roots[p].cipher]))
  /\ UNCHANGED <<file, roots, ident, search>>
  /\ RebuildRows
  /\ noEdit /\ UNCHANGED mode

(* A wrong password hides what a right one revealed, and leaves the rows.  *)
UnlockFails ==
  /\ mode = "Browse"
  /\ revealed # <<>> /\ revealed[1].of # "CmsRevealed"
  /\ revealed' = <<>>
  /\ UNCHANGED <<file, roots, ident, view, search, mode>> /\ noEdit

-----------------------------------------------------------------------------
(* The cursor and folding.                                                 *)
selectedRow == rows[selected]
inTree == mode = "Browse" /\ rows # <<>>

Select(i) ==
  /\ inTree /\ selected' = i
  /\ UNCHANGED <<doc, search, rows, made, mode>> /\ noEdit

(* selected_node_mut: what is decrypted of a message is never changed.     *)
foldable(r) == carriesNode(r) /\ r.source.of # "CmsRevealed"

withFold(expanded) ==
  IF ~foldable(selectedRow) THEN UNCHANGED <<roots, revealed>>
  ELSE LET forest == put(forestOf(selectedRow.source), selectedRow.path,
                         [nodeForRow(selectedRow) EXCEPT !.expanded = expanded])
       IN IF selectedRow.source = Document
          THEN roots' = forest /\ UNCHANGED revealed
          ELSE revealed' = [revealed EXCEPT ![selectedRow.source.region].roots = forest]
               /\ UNCHANGED roots

Fold(expanded) ==
  /\ withFold(expanded)
  /\ UNCHANGED <<file, ident, search>>
  /\ RebuildRows
  /\ noEdit /\ UNCHANGED mode

foldState(r) ==
  IF ~carriesNode(r) \/ ~hasChildren(forestOf(r.source), r.path) THEN "none"
  ELSE IF nodeForRow(r).expanded THEN "open" ELSE "closed"

ToggleExpand ==
  /\ inTree /\ foldable(selectedRow) /\ foldState(selectedRow) # "none"
  /\ Fold(foldState(selectedRow) = "closed")

\* Mutant of parentRow: the parent is looked for among the document's rows.
parentRowOfDocument(i) ==
  IF Len(rows[i].path) > 1 THEN find(rows, Document, Front(rows[i].path), i) ELSE i

(* Where Left goes from a row that does not fold.  The roots of a message, *)
(* and of a plaintext that is no longer revealed, have nowhere to go.      *)
parentRow(i) ==
  LET r == rows[i]
  IN IF r.source = Placeholder THEN find(rows, Document, r.path, i)
     ELSE IF Len(r.path) > 1 THEN find(rows, r.source, Front(r.path), i)
     ELSE IF r.source.of \in {"Decrypted", "Pkcs12Revealed"} /\ r.source.region \in DOMAIN revealed
          THEN find(rows, Document, revealed[r.source.region].at, i)
     ELSE i

CollapseOrParent ==
  /\ inTree
  /\ IF foldState(selectedRow) = "open" THEN Fold(FALSE) ELSE Select(parentRow(selected))

ExpandOrChild ==
  /\ inTree /\ foldState(selectedRow) # "none"
  /\ IF foldState(selectedRow) = "closed" THEN Fold(TRUE)
     ELSE Select(clamped(selected + 1, rows))

-----------------------------------------------------------------------------
(* The filter, of the tree or of all files.                                *)
filesFound(sought) ==
  {f \in Files : forestContainsMatch(Startup[f], Labels(Startup[f]), sought)}

narrowed == listed' = IF filterGlobal' /\ filter' # <<>> THEN filesFound(filter') ELSE Files

StartFilter ==
  /\ mode = "Browse" /\ file # NoFile
  /\ mode' = "FilterInput" /\ filterGlobal' = FALSE /\ filterCursor' = Len(filter)
  /\ UNCHANGED <<doc, view, filter>> /\ noEdit
  /\ narrowed

StartBrowserSearch ==
  /\ mode = "Browse"
  /\ mode' = "FilterInput" /\ filterGlobal' = TRUE /\ filterCursor' = Len(filter)
  /\ UNCHANGED <<doc, view, filter>> /\ noEdit
  /\ narrowed

Refilter(sought, cursor) ==
  /\ mode = "FilterInput"
  /\ filter' = sought /\ filterCursor' = cursor
  /\ UNCHANGED <<doc, filterGlobal, mode>> /\ noEdit
  /\ narrowed
  /\ RebuildRows

FilterInsertChar(c) ==
  /\ Len(filter) < MaxFilter
  /\ Refilter(InsertAt(filter, filterCursor + 1, c), filterCursor + 1)

FilterBackspace ==
  filterCursor > 0 /\ Refilter(RemoveAt(filter, filterCursor), filterCursor - 1)

FilterDelete ==
  filterCursor < Len(filter) /\ Refilter(RemoveAt(filter, filterCursor + 1), filterCursor)

FilterMoveCursor(to) ==
  /\ mode = "FilterInput" /\ to # filterCursor
  /\ filterCursor' = to
  /\ UNCHANGED <<doc, view, filter, filterGlobal, listed, mode>> /\ noEdit

FilterAccept ==
  /\ mode = "FilterInput" /\ mode' = "Browse"
  /\ UNCHANGED <<doc, view, search>> /\ noEdit

FilterClear ==
  /\ mode = "FilterInput" /\ mode' = "Browse"
  /\ filter' = <<>> /\ filterCursor' = 0 /\ filterGlobal' = FALSE /\ listed' = Files
  /\ UNCHANGED doc /\ noEdit
  /\ RebuildRows

FilterKeys ==
  \/ \E c \in Letters : FilterInsertChar(c)
  \/ FilterBackspace
  \/ FilterDelete
  \/ \E to \in {0, Len(filter), filterCursor - 1, filterCursor + 1} \cap (0 .. Len(filter)) :
       FilterMoveCursor(to)
  \/ FilterAccept
  \/ FilterClear

-----------------------------------------------------------------------------
(* Edits: the forest of the selected row, as the edit left it, is encoded  *)
(* and parsed again, which opens every node; an octet string that no       *)
(* longer holds one value shows none.                                      *)
parsed(forest) ==
  [p \in {p \in DOMAIN forest : \A n \in 1 .. Len(p) - 1 : stillWhole(forest, SubSeq(p, 1, n))}
     |-> [forest[p] EXCEPT !.encapsulates = @ /\ stillWhole(forest, p), !.expanded = TRUE]]

copyExpanded(old, new) ==
  [p \in DOMAIN new |->
     IF p \in DOMAIN old THEN [new[p] EXCEPT !.expanded = old[p].expanded] ELSE new[p]]

\* Mutant of reparsed: the flags come from the tree as it was before the edit.
reparsedWithOldFlags(forest) == copyExpanded(roots, parsed(forest))

reparsed(forest) == copyExpanded(forest, parsed(forest))

(* encrypt_decrypted_tree and encrypt_pkcs12_region *)
encrypted(whose, forest) ==
  LET path == revealed[whose.region].at
  IN put(roots, path, [roots[path] EXCEPT !.secret = parsed(forest)])

(* refresh_decrypted_tree, refresh_pkcs12_reveal and identify; a message   *)
(* is locked by every edit.  An edit of a decrypted key leaves its tree as *)
(* it was edited, without a new parse.                                     *)
refreshed(forest, old) ==
  IF old = <<>> \/ old[1].of = "CmsRevealed" THEN <<>>
  ELSE LET new == decrypted(forest, ofKind(forest, old[1].of))
       IN [k \in DOMAIN new |->
             IF k \in DOMAIN old
             THEN [new[k] EXCEPT !.roots = copyExpanded(old[k].roots, @)] ELSE new[k]]

(* Elided rows, placeholders and messages cannot be edited, and the root   *)
(* of a plaintext stays.                                                   *)
mayEdit == mode = "Browse" /\ edits < MaxEdits /\ (rows # <<>> => foldable(selectedRow))
atRevealedRoot == selectedRow.source # Document /\ Len(selectedRow.path) = 1

(* Once to the row that was selected, and then to the one edited.          *)
reselected(whose, path) ==
  find(rows', whose, path,
       IF rows = <<>> THEN clamped(selected, rows')
       ELSE find(rows', selectedRow.source, selectedRow.path, clamped(selected, rows')))

Ids(shown, regions, forest) ==
  {(IF shown[i].source = Document THEN forest
    ELSE regions[shown[i].source.region].roots)[shown[i].path].id :
     i \in {j \in DOMAIN shown : hasNode(shown[j], regions)}}

Rebuild(whose, forest, path, id) ==
  LET outer == IF whose = Document THEN forest ELSE encrypted(whose, forest)
      inner == IF whose = Document THEN revealed
               ELSE [revealed EXCEPT ![whose.region].roots = forest]
  IN /\ roots' = reparsed(outer)
     /\ revealed' = IF whose.of # "Decrypted" THEN refreshed(roots', inner)
                    ELSE [inner EXCEPT ![whose.region].ident = Labels(forest)]
     /\ ident' = Labels(roots')
     /\ rows' = rowsOf(roots', ident', revealed', filter)
     /\ rowsIdent' = ident' /\ rowsRevealed' = revealed'
     /\ selected' = reselected(whose, path)
     /\ edits' = edits + 1 /\ held' = id
     /\ before' = IF filter = <<>> THEN Ids(rows, revealed, roots) ELSE {}
     /\ UNCHANGED <<file, search, mode>>

CommitEdit(word) ==
  /\ mayEdit /\ rows # <<>>
  /\ ~nodeForRow(selectedRow).constructed /\ ~hasChildren(forestOf(selectedRow.source), selectedRow.path)
  /\ nodeForRow(selectedRow).cipher = "none" /\ nodeForRow(selectedRow).says # word
  /\ Rebuild(selectedRow.source,
             put(forestOf(selectedRow.source), selectedRow.path,
                 [nodeForRow(selectedRow) EXCEPT !.says = word, !.encapsulates = FALSE]),
             selectedRow.path, nodeForRow(selectedRow).id)

Insert(whose, parent, index, n) ==
  LET opened == IF parent = <<>> THEN forestOf(whose)
                ELSE [forestOf(whose) EXCEPT ![parent].expanded = TRUE]
  IN Rebuild(whose,
             putSiblings(opened, parent, InsertAt(siblings(opened, parent), index, leaf(n))),
             Append(parent, index), n.id)

CommitInsert(asChild, n) ==
  /\ mayEdit /\ file # NoFile
  /\ IF rows = <<>> THEN Insert(Document, <<>>, 1, n)
     ELSE IF asChild
     THEN /\ nodeForRow(selectedRow).constructed \/ nodeForRow(selectedRow).encapsulates
          /\ Insert(selectedRow.source, selectedRow.path, 1, n)
     ELSE /\ ~atRevealedRoot
          /\ Insert(selectedRow.source, Front(selectedRow.path), Last(selectedRow.path) + 1, n)

MoveSelected(to) ==
  LET parent == Front(selectedRow.path)
      trees == siblings(forestOf(selectedRow.source), parent)
      from == Last(selectedRow.path)
  IN /\ mayEdit /\ rows # <<>>
     /\ to \in DOMAIN trees \ {from}
     /\ Rebuild(selectedRow.source,
                putSiblings(forestOf(selectedRow.source), parent,
                            [trees EXCEPT ![from] = trees[to], ![to] = trees[from]]),
                Append(parent, to), nodeForRow(selectedRow).id)

DeleteSelected ==
  LET parent == Front(selectedRow.path)
  IN /\ mayEdit /\ rows # <<>> /\ ~atRevealedRoot
     /\ Rebuild(selectedRow.source,
                putSiblings(forestOf(selectedRow.source), parent,
                            RemoveAt(siblings(forestOf(selectedRow.source), parent),
                                     Last(selectedRow.path))),
                selectedRow.path, NoId)

Edit ==
  \/ \E w \in {<<l>> : l \in Letters} : CommitEdit(w)
  \/ \E asChild \in BOOLEAN, l \in Letters :
       CommitInsert(asChild, node(inserted, <<l>>, FALSE, "none", <<>>))
  \/ \E d \in {0, 2} : rows # <<>> /\ MoveSelected(Last(selectedRow.path) + d - 1)
  \/ DeleteSelected

Keys ==
  \/ \E i \in DOMAIN rows : Select(i)
  \/ ToggleExpand
  \/ CollapseOrParent
  \/ ExpandOrChild
  \/ StartFilter
  \/ StartBrowserSearch

Next ==
  \/ \E f \in Files : OpenFile(f)
  \/ Unlock
  \/ UnlockFails
  \/ Keys
  \/ FilterKeys
  \/ Edit

Spec == Init /\ [][Next]_vars
-----------------------------------------------------------------------------
(* The outline of a forest, without walking it: which paths are shown, and *)
(* which stand for a run of siblings that are not.                         *)
isShown(forest, labels, path) ==
  IF filter = <<>>
  THEN \A n \in 1 .. Len(path) - 1 : forest[SubSeq(path, 1, n)].expanded
  ELSE \E p \in DOMAIN forest : IsPrefix(path, p) /\ matches(forest[p], p, labels, filter)

startsHiddenRun(forest, labels, path) ==
  /\ filter # <<>> /\ ~isShown(forest, labels, path)
  /\ Len(path) = 1 \/ isShown(forest, labels, Front(path))
  /\ Last(path) = 1 \/ isShown(forest, labels, previous(path))

outlineOf(forest, labels, whose, depth) ==
  {[path |-> p, depth |-> depth + Len(p) - 1, source |-> whose,
    elided |-> ~isShown(forest, labels, p)] :
     p \in {q \in DOMAIN forest : isShown(forest, labels, q) \/ startsHiddenRun(forest, labels, q)}}

below(r) ==
  IF rowsRevealed # <<>>
  THEN UNION {outlineOf(rowsRevealed[k].roots, rowsRevealed[k].ident,
                        source(rowsRevealed[k].of, k), r.depth + 1) :
                k \in {k \in DOMAIN rowsRevealed : rowsRevealed[k].at = r.path}}
  ELSE {[path |-> r.path, depth |-> r.depth + 1, source |-> Placeholder, elided |-> FALSE] :
          p \in ciphertexts(roots) \cap {r.path}}

outline ==
  LET own == outlineOf(roots, rowsIdent, Document, 0)
  IN own \cup UNION {below(r) : r \in own}

(* A position in the document: a plaintext comes between its ciphertext    *)
(* and what follows it.                                                    *)
position(r) ==
  IF r.source = Document THEN r.path
  ELSE IF r.source = Placeholder THEN Append(r.path, 0)
  ELSE rowsRevealed[r.source.region].at \o <<0>> \o r.path

(* The pane shows, in the order of the document, exactly the elements      *)
(* whose ancestors are all open or, with a filter, those with a match in   *)
(* them; one row for each run of hidden siblings; and what is revealed, or *)
(* one closed lock, a level below its ciphertext (App::rebuild_rows after  *)
(* every edit, fold, reveal and change of the filter).  What they show to  *)
(* be revealed is what is, or was until a wrong password hid it.           *)
RowsAreTheOutline ==
  /\ revealed \in {rowsRevealed, <<>>}
  /\ Range(rows) = outline
  /\ \A i \in 1 .. Len(rows) - 1 : lexBefore(position(rows[i]), position(rows[i + 1]))

(* Left leads from every row but a message's, or the root of a plaintext   *)
(* that a wrong password hid, out to the row that encloses it, a           *)
(* ciphertext's for a plaintext, over nothing that lies further out,       *)
(* whatever is folded and hidden (App::collapse_or_parent).                *)
climbs(i) ==
  IF rows[i].depth = 0 THEN parentRow(i) = i
  ELSE /\ parentRow(i) < i
       /\ rows[parentRow(i)].depth = rows[i].depth - 1
       /\ ~rows[parentRow(i)].elided \/ rows[i].source # Document
       /\ \A j \in parentRow(i) + 1 .. i : rows[j].depth >= rows[i].depth

isStale(r) ==
  /\ r.source.of \in {"Decrypted", "Pkcs12Revealed"}
  /\ r.source.region \notin DOMAIN revealed

LeftClimbs ==
  \A i \in DOMAIN rows :
    \/ rows[i].source.of = "CmsRevealed"
    \/ isStale(rows[i]) /\ Len(rows[i].path) = 1
    \/ climbs(i)

(* The rows show what is revealed, as a lock below what is not.            *)
RowsShowWhatIsRevealed == rowsRevealed = revealed

(* The same of every row, as the comment of App::collapse_or_parent has it.*)
LeftClimbsEverywhere == \A i \in DOMAIN rows : climbs(i)

(* An edit leaves the cursor on what it put in place or moved, as long as  *)
(* that has a row (App::commit_insert, move_selected and rebuild).         *)
SelectionFollows ==
  held \in Ids(rows, revealed, roots)
    => carriesNode(selectedRow) /\ nodeForRow(selectedRow).id = held

idsOf(forest) == {forest[p].id : p \in DOMAIN forest}
revealedIds == UNION {idsOf(revealed[k].roots) : k \in DOMAIN revealed}
stays(ids) == filter = <<>> => before \cap ids \subseteq Ids(rows, revealed, roots)

(* What was on a row before an edit and is still there, is on a row after  *)
(* it: the new parse opens and closes nothing, neither in the document nor *)
(* in the plaintext of an encrypted key (App::rebuild and copy_expanded).  *)
NothingFoldsAway ==
  stays(idsOf(roots) \cup
        UNION {idsOf(revealed[k].roots) : k \in {k \in DOMAIN revealed : revealed[k].of = "Decrypted"}})

(* The cursor and the folds survive an edit, the encoding and parsing of   *)
(* the document, and of what is revealed, that are part of it.             *)
EditsKeepTheView == SelectionFollows /\ NothingFoldsAway

(* The same of the plaintexts of several regions, which take their folds   *)
(* over by their number (App::refresh_pkcs12_reveal).                      *)
RegionsKeepTheirFolds == stays(revealedIds)

searching == filterGlobal /\ filter # <<>> /\ file # NoFile /\ edits = 0
treeHasMatch == \E i \in DOMAIN rows : rows[i].source = Document /\ ~rows[i].elided

(* The search lists a file if and only if its own tree, filtered by the    *)
(* same string, shows a match: at every keystroke (App::apply_browser_     *)
(* filter and rebuild_rows).                                               *)
SearchAgreesWhenTyped == searching /\ rowsIdent = ident => (file \in listed <=> treeHasMatch)

(* The same of a file that is opened while the search is on.               *)
SearchAgrees == searching => (file \in listed <=> treeHasMatch)
=============================================================================
