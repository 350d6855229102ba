---------------------------- MODULE EditHistory ----------------------------
(***************************************************************************)
(* The buffer of the hex and text editors of src/app.rs with EditHistory,  *)
(* the part they share: cursor, selection, the marking of what was just    *)
(* inserted, undo, and the system clipboard they cut to and paste from.    *)
(* The hex editor is Unit = 2 (an item is a digit, two make an octet), a   *)
(* text editor Unit = 1 and Row = 0.  A text editor takes no control       *)
(* characters from the clipboard; for the hex editor the clipboard is the  *)
(* digits that clipboard::hex_digits reads from it, and Controls is empty. *)
(*                                                                         *)
(* Positions are offsets: k stands between the k-th item and the next.  A  *)
(* range <<from, to>> covers the items from + 1 .. to; the empty range     *)
(* <<0, 0>> is Rust's None.                                                *)
(***************************************************************************)
EXTENDS Integers, FiniteSets, Sequences, SequencesExt, Positions

CONSTANTS Unit,        \* items a selection is quantised to
          Row,         \* units in a line of the pane; 0: Up and Down do nothing
          UndoDepth,   \* UNDO_DEPTH
          Initial,     \* the value when the editor was opened
          StartCursor, \* where the cursor starts: 0 in the hex editor, the end in the others
          Typed,       \* the items on the keyboard
          Controls,    \* the items that are control characters
          KeepsNewlines,      \* the raw format: newlines are data
          LineFeed, Return,
          Pastes,      \* what other programs may put on the clipboard
          NoAnchor,
          MaxLen,      \* bound: items in the buffer
          MaxChanges   \* bound: recorded changes

newlines == IF KeepsNewlines THEN {LineFeed} ELSE {}
Items == Range(Initial) \cup Typed \cup newlines \cup UNION {Range(p) : p \in Pastes}
Buffers == {s \in Seq(Items) : Len(s) <= MaxLen}

ASSUME UnitAssumption == Unit \in {1, 2} /\ Row \in Nat
ASSUME BoundsAssumption == UndoDepth \in Nat \ {0} /\ MaxLen \in Nat /\ MaxChanges \in Nat
ASSUME InitialAssumption ==
  /\ Initial \in Seq(Items)
  /\ Len(Initial) <= MaxLen
  /\ StartCursor \in {0, Len(Initial)}
ASSUME PastesAssumption == Pastes \subseteq Seq(Items)
ASSUME NewlinesAssumption == KeepsNewlines => {LineFeed, Return} \subseteq Controls
ASSUME NoAnchorAssumption == NoAnchor \notin Nat

VARIABLES buf, cursor, anchor, fresh, undo,
          clipboard,
          changes       \* how many changes were recorded

vars == <<buf, cursor, anchor, fresh, undo, clipboard, changes>>

TypeOK ==
  /\ buf \in Buffers
  /\ cursor \in Nat
  /\ anchor \in Nat \cup {NoAnchor}
  /\ fresh \in Nat \X Nat
  /\ undo \in Seq([buf : Buffers, cursor : Nat])
  /\ clipboard \in Seq(Items)
  /\ changes \in 0 .. MaxChanges

-----------------------------------------------------------------------------
None == <<0, 0>>
least(i, j) == IF i < j THEN i ELSE j
most(i, j) == IF i < j THEN j ELSE i
clampTo(i, len) == IF i < 0 THEN 0 ELSE least(i, len)
roundDown(i) == i - (i % Unit)
roundUp(i) == roundDown(i + Unit - 1)

\* EditHistory::selection: widened to whole units, not clamped to the buffer.
selection ==
  IF anchor \in {NoAnchor, cursor} THEN None
  ELSE <<roundDown(least(anchor, cursor)), roundUp(most(anchor, cursor))>>
selected == selection # None

cutStart == selection[1]
cutEnd == least(selection[2], Len(buf))

\* Mutant of selectedText: the selection as it was made, in half octets.
selectedTextUnwidened ==
  IF selected THEN SubSeq(buf, least(anchor, cursor) + 1, most(anchor, cursor)) ELSE <<>>
selectedText == SubSeq(buf, cutStart + 1, cutEnd)
rest == SubSeq(buf, 1, cutStart) \o SubSeq(buf, cutEnd + 1, Len(buf))

\* Mutant of Record: the newest is forgotten when the list is full.
RecordForgetsNewest ==
  /\ changes < MaxChanges
  /\ changes' = changes + 1
  /\ undo' = IF Len(undo) = UndoDepth THEN undo
             ELSE Append(undo, [buf |-> buf, cursor |-> cursor])

\* EditHistory::record: the state before a change; the oldest is forgotten.
Record ==
  /\ changes < MaxChanges
  /\ changes' = changes + 1
  /\ undo' = Append(IF Len(undo) = UndoDepth THEN Tail(undo) ELSE undo,
                    [buf |-> buf, cursor |-> cursor])

\* EditHistory::mark_fresh, for a range that is not empty.
markFresh(old, start, end) ==
  IF old # None /\ old[2] = start THEN <<old[1], end>>
  ELSE IF old # None /\ end = old[1] THEN <<start, old[2]>>
  ELSE <<start, end>>

\* restored_range: what after has between the head and the tail it shares with
\* a shorter before.
sharedHead(before, after) ==
  CHOOSE n \in 0 .. Len(before) :
    /\ \A i \in 1 .. n : before[i] = after[i]
    /\ n = Len(before) \/ before[n + 1] # after[n + 1]

\* Mutant of sharedTail: the tail may run into the head.
sharedTailOverlapping(before, after, head) ==
  LET shift == Len(after) - Len(before)
  IN CHOOSE n \in 0 .. Len(before) :
       /\ \A i \in Len(before) - n + 1 .. Len(before) : before[i] = after[i + shift]
       /\ n = Len(before) \/ before[Len(before) - n] # after[Len(after) - n]
sharedTail(before, after, head) ==
  LET shift == Len(after) - Len(before)
  IN CHOOSE n \in 0 .. Len(before) - head :
       /\ \A i \in Len(before) - n + 1 .. Len(before) : before[i] = after[i + shift]
       /\ n = Len(before) - head \/ before[Len(before) - n] # after[Len(after) - n]
restoredRange(before, after) ==
  IF Len(after) <= Len(before) THEN None
  ELSE LET head == sharedHead(before, after)
       IN <<head, Len(after) - sharedTail(before, after, head)>>

-----------------------------------------------------------------------------
(* Moving, and selecting on the way with Shift.                            *)
Step(delta, extend) ==
  LET snapped == least(IF delta >= 0 THEN roundDown(cursor) ELSE roundUp(cursor), Len(buf))
      base == IF anchor = NoAnchor THEN snapped ELSE cursor
  IN /\ IF extend
        THEN /\ anchor' = IF anchor = NoAnchor THEN snapped ELSE anchor
             /\ cursor' = clampTo(base + delta * Unit, Len(buf))
             /\ fresh' = None
        ELSE /\ anchor' = NoAnchor
             /\ cursor' = clampTo(cursor + delta, Len(buf))
             /\ UNCHANGED fresh
     /\ UNCHANGED <<buf, undo, clipboard, changes>>

MoveHorizontal == \E delta \in {-1, 1}, extend \in BOOLEAN : Step(delta, extend)

MoveVertical ==
  /\ Row > 0
  /\ \E d \in {-1, 1}, extend \in BOOLEAN :
       Step(IF extend THEN d * Row ELSE d * Row * Unit, extend)

Jump ==
  /\ cursor' \in {0, Len(buf)}
  /\ \/ /\ anchor' = IF anchor = NoAnchor THEN cursor ELSE anchor
        /\ fresh' = None
     \/ /\ anchor' = NoAnchor
        /\ UNCHANGED fresh
  /\ UNCHANGED <<buf, undo, clipboard, changes>>

SelectAll ==
  /\ anchor' = 0
  /\ cursor' = Len(buf)
  /\ fresh' = None
  /\ UNCHANGED <<buf, undo, clipboard, changes>>

-----------------------------------------------------------------------------
(* Changing the buffer.                                                    *)
DeleteSelection ==
  /\ selected
  /\ Record
  /\ buf' = rest
  /\ cursor' = cutStart
  /\ anchor' = NoAnchor
  /\ fresh' = None

\* Without a selection the anchor is left where it was.
Insert(items) ==
  LET at == IF selected THEN cutStart ELSE cursor
      old == IF selected THEN rest ELSE buf
      marked == IF selected THEN None ELSE fresh
  IN /\ items # <<>>
     /\ Len(old) + Len(items) <= MaxLen
     /\ Record
     /\ buf' = SubSeq(old, 1, at) \o items \o SubSeq(old, at + 1, Len(old))
     /\ cursor' = at + Len(items)
     /\ anchor' = IF selected THEN NoAnchor ELSE anchor
     /\ fresh' = markFresh(marked, at, at + Len(items))
     /\ UNCHANGED clipboard

InsertChar == \E c \in Typed \ Controls : Insert(<<c>>)

\* TextEditor::insert_text: the control characters go, but for the newlines of
\* the raw format, which all become line feeds.
dropped(c) == c \in Controls /\ ~(KeepsNewlines /\ c \in {LineFeed, Return})
taken(text) ==
  LET stays == {k \in DOMAIN text : ~dropped(text[k])}
      item(k) == text[nth(stays, k)]
  IN [k \in 1 .. Cardinality(stays) |->
        IF KeepsNewlines /\ item(k) = Return THEN LineFeed ELSE item(k)]

Paste == Insert(taken(clipboard))

\* The item before the cursor, for Backspace, and the one behind it, for Delete.
removable == {cursor, cursor + 1} \cap DOMAIN buf

\* Mutant of RemoveOne: what was marked as inserted stays marked.
RemoveOneKeepsMark ==
  /\ UNCHANGED clipboard
  /\ \/ DeleteSelection
     \/ /\ ~selected
        /\ \E k \in removable : buf' = RemoveAt(buf, k) /\ cursor' = k - 1
        /\ Record
        /\ UNCHANGED <<anchor, fresh>>

RemoveOne ==
  /\ UNCHANGED clipboard
  /\ \/ DeleteSelection
     \/ /\ ~selected
        /\ \E k \in removable : buf' = RemoveAt(buf, k) /\ cursor' = k - 1
        /\ Record
        /\ fresh' = None
        /\ UNCHANGED anchor

Undo ==
  /\ undo # <<>>
  /\ LET previous == undo[Len(undo)]
     IN /\ buf' = previous.buf
        /\ cursor' = least(previous.cursor, Len(previous.buf))
        /\ fresh' = restoredRange(buf, previous.buf)
  /\ undo' = SubSeq(undo, 1, Len(undo) - 1)
  /\ anchor' = NoAnchor
  /\ UNCHANGED <<clipboard, changes>>

-----------------------------------------------------------------------------
(* The clipboard belongs to the desktop: writing it may fail, and other    *)
(* programs write it too.                                                  *)
Copy ==
  /\ selected
  /\ clipboard' = selectedText
  /\ UNCHANGED <<buf, cursor, anchor, fresh, undo, changes>>

Cut ==
  /\ clipboard' = selectedText
  /\ DeleteSelection

OtherProgramCopies ==
  /\ clipboard' \in Pastes
  /\ UNCHANGED <<buf, cursor, anchor, fresh, undo, changes>>

-----------------------------------------------------------------------------
Init ==
  /\ buf = Initial
  /\ cursor = StartCursor
  /\ anchor = NoAnchor
  /\ fresh = None
  /\ undo = <<>>
  /\ clipboard = <<>>
  /\ changes = 0

Next ==
  \/ MoveHorizontal
  \/ MoveVertical
  \/ Jump
  \/ SelectAll
  \/ InsertChar
  \/ Paste
  \/ RemoveOne
  \/ Undo
  \/ Copy
  \/ Cut
  \/ OtherProgramCopies

Spec == Init /\ [][Next]_vars

-----------------------------------------------------------------------------
(* Properties.                                                             *)

(* Every index the editor uses lies in the buffer, so no slice, drain or   *)
(* insert can be out of range: an anchor may outlive the items it stood    *)
(* behind, and the selection is widened past the end of an odd buffer, but *)
(* what is cut always starts before it ends; and undo restores a cursor    *)
(* that fits the buffer it restores.                                       *)
RangesInBounds ==
  /\ cursor <= Len(buf)
  /\ cutStart <= cutEnd
  /\ fresh[1] <= fresh[2] /\ fresh[2] <= Len(buf)
  /\ Len(undo) <= UndoDepth
  /\ \A k \in DOMAIN undo : undo[k].cursor <= Len(undo[k].buf)

(* The values that undo can return to, and the one being edited.           *)
values == Append([k \in DOMAIN undo |-> undo[k].buf], buf)

(* Ctrl+Z walks back through exactly the values the edit went through, one *)
(* change at a time - replacing a selection and a paste of any length are  *)
(* one change each - and no further than UNDO_DEPTH of them (EditHistory's *)
(* record, insert, remove_one and undo).                                   *)
Log == INSTANCE UndoLog WITH states <- values, Values <- Buffers, Depth <- UndoDepth
UndoWalksBack == Log!Spec

(* A cut moves the items, however the selection was made and even if it    *)
(* ends in half an octet: pasting at once, where the cursor is left, gives *)
(* back the buffer that was cut (App::cut_selection), unless what was cut  *)
(* holds characters that a text editor does not paste.                     *)
pastedWhole(text) ==
  \A k \in DOMAIN text : ~dropped(text[k]) /\ ~(KeepsNewlines /\ text[k] = Return)
CutCanBePastedBack ==
  [][Cut /\ pastedWhole(clipboard') =>
       buf = SubSeq(buf', 1, cursor') \o taken(clipboard') \o SubSeq(buf', cursor' + 1, Len(buf'))]_vars

(* What undo marks as brought back is all that it brought back: without it *)
(* the restored buffer is the head and the tail of the one that was undone *)
(* (restored_range, for an undo that lengthens the buffer).                *)
UndoMarksTheRestored ==
  [][Undo /\ Len(buf') > Len(buf) =>
       LET from == fresh'[1]
           to == fresh'[2]
           back == Len(buf') - to
       IN /\ from + back <= Len(buf)
          /\ SubSeq(buf', 1, from) = SubSeq(buf, 1, from)
          /\ SubSeq(buf', to + 1, Len(buf')) = SubSeq(buf, Len(buf) - back + 1, Len(buf))]_vars

(* What is marked as just inserted is not selected: selecting ends the     *)
(* marking, and inserting leaves nothing selected.                         *)
FreshIsNeverSelected == fresh # None => ~selected

(* Typing marks what was typed, and keeps the marks there were, but never  *)
(* marks an item that was in the buffer unmarked.                          *)
FreshMarksOnlyInsertions ==
  [][InsertChar =>
       Range(SubSeq(buf', fresh'[1] + 1, fresh'[2])) \subseteq
         Typed \cup Range(SubSeq(buf, fresh[1] + 1, fresh[2]))]_vars

(* A text editor takes the characters of the clipboard as they are.        *)
PasteTakesAll ==
  [][Paste => SubSeq(buf', cursor' - Len(clipboard) + 1, cursor') = clipboard]_vars

(* Undo marks whatever reappeared as newly added.                          *)
UndoMarksWhatReappears ==
  [][Undo => Range(buf') \ Range(buf) \subseteq Range(SubSeq(buf', fresh'[1] + 1, fresh'[2]))]_vars
=============================================================================
