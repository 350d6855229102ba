------------------------------ MODULE UndoLog ------------------------------
(***************************************************************************)
(* What an editor's undo promises: the values an edit went through, newest *)
(* last.  A change appends one value, forgetting the oldest once Depth     *)
(* steps back are kept; an undo returns to exactly the value before.       *)
(***************************************************************************)
EXTENDS Naturals, Sequences

CONSTANTS Values,  \* what is edited
          Depth    \* how many changes can be walked back

VARIABLE states

newest == states[Len(states)]

Init == Len(states) = 1 /\ newest \in Values

Change ==
  /\ states' = Append(IF Len(states) > Depth THEN Tail(states) ELSE states, newest')
  /\ newest' \in Values

Undo == Len(states) > 1 /\ states' = SubSeq(states, 1, Len(states) - 1)

Next == Change \/ Undo

Spec == Init /\ [][Next]_states
=============================================================================
