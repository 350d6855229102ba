--------------------------- MODULE MCEditHistory ---------------------------
(* A small value of three items, and what another program may have copied. *)
EXTENDS EditHistory
CONSTANTS a, b, x

Word == <<a, b>>
Foreign == {<<x, x>>}

\* A word and the end of its line.
ForeignLine == {<<x, Return, LineFeed>>}
=============================================================================
