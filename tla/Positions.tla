----------------------------- MODULE Positions -----------------------------
(***************************************************************************)
(* Sets of positions, and the part of a sequence that lies at them: what   *)
(* Iterator::filter and Vec::retain leave of it, in its order.             *)
(***************************************************************************)
EXTENDS Naturals, FiniteSets, Sequences

(* The k-th position of a set.                                             *)
countTo(I, i) == Cardinality({j \in I : j <= i})
nth(I, k) == CHOOSE i \in I : countTo(I, i) = k

inOrder(I) == [k \in 1 .. Cardinality(I) |-> nth(I, k)]

(* What is left of a sequence when only the elements of a kind are kept.   *)
retain(s, P(_)) ==
  LET kept[n \in 0 .. Len(s)] ==
        IF n = 0 THEN <<>>
        ELSE IF P(s[n]) THEN Append(kept[n - 1], s[n]) ELSE kept[n - 1]
  IN kept[Len(s)]
=============================================================================
