------------------------------ MODULE MCRekey ------------------------------
(***************************************************************************)
(* The instance of Rekey that TLC checks.                                  *)
(***************************************************************************)
EXTENDS Rekey, TLC

CONSTANTS root, cert, crl, plain, xmss, ca, key1, key2, key3

\* Each key has an algorithm of its own.
EachItsOwn == [k \in Keys \cup {Authority} |-> k]
=============================================================================
