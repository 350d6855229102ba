------------------------------- MODULE Vault -------------------------------
(***************************************************************************)
(* What editing a revealed container promises: its secrets are changed one *)
(* at a time and in place, and the container leaves such an edit with an   *)
(* integrity check that fits and with all of it shown, or nothing.  The    *)
(* secret that changes is the one that was edited, unless a password shows *)
(* a part of the container only: then one that stayed locked before it may *)
(* be hit.  Whatever is edited outside of the revealed content is the      *)
(* user's own.                                                             *)
(***************************************************************************)
EXTENDS Naturals, Sequences

CONSTANT Secret

VARIABLES secrets,  \* the content of each encrypted region
          shown,    \* the regions whose content is shown
          locked,   \* those that stay hidden beside the shown ones
          fits,     \* the integrity check fits, or the container has none
          author    \* what changed the document last: "inside", "outside", "nobody"

vars == <<secrets, shown, locked, fits, author>>

Init ==
  /\ secrets \in Seq(Secret)
  /\ shown = {} /\ locked = {}
  /\ fits \in BOOLEAN
  /\ author = "nobody"

(* A password or a key shows some of the regions, and changes nothing.     *)
Show ==
  /\ shown' \subseteq DOMAIN secrets
  /\ locked' \subseteq DOMAIN secrets \ shown'
  /\ UNCHANGED <<secrets, fits, author>>

(* The region that an edit of a shown one replaces.                        *)
hits(j, i) == i = j \/ (i < j /\ \E l \in locked : l <= i)

EditShown(j, i, s) ==
  /\ j \in shown
  /\ i \in shown \cup locked
  /\ hits(j, i)
  /\ secrets' = [secrets EXCEPT ![i] = s]
  /\ fits'
  /\ author' = "inside"
  /\ shown' \subseteq DOMAIN secrets
  /\ locked' = {}

EditAround ==
  /\ secrets' \in Seq(Secret)
  /\ shown' \subseteq DOMAIN secrets'
  /\ locked' = {}
  /\ fits' \in BOOLEAN
  /\ author' = "outside"

(* Another document takes this one's place.                                *)
Switch ==
  /\ secrets' \in Seq(Secret)
  /\ shown' = {} /\ locked' = {}
  /\ fits' \in BOOLEAN
  /\ author' = "nobody"

Next ==
  \/ Show
  \/ \E j \in shown, i \in DOMAIN secrets, s \in Secret : EditShown(j, i, s)
  \/ EditAround
  \/ Switch

Spec == Init /\ [][Next]_vars
=============================================================================
