---------------------------- MODULE MCRelations ----------------------------
(***************************************************************************)
(* The instances of Relations that TLC checks: a root, a certificate it    *)
(* issued, and a third file, which is a CRL, a message or a private key.   *)
(***************************************************************************)
EXTENDS Relations, TLC

CONSTANTS root, leaf, third, k1, k2, dn1, dn2

signature(s, by) == [by |-> by, over |-> tbs(s)]
signed(s, by) == [s EXCEPT !.signature = signature(s, by)]
blank == [by |-> k1, over |-> [body |-> {}, issuer |-> dn1]]

certificate(subject, issuer, serial, key, aki, ski) ==
  [kind |-> "certificate", subject |-> subject, issuer |-> issuer, serial |-> serial, key |-> key,
   aki |-> aki, ski |-> ski, known |-> TRUE, signature |-> blank]

Root == signed(certificate(dn1, dn1, 1, k1, None, k1), k1)
Rekeyed == [Root EXCEPT !.key = k2, !.ski = k2]
Leaf == signed(certificate(dn2, dn1, 2, k2, k1, None), k1)
Altered == [Leaf EXCEPT !.issuer = dn2, !.aki = None]
Foreign == [Leaf EXCEPT !.known = FALSE]
Revocation == signed([kind |-> "crl", issuer |-> dn1, revoked |-> {2}, aki |-> None,
                      known |-> TRUE, signature |-> blank], k1)
Unrevoked == [Revocation EXCEPT !.revoked = {}]
Mail == signed([kind |-> "message", issuer |-> dn1, serial |-> 2, content |-> dn1, digest |-> dn1,
                known |-> TRUE, signature |-> blank], k2)
Changed == [Mail EXCEPT !.content = dn2]
Key(k) == [kind |-> "key", key |-> k, usable |-> TRUE]
Broken == [Key(k2) EXCEPT !.usable = FALSE]
Sealed(k) == [kind |-> "encrypted", key |-> k]
Blank == [kind |-> "other"]

holding(content) == root :> Root @@ leaf :> Leaf @@ third :> content
WithCrl == holding(Revocation)
WithMail == holding(Mail)
WithKey == holding(Key(k2))

RootVariants == {<<Root, Rekeyed>>, <<Root, Absent>>, <<Absent, Root>>, <<Root, Blank>>}
LeafVariants == {<<Leaf, Altered>>, <<Leaf, Foreign>>, <<Leaf, Absent>>}
CrlVariants == RootVariants \cup LeafVariants \cup {<<Revocation, Unrevoked>>}
MailVariants == RootVariants \cup LeafVariants \cup {<<Mail, Changed>>}
KeyVariants ==
  RootVariants \cup {<<Key(k2), Broken>>, <<Key(k2), Key(k1)>>, <<Key(k2), Sealed(k2)>>,
                     <<Sealed(k2), Sealed(k1)>>}
All == {WithCrl, WithMail, WithKey}
AllVariants == CrlVariants \cup MailVariants \cup KeyVariants
Order == <<leaf, third, root>>
=============================================================================
