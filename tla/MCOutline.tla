----------------------------- MODULE MCOutline -----------------------------
(***************************************************************************)
(* The instances of Outline that TLC checks: a document with an octet      *)
(* string around a value, an encrypted key, a container of two regions, a  *)
(* message whose ciphertext comes in segments, and an empty file.  A       *)
(* SEQUENCE that starts with "b" is of a known type.                       *)
(***************************************************************************)
EXTENDS Outline, TLC

CONSTANTS plain, encKey, store, message, empty, a, b

trees(nodes) == putSiblings(<<>>, <<>>, nodes)
over(n, nodes) == putSiblings(leaf(n), <<>>, nodes)

value(id, says) == leaf(node(id, says, FALSE, "none", <<>>))
seq(id, nodes) == over(node(id, <<>>, TRUE, "none", <<>>), nodes)
wrapped(id, nodes) == over([node(id, <<>>, FALSE, "none", <<>>) EXCEPT !.encapsulates = TRUE], nodes)
octets(id, cipher, secret) == leaf(node(id, <<>>, FALSE, cipher, trees(secret)))
segments(id, secret) ==
  over(node(id, <<>>, TRUE, "cms", trees(secret)), <<value(id + 1, <<b>>)>>)

documents ==
  plain :> <<seq(1, <<value(2, <<a, b>>), wrapped(3, <<value(4, <<b>>)>>), seq(5, <<value(6, <<>>)>>)>>)>>
  @@ encKey :> <<seq(1, <<seq(2, <<value(3, <<b>>)>>),
                          octets(4, "pkcs8", <<seq(5, <<value(6, <<a>>), wrapped(7, <<value(8, <<b>>)>>)>>)>>)>>)>>
  @@ store :> <<seq(1, <<value(2, <<b>>),
                         seq(3, <<octets(4, "pkcs12", <<seq(5, <<value(6, <<a>>)>>)>>),
                                  octets(7, "pkcs12", <<seq(8, <<value(9, <<b>>)>>)>>)>>)>>)>>
  @@ message :> <<seq(1, <<value(2, <<a>>), segments(3, <<value(5, <<a>>)>>)>>)>>
  @@ empty :> <<>>

MCStartup == [f \in DOMAIN documents |-> trees(documents[f])]

MCLabels(forest) ==
  IF arity(forest, <<>>) = 1 /\ <<1, 1>> \in DOMAIN forest /\ forest[<<1, 1>>].says = <<b>>
  THEN {[path |-> <<1>>, word |-> <<a, a>>], [path |-> <<1, 1>>, word |-> <<b, a>>]}
  ELSE {}
=============================================================================
