------------------------------ MODULE MCReveal ------------------------------
(***************************************************************************)
(* The instances of Reveal that TLC checks: an encrypted key, a container  *)
(* of two regions with the given passwords, a message to the encrypted key *)
(* and a plaintext key.                                                    *)
(***************************************************************************)
EXTENDS Reveal, TLC

CONSTANTS key1, key2, attr1, attr2, encKey, store, message, plainKey, pwA, pwB

cipherOf(p, k) == [password |-> p, iv |-> 0, plain |-> <<[sequence |-> TRUE, body |-> k]>>]
regionOf(kind, p, k) == [kind |-> kind, scheme |-> "supported", iv |-> 0, cipher |-> cipherOf(p, k)]
container(shape, regions, clear, mac) ==
  [shape |-> shape, regions |-> regions, clear |-> clear, mac |-> mac,
   digest |-> [password |-> pwA, over |-> [regions |-> regions, clear |-> clear]]]

filesWith(first, second) ==
  encKey :> container("pkcs8", <<regionOf("ShroudedKey", pwA, key1)>>, attr1, "absent")
  @@ store :> container("pkcs12", <<regionOf("EncryptedContent", first, key2),
                                    regionOf("ShroudedKey", second, key2)>>, attr1, "supported")
  @@ message :> container("cms", <<regionOf("EncryptedContent", key1, key2)>>, attr1, "absent")
  @@ plainKey :> container("key", <<>>, key2, "absent")

(* What is edited of the serialized document.  A damaged ciphertext leaves *)
(* a container half locked.                                                *)
AnyPart ==
  {"pkcs8", "cms"} \X {"clear", "iv", "damage", "scheme", "remove"}
    \cup {"pkcs12"} \X {"clear", "damage", "scheme", "remove", "move", "mac", "digest"}
OnlyClear == {"pkcs12"} \X {"clear"}

OnePassword == filesWith(pwA, pwA)
TwoPasswords == filesWith(pwB, pwA)
=============================================================================
