----------------------------- MODULE MCDialogs -----------------------------
(* Small certificates, keys and algorithms for the dialogs.                *)
EXTENDS Dialogs

seq(content) == tlv(48, content)
algorithm == seq(tlv(6, <<42, 3>>))
spki == seq(algorithm \o tlv(3, <<0, 4>>))
certificate(version, extensions) ==
  seq(seq(version \o tlv(2, <<1>>) \o algorithm \o seq(<<>>) \o seq(<<>>) \o seq(<<>>) \o spki
            \o tlv(163, seq(extensions)))
      \o algorithm \o tlv(3, <<0, 1>>))

extension(id, critical, value) ==
  seq(tlv(6, <<85, 29, id>>) \o critical \o tlv(4, value))
NotCritical == <<>>
Critical == tlv(1, <<255>>)

V3 == tlv(160, tlv(2, <<2>>))
ServerAuth == tlv(6, <<43, 6, 1, 5, 5, 7, 3, 1>>)
Other == tlv(6, <<42, 7>>)

bc(content) == extension(19, Critical, seq(content))
True == tlv(1, <<255>>)
Ca == bc(True \o tlv(2, <<1>>))
NoCa == extension(19, NotCritical, seq(<<>>))
Below == bc(True \o tlv(2, <<255>>))
Above == bc(True \o tlv(2, <<1, 0, 0, 0, 0>>))
Large == bc(True \o tlv(2, <<0, 255, 255, 255, 255>>))
LengthOnly == bc(tlv(1, <<0>>) \o tlv(2, <<0, 3>>))
Usage == extension(15, Critical, tlv(3, <<1, 6>>))
LongUsage == extension(15, NotCritical, tlv(3, <<7, 0, 128>>))
UnknownUsage == extension(15, NotCritical, tlv(3, <<6, 128, 192>>))
ExtUsage == extension(37, NotCritical, seq(Other \o ServerAuth))
SortedUsage == extension(37, NotCritical, seq(ServerAuth \o Other))
Broken == extension(37, NotCritical, seq(Other \o tlv(6, <<42, 128>>) \o tlv(6, <<43, 128, 6>>) \o Other))
Unreadable == extension(37, NotCritical, <<5, 0>>)

Certificates ==
  {certificate(V3, Ca \o Usage \o ExtUsage), seq(NoCa \o LongUsage \o Unreadable),
   seq(Below \o UnknownUsage \o SortedUsage), seq(Above \o Broken), seq(Large \o LengthOnly)}
OddCertificates == {certificate(V3, Below \o UnknownUsage)}

Texts == {<<5>>, <<1, Dot, 2, Dot, 7>>, <<2, Dot>>, <<2, Dot, 5, Dot, 2, 9, Dot, 3, 7, Dot, 0>>}

SmallFamilies ==
  <<[members |-> <<"p256">>, default |-> 0, custom |-> FALSE],
    [members |-> <<"rsa2048">>, default |-> 0, custom |-> TRUE],
    [members |-> <<"hsslms">>, default |-> 0, custom |-> FALSE]>>
SmallSigAlg ==
  [p256 |-> "ecdsa-sha256", rsa2048 |-> "rsa", rsaCustom |-> "rsa",
   hsslms |-> "hsslms"]

(* A key re-keyed to before is under the default name of its algorithm.    *)
EarlierName == <<shortName([name |-> "p256", bits |-> 0])>>
SmallKeyFiles ==
  <<[path |-> EarlierName, key |-> "K1"], [path |-> <<typed("r")>>, key |-> "K2"]>>
SmallUnlocked ==
  <<[path |-> <<typed("u")>>, key |-> "K3", kind |-> "encrypted", dn |-> "d"],
    [path |-> <<typed("p")>>, key |-> "K4", kind |-> "pkcs12", dn |-> "e"]>>
SmallKeyAlg == [K1 |-> "ecdsa-sha256", K2 |-> "rsa", K3 |-> "rsa", K4 |-> "ecdsa-sha256"]
SomeVanish == {<<typed("r")>>}
Issued == <<"x">>
=============================================================================
