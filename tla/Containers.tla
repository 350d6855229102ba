----------------------------- MODULE Containers -----------------------------
(***************************************************************************)
(* The containers a file can have around its BER (src/input.rs), and how   *)
(* pasted data is read (src/clipboard.rs).  A text is the sequence of its  *)
(* ASCII codes: whether a file is read as text or as BER depends on them.  *)
(* Other UTF-8 texts are left out, as no container has any.                *)
(***************************************************************************)
EXTENDS Ber

isText(octets) == \A i \in DOMAIN octets : octets[i] < 128

Newline == 10
White == {9, 10, 11, 12, 13, 32}
stripped(text) == SelectSeq(text, LAMBDA c : c \notin White)

Dash5 == <<45, 45, 45, 45, 45>>
Begin == Dash5 \o <<66, 69, 71, 73, 78, 32>>
End == Dash5 \o <<69, 78, 68, 32>>

find(part, text) ==
  LET at == {i \in 1 .. Len(text) - Len(part) + 1 : SubSeq(text, i, i + Len(part) - 1) = part}
  IN IF at = {} THEN 0 ELSE CHOOSE i \in at : \A j \in at : i <= j

-----------------------------------------------------------------------------
isHexDigit(c) == c \in (48 .. 57) \cup (65 .. 70) \cup (97 .. 102)
hexValue(c) == IF c < 58 THEN c - 48 ELSE IF c < 71 THEN c - 55 ELSE c - 87
lowerHex(v) == IF v < 10 THEN 48 + v ELSE 87 + v

hexDecode(text) ==
  IF Len(text) % 2 # 0 \/ \E i \in DOMAIN text : ~isHexDigit(text[i]) THEN failed
  ELSE [ok |-> TRUE,
        octets |-> [i \in 1 .. Len(text) \div 2 |-> 16 * hexValue(text[2 * i - 1]) + hexValue(text[2 * i])]]

hexEncode(octets) ==
  FlattenSeq([i \in DOMAIN octets |-> <<lowerHex(octets[i] \div 16), lowerHex(octets[i] % 16)>>])

letter(v) ==
  IF v < 26 THEN 65 + v ELSE IF v < 52 THEN 71 + v ELSE IF v < 62 THEN v - 4
  ELSE IF v = 62 THEN 43 ELSE 47
isLetter(c) == c \in (65 .. 90) \cup (97 .. 122) \cup (48 .. 57) \cup {43, 47}
letterValue(c) ==
  CASE c \in 65 .. 90 -> c - 65 [] c \in 97 .. 122 -> c - 71 [] c \in 48 .. 57 -> c + 4
    [] c = 43 -> 62 [] c = 47 -> 63

chunks(data, n) ==
  [i \in 1 .. (Len(data) + n - 1) \div n |->
     SubSeq(data, n * (i - 1) + 1, IF n * i < Len(data) THEN n * i ELSE Len(data))]

padded(chunk, n) == chunk \o [i \in 1 .. n - Len(chunk) |-> 0]

b64EncodeChunk(chunk) ==
  LET n == magnitude(padded(chunk, 3)) IN
  <<letter(n \div 262144), letter((n \div 4096) % 64),
    IF Len(chunk) > 1 THEN letter((n \div 64) % 64) ELSE 61,
    IF Len(chunk) > 2 THEN letter(n % 64) ELSE 61>>

b64Encode(octets) ==
  LET parts == chunks(octets, 3) IN FlattenSeq([i \in DOMAIN parts |-> b64EncodeChunk(parts[i])])

RECURSIVE unpadded(_)
unpadded(text) == IF text # <<>> /\ Last(text) = 61 THEN unpadded(Front(text)) ELSE text

b64DecodeChunk(chunk) ==
  LET n == FoldLeft(LAMBDA v, c : 64 * v + c, 0,
                    padded([i \in DOMAIN chunk |-> letterValue(chunk[i])], 4))
  IN SubSeq(<<n \div 65536, (n \div 256) % 256, n % 256>>, 1, Len(chunk) - 1)

b64Decode(text) ==
  LET body == unpadded(text) IN
  IF Len(body) % 4 = 1 \/ \E i \in DOMAIN body : ~isLetter(body[i]) THEN failed
  ELSE [ok |-> TRUE,
        octets |-> FlattenSeq([i \in DOMAIN chunks(body, 4) |-> b64DecodeChunk(chunks(body, 4)[i])])]

-----------------------------------------------------------------------------
loaded(octets, container) == [ok |-> TRUE, octets |-> octets, container |-> container]
Raw == [kind |-> "raw"]
Hex == [kind |-> "hex"]
Base64 == [kind |-> "base64"]
Pem(label) == [kind |-> "pem", label |-> label]

(* The first block of a PEM file; whatever is around it is dropped.        *)
loadPem(text) ==
  LET rest == after(text, find(Begin, text) + Len(Begin) - 1)
      labelEnd == find(Dash5, rest)
      label == SubSeq(rest, 1, labelEnd - 1)
      bodyEnd == find(End \o label \o Dash5, rest)
      body == b64Decode(stripped(SubSeq(rest, labelEnd + 5, bodyEnd - 1)))
  IN IF labelEnd = 0 \/ bodyEnd < labelEnd + 5 THEN failed
     ELSE IF ~body.ok THEN failed ELSE loaded(body.octets, Pem(label))

(* Octets that are BER, or at which the decoder dies; else the next try.   *)
orElse(result, other) == IF result.ok \/ result.panics THEN result ELSE other

ofBer(result, octets, container) == IF result.ok THEN loaded(octets, container) ELSE result

attempt(decoded, container) ==
  IF decoded.ok THEN ofBer(parse(decoded.octets), decoded.octets, container) ELSE failed

loadText(text) ==
  orElse(IF text = <<>> THEN failed ELSE attempt(hexDecode(text), Hex), attempt(b64Decode(text), Base64))

load(raw) ==
  IF isText(raw) /\ find(Begin, raw) # 0 THEN loadPem(raw)
  ELSE orElse(ofBer(parse(raw), raw, Raw), IF isText(raw) THEN loadText(stripped(raw)) ELSE failed)

wrap(der, container) ==
  CASE container.kind = "raw" -> der
    [] container.kind = "hex" -> Append(hexEncode(der), Newline)
    [] container.kind = "base64" -> Append(b64Encode(der), Newline)
    [] container.kind = "pem" ->
         Begin \o container.label \o Dash5 \o <<Newline>>
           \o FlattenSeq([i \in DOMAIN chunks(b64Encode(der), 64) |->
                            Append(chunks(b64Encode(der), 64)[i], Newline)])
           \o End \o container.label \o Dash5 \o <<Newline>>

-----------------------------------------------------------------------------
(* clipboard::hex_digits: what a paste into the hex editor inserts.        *)
upper(c) == IF c >= 97 THEN c - 32 ELSE c
hexPairs(octets) == [i \in 1 .. 2 * Len(octets) |-> upper(hexEncode(octets)[i])]

hexDigits(data) ==
  LET text == stripped(data)
      base64 == b64Decode(text)
  IN IF isText(data) /\ text # <<>> /\ \A i \in DOMAIN text : isHexDigit(text[i])
     THEN [i \in DOMAIN text |-> upper(text[i])]
     ELSE IF isText(data) /\ text # <<>> /\ base64.ok /\ base64.octets # <<>>
     THEN hexPairs(base64.octets)
     ELSE hexPairs(data)
=============================================================================
