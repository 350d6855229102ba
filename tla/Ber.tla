-------------------------------- MODULE Ber --------------------------------
(***************************************************************************)
(* The BER decoder and DER encoder (src/ber.rs), octet for octet.          *)
(*                                                                         *)
(* An octet is a number.  A tag number is the sequence of its 7-bit        *)
(* groups, most significant first, with no leading zero: TLC's numbers are *)
(* too narrow for the code's 32 bits.  A length that two octets cannot     *)
(* hold is TooLong, which exceeds every input, unless the code's 64 bits   *)
(* cannot hold its sum with the size of a header: 2^64 - k is -k then.     *)
(* Offsets, which only errors and the display use, are left out.           *)
(***************************************************************************)
EXTENDS Naturals, Integers, Sequences, SequencesExt

CONSTANTS MaxDepth,       \* MAX_DEPTH of the decoder
          OverflowChecks  \* does a sum that overflows panic, as in a debug build?
ASSUME BerAssumption == MaxDepth \in Nat /\ OverflowChecks \in BOOLEAN

Octet == 0 .. 255
TooLong == 65536

Classes == {"universal", "application", "context", "private"}

\* ber::Node; expanded is whether the tree shows the children.
node(class, tag, constructed, value, children) ==
  [class |-> class, tag |-> tag, constructed |-> constructed, indefinite |-> FALSE,
   value |-> value, children |-> children, encapsulates |-> FALSE, expanded |-> TRUE]

BitString == <<3>>
OctetString == <<4>>
SequenceTag == <<16>>
SetTag == <<17>>
isUniversal(n, tag) == n.class = "universal" /\ n.tag = tag

failed == [ok |-> FALSE, panics |-> FALSE]
panicked == [ok |-> FALSE, panics |-> TRUE]
dies(result) == ~result.ok /\ result.panics

magnitude(octets) == FoldLeft(LAMBDA n, b : 256 * n + b, 0, octets)

RECURSIVE significant(_)
significant(groups) ==
  IF groups = <<>> \/ Head(groups) # 0 THEN groups ELSE significant(Tail(groups))

-----------------------------------------------------------------------------
(* The groups of a high tag number: up to the first octet without the      *)
(* continuation bit, and at most five, of which 32 bits are kept.          *)
RECURSIVE highTag(_, _)
highTag(data, groups) ==
  IF Len(data) <= Len(groups) THEN failed
  ELSE LET b == data[Len(groups) + 1]
           read == Append(groups, b % 128)
       IN IF b < 128
          THEN [ok |-> TRUE, used |-> Len(read),
                tag |-> significant(IF Len(read) = 5 THEN [read EXCEPT ![1] = @ % 16] ELSE read)]
          ELSE IF Len(read) = 5 THEN failed ELSE highTag(data, read)

lengthOf(octets) ==
  LET len == significant(octets) IN
  IF Len(len) = 8 /\ (\A i \in 1 .. 7 : len[i] = 255) /\ len[8] >= 240 THEN len[8] - 256
  ELSE IF Len(len) > 2 THEN TooLong ELSE magnitude(len)

definite(len, used) == [ok |-> TRUE, indefinite |-> FALSE, len |-> len, used |-> used]

lengthField(data) ==
  IF data = <<>> THEN failed
  ELSE LET n == data[1] - 128 IN
       IF n < 0 THEN definite(data[1], 1)
       ELSE IF n = 0 THEN [ok |-> TRUE, indefinite |-> TRUE, len |-> 0, used |-> 1]
       ELSE IF n > 8 \/ Len(data) <= n THEN failed
       ELSE definite(lengthOf(SubSeq(data, 2, n + 1)), n + 1)

after(data, n) == SubSeq(data, n + 1, Len(data))

tagField(data) ==
  IF data[1] % 32 = 31 THEN highTag(Tail(data), <<>>)
  ELSE [ok |-> TRUE, used |-> 0, tag |-> significant(<<data[1] % 32>>)]

header(first, tag, length) ==
  IF ~length.ok THEN failed
  ELSE [ok |-> TRUE,
        class |-> CASE first < 64 -> "universal"
                    [] first \in 64 .. 127 -> "application"
                    [] first \in 128 .. 191 -> "context"
                    [] OTHER -> "private",
        tag |-> tag.tag,
        constructed |-> (first \div 32) % 2 = 1,
        indefinite |-> length.indefinite,
        size |-> 1 + tag.used + length.used,
        len |-> length.len]

headerAfter(tag, data) ==
  IF tag.ok THEN header(data[1], tag, lengthField(after(data, 1 + tag.used))) ELSE failed

parseHeader(data) ==
  IF data = <<>> \/ data[1] = 0 THEN failed ELSE headerAfter(tagField(data), data)

-----------------------------------------------------------------------------
noItem(size) == [ok |-> TRUE, nodes |-> <<>>, used |-> size]
followedBy(item, more) ==
  IF more.ok THEN [ok |-> TRUE, nodes |-> <<item.node>> \o more.nodes, used |-> item.used + more.used] ELSE more

RECURSIVE parseNode(_, _), parseForest(_, _), parseItems(_, _), itemsFrom(_, _, _), forestFrom(_, _, _)

(* Items up to the end-of-contents octets.                                 *)
parseItems(data, depth) ==
  IF Len(data) >= 2 /\ data[1] = 0 /\ data[2] = 0 THEN noItem(2)
  ELSE IF data = <<>> THEN failed
  ELSE itemsFrom(parseNode(data, depth), data, depth)

itemsFrom(item, data, depth) ==
  IF item.ok THEN followedBy(item, parseItems(after(data, item.used), depth)) ELSE item

(* Items that fill the data.                                               *)
parseForest(data, depth) ==
  IF data = <<>> THEN noItem(0) ELSE forestFrom(parseNode(data, depth), data, depth)

forestFrom(item, data, depth) ==
  IF item.ok THEN followedBy(item, parseForest(after(data, item.used), depth)) ELSE item

isOne(forest) == forest.ok /\ Len(forest.nodes) = 1

(* Where the content ends: from some lengths on the sum wraps around.      *)
endOf(h) == h.size + h.len
wraps(h) == h.len < 0 /\ endOf(h) >= 0

(* Does a value look like one nested item that fills it?                   *)
looksNested(h, content) ==
  /\ h.ok
  /\ h.class \in {"universal", "context"}
  /\ IF h.indefinite
     THEN h.class = "universal" /\ h.tag = SequenceTag /\ isOne(parseForest(content, 0))
     ELSE /\ endOf(h) = Len(content)
          /\ Len(h.tag) = 1 /\ h.tag[1] <= 49
          /\ h.constructed => h.tag \in {SequenceTag, SetTag}

checkEncapsulate(content) == Len(content) >= 2 /\ looksNested(parseHeader(content), content)

(* The question itself may end the program.                                *)
checkDies(h, content) ==
  /\ h.ok
  /\ h.class \in {"universal", "context"}
  /\ IF h.indefinite
     THEN h.class = "universal" /\ h.tag = SequenceTag /\ dies(parseForest(content, 0))
     ELSE OverflowChecks /\ wraps(h)

(* The octets of a primitive value that may be nested items: of a BIT      *)
(* STRING those after the count of unused bits, when there are enough.     *)
nested(n) ==
  IF isUniversal(n, OctetString) THEN n.value
  ELSE IF isUniversal(n, BitString) /\ Len(n.value) > 5 THEN Tail(n.value) ELSE <<>>

encapsulated(content, depth) ==
  IF Len(content) >= 2 /\ checkDies(parseHeader(content), content) THEN panicked
  ELSE IF checkEncapsulate(content) THEN parseForest(content, depth) ELSE failed

withItems(n, items, used) ==
  IF items.ok THEN [ok |-> TRUE, node |-> [n EXCEPT !.children = items.nodes], used |-> used] ELSE items

withEncapsulated(n, inner, used) ==
  IF dies(inner) THEN inner
  ELSE [ok |-> TRUE, used |-> used,
        node |-> IF inner.ok THEN [n EXCEPT !.encapsulates = TRUE, !.children = inner.nodes] ELSE n]

indefiniteNode(n, items, size) ==
  withItems([n EXCEPT !.indefinite = TRUE], items, IF items.ok THEN size + items.used ELSE 0)

definiteNode(n, content, used, depth) ==
  IF n.constructed THEN withItems(n, parseForest(content, depth), used)
  ELSE LET primitive == [n EXCEPT !.value = content]
       IN withEncapsulated(primitive, encapsulated(nested(primitive), depth), used)

(* A sum that wrapped around passes for an end before the content begins:  *)
(* the slice panics, if the addition has not.                              *)
nodeAfter(h, data, depth) ==
  LET n == node(h.class, h.tag, h.constructed, <<>>, <<>>) IN
  IF ~h.ok THEN failed
  ELSE IF h.indefinite
  THEN IF h.constructed THEN indefiniteNode(n, parseItems(after(data, h.size), depth), h.size) ELSE failed
  ELSE IF wraps(h) THEN panicked
  ELSE IF h.len < 0 \/ endOf(h) > Len(data) THEN failed
  ELSE definiteNode(n, SubSeq(data, h.size + 1, endOf(h)), endOf(h), depth)

parseNode(data, depth) ==
  IF depth > MaxDepth THEN failed ELSE nodeAfter(parseHeader(data), data, depth + 1)

parse(data) == parseForest(data, 0)

-----------------------------------------------------------------------------
lowForm(tag) == tag = <<>> \/ (Len(tag) = 1 /\ tag[1] < 31)

continued(groups) == [i \in DOMAIN groups |-> IF i = Len(groups) THEN groups[i] ELSE groups[i] + 128]

writeIdentifier(class, tag, constructed) ==
  LET classBits == CASE class = "universal" -> 0 [] class = "application" -> 64
                     [] class = "context" -> 128 [] class = "private" -> 192
      bits == classBits + IF constructed THEN 32 ELSE 0
  IN IF lowForm(tag) THEN <<bits + magnitude(tag)>> ELSE <<bits + 31>> \o continued(tag)

\* Mutant of shortForm: one octet is taken to hold 128, too.
shortFormTo128(len) == len <= 128
shortForm(len) == len < 128

writeLength(len) ==
  IF shortForm(len) THEN <<len>>
  ELSE IF len < 256 THEN <<129, len>> ELSE <<130, len \div 256, len % 256>>

RECURSIVE encodeNode(_)
encodeForest(nodes) == FlattenSeq([i \in DOMAIN nodes |-> encodeNode(nodes[i])])

(* What a node holds now: that of the nested items, when it has any.  A    *)
(* BIT STRING keeps its count of unused bits.                              *)
contentOctets(n) ==
  IF n.constructed THEN encodeForest(n.children)
  ELSE IF n.encapsulates
  THEN (IF isUniversal(n, BitString) THEN <<Head(n.value)>> ELSE <<>>) \o encodeForest(n.children)
  ELSE n.value

encodeNode(n) ==
  LET content == contentOctets(n)
  IN writeIdentifier(n.class, n.tag, n.constructed) \o writeLength(Len(content)) \o content

-----------------------------------------------------------------------------
(* INTEGER values: two's complement, in as few octets as possible.  The    *)
(* text of one is a sequence of digits, perhaps with a Minus before them.  *)
Minus == 10

\* The digits of factor * n + carry; zero has none.
RECURSIVE scaled(_, _, _, _)
scaled(n, base, factor, carry) ==
  IF n = <<>> /\ carry = 0 THEN <<>>
  ELSE LET sum == carry + IF n = <<>> THEN 0 ELSE factor * Last(n)
       IN Append(scaled(IF n = <<>> THEN n ELSE Front(n), base, factor, sum \div base), sum % base)

inBase(digits, from, to) == FoldLeft(LAMBDA n, digit : scaled(n, to, from, digit), <<>>, digits)

negated(octets) == scaled([i \in DOMAIN octets |-> 255 - octets[i]], 256, 1, 1)

integerDecimal(octets) ==
  LET negative == octets[1] >= 128
      digits == inBase(IF negative THEN negated(octets) ELSE octets, 256, 10)
  IN (IF negative THEN <<Minus>> ELSE <<>>) \o (IF digits = <<>> THEN <<0>> ELSE digits)

\* Mutant of fits: the lowest number of a width is not told apart.
fitsUnsigned(mag, negative) == mag[1] < 128
fits(mag, negative) ==
  mag[1] < 128 \/ (negative /\ mag[1] = 128 /\ \A i \in 2 .. Len(mag) : mag[i] = 0)

encodeIntegerDecimal(text) ==
  LET negative == text # <<>> /\ text[1] = Minus
      digits == IF negative THEN Tail(text) ELSE text
      mag == inBase(digits, 10, 256)
      grown == IF fits(mag, negative) THEN mag ELSE <<0>> \o mag
  IN IF digits = <<>> \/ Minus \in ToSet(digits) THEN failed
     ELSE [ok |-> TRUE,
           octets |-> IF mag = <<>> THEN <<0>> ELSE IF negative THEN negated(grown) ELSE grown]

(* OBJECT IDENTIFIERs: the first two arcs share a sub-identifier.          *)
RECURSIVE base128(_)
base128(n) == IF n < 128 THEN <<n>> ELSE Append(base128(n \div 128), n % 128)

pushBase128(n) == continued(base128(n))

encodeOid(arcs) ==
  IF Len(arcs) < 2 \/ arcs[1] > 2 \/ (arcs[1] < 2 /\ arcs[2] >= 40) THEN failed
  ELSE [ok |-> TRUE,
        octets |-> pushBase128(40 * arcs[1] + arcs[2])
                     \o FlattenSeq([i \in 1 .. Len(arcs) - 2 |-> pushBase128(arcs[i + 2])])]

\* Mutant of firstArcs: the second arc is below 40 under every first one.
firstArcsBelow40(sub) == <<sub \div 40, sub % 40>>
firstArcs(sub) ==
  IF sub < 40 THEN <<0, sub>> ELSE IF sub < 80 THEN <<1, sub - 40>> ELSE <<2, sub - 80>>

RECURSIVE subIdentifiers(_, _)
subIdentifiers(octets, sub) ==
  IF octets = <<>> THEN <<>>
  ELSE LET n == 128 * sub + (Head(octets) % 128) IN
       IF Head(octets) < 128 THEN <<n>> \o subIdentifiers(Tail(octets), 0)
       ELSE subIdentifiers(Tail(octets), n)

oidArcs(octets) ==
  IF octets = <<>> \/ Last(octets) >= 128 THEN failed
  ELSE LET subs == subIdentifiers(octets, 0) IN [ok |-> TRUE, arcs |-> firstArcs(subs[1]) \o Tail(subs)]
=============================================================================
