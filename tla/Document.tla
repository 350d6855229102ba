------------------------------ MODULE Document ------------------------------
(***************************************************************************)
(* The open document of src/app.rs, octet for octet: loaded from its       *)
(* container, edited element by element, encoded and parsed again after    *)
(* every edit, named after the specifications, written back.               *)
(*                                                                         *)
(* A text of an editor is what it means: an OID is its arcs, a date its    *)
(* six numbers, a REAL a sequence of one number, or of none while the      *)
(* editor is empty; a character of an INTEGER is a digit or the minus      *)
(* sign, one of another text its Unicode scalar value.  What other         *)
(* programs do to the file, and revealed content, is in the modules        *)
(* Relations and Reveal.                                                   *)
(***************************************************************************)
EXTENDS Containers, Specs

CONSTANTS SpecFiles,   \* the specs directory: a sequence of [source, toks]
          Files,       \* what the file can hold
          HexTexts, Numbers, Reals, Oids, Dates, Texts,  \* what can be entered
          Pasted,      \* what can be pasted into the hex editor
          PickedTypes, \* what is chosen in the type picker: [class, tag, constructed]
          MaxEdits     \* bound: edits in a behaviour

VARIABLES running,   \* FALSE once a panic has ended the program
          specDb,    \* the types read when the editor started
          file,      \* what the file holds
          open,      \* file_open
          container, roots, ident, dirty,
          entered,   \* history: the value entered last: [path, format, text]
          edits      \* history: how many edits there were

vars == <<running, specDb, file, open, container, roots, ident, dirty, entered, edits>>

NotEntered == [format |-> "none"]  \* no value, or none that is known

-----------------------------------------------------------------------------
(* The tree.                                                               *)
RECURSIVE nodeAt(_, _), put(_, _, _), paths(_)
nodeAt(forest, path) ==
  IF Len(path) = 1 THEN forest[path[1]] ELSE nodeAt(forest[path[1]].children, Tail(path))

put(forest, path, n) ==
  IF Len(path) = 1 THEN [forest EXCEPT ![path[1]] = n]
  ELSE [forest EXCEPT ![path[1]].children = put(@, Tail(path), n)]

paths(forest) ==
  UNION {{<<i>>} \cup {<<i>> \o p : p \in paths(forest[i].children)} : i \in DOMAIN forest}

siblings(forest, parent) == IF parent = <<>> THEN forest ELSE nodeAt(forest, parent).children
putSiblings(forest, parent, nodes) ==
  IF parent = <<>> THEN nodes ELSE put(forest, parent, [nodeAt(forest, parent) EXCEPT !.children = nodes])

(* The folding goes by position.                                           *)
RECURSIVE copyExpanded(_, _)
copyExpanded(old, new) ==
  [i \in DOMAIN new |->
     IF i > Len(old) THEN new[i]
     ELSE [new[i] EXCEPT !.expanded = old[i].expanded, !.children = copyExpanded(old[i].children, @)]]

changed(forest) == [ok |-> TRUE, roots |-> forest]

\* Mutant of rebuilt: the edited tree is not parsed again.
rebuiltWithoutParsing(forest) == changed(forest)

(* Encoded and parsed again; an encoding that cannot be parsed is kept as  *)
(* it was edited.                                                          *)
reread(forest, fresh) ==
  IF dies(fresh) THEN fresh
  ELSE changed(IF fresh.ok THEN copyExpanded(forest, fresh.nodes) ELSE forest)

rebuilt(forest) == reread(forest, parse(encodeForest(forest)))

-----------------------------------------------------------------------------
(* The editors: what each starts with, and the octets it stands for.       *)
isDigit(c) == c \in 48 .. 57
twoDigits(text, i) == 10 * (text[i] - 48) + (text[i + 1] - 48)
digits2(n) == <<48 + (n \div 10), 48 + (n % 10)>>

UtcTime == <<23>>
GeneralizedTime == <<24>>
DefaultDate == <<2000, 1, 1, 0, 0, 0>>

century(yy) == IF yy < 50 THEN 2000 + yy ELSE 1900 + yy

datetimeFromValue(value, generalized) ==
  LET need == IF generalized THEN 15 ELSE 13
      rest == IF generalized THEN 4 ELSE 2
      year == IF generalized THEN 100 * twoDigits(value, 1) + twoDigits(value, 3)
              ELSE century(twoDigits(value, 1))
  IN IF Len(value) # need \/ Last(value) # 90 \/ \E i \in 1 .. need - 1 : ~isDigit(value[i])
     THEN DefaultDate
     ELSE <<year>> \o [i \in 1 .. 5 |-> twoDigits(value, rest + 2 * i - 1)]

datetimeToBytes(d, generalized) ==
  IF \/ IF generalized THEN d[1] > 9999 ELSE d[1] \notin 1950 .. 2049
     \/ d[2] \notin 1 .. 12 \/ d[3] \notin 1 .. 31 \/ d[4] > 23 \/ d[5] > 59 \/ d[6] > 59
  THEN failed
  ELSE [ok |-> TRUE,
        octets |-> (IF generalized THEN digits2(d[1] \div 100) ELSE <<>>) \o digits2(d[1] % 100)
                     \o FlattenSeq([i \in 1 .. 5 |-> digits2(d[i + 1])]) \o <<90>>]

(* A number in its shortest decimal form: d.ddd times ten to the exponent. *)
(* The word inf has octets of its own, but what is too large for the       *)
(* machine's numbers is written like a number, and so is the word nan.     *)
RECURSIVE decimal(_)
decimal(n) == IF n < 10 THEN <<48 + n>> ELSE Append(decimal(n \div 10), 48 + (n % 10))
signed(n) == IF n < 0 THEN <<45>> \o decimal(-n) ELSE decimal(n)

scientific(r) ==
  (IF r.negative THEN <<45>> ELSE <<>>)
    \o (IF r.exponent > 308 THEN <<105, 110, 102>>
        ELSE <<48 + Head(r.digits)>>
               \o (IF Len(r.digits) = 1 THEN <<>> ELSE <<46>> \o [i \in 1 .. Len(r.digits) - 1 |-> 48 + r.digits[i + 1]])
               \o <<69>> \o signed(r.exponent))

realToBytes(r) ==
  CASE r.is = "inf" -> <<IF r.negative THEN 65 ELSE 64>>
    [] r.is = "nan" -> <<3, 78, 97, 78>>
    [] r.is = "number" -> IF r.digits = <<0>> \/ r.exponent < -324 THEN <<>> ELSE <<3>> \o scientific(r)

(* Characters as octets, and back: what is no character is shown as the    *)
(* replacement character.                                                  *)
Replacement == 65533
HighSurrogates == 55296 .. 56319
LowSurrogates == 56320 .. 57343
Surrogates == HighSurrogates \cup LowSurrogates

utf8(c) ==
  IF c < 128 THEN <<c>>
  ELSE IF c < 2048 THEN <<192 + (c \div 64), 128 + (c % 64)>>
  ELSE IF c < 65536 THEN <<224 + (c \div 4096), 128 + ((c \div 64) % 64), 128 + (c % 64)>>
  ELSE <<240 + (c \div 262144), 128 + ((c \div 4096) % 64), 128 + ((c \div 64) % 64), 128 + (c % 64)>>

unit(n) == <<n \div 256, n % 256>>
utf16(c) ==
  IF c < 65536 THEN unit(c)
  ELSE unit(55296 + ((c - 65536) \div 1024)) \o unit(56320 + (c % 1024))
utf32(c) == <<0, c \div 65536>> \o unit(c % 65536)

utf8Len(lead) ==
  CASE lead < 128 -> 1 [] lead \in 194 .. 223 -> 2 [] lead \in 224 .. 239 -> 3
    [] lead \in 240 .. 244 -> 4 [] OTHER -> 0
utf8Second(lead) ==
  CASE lead = 224 -> 160 .. 191 [] lead = 237 -> 128 .. 159 [] lead = 240 -> 144 .. 191
    [] lead = 244 -> 128 .. 143 [] OTHER -> 128 .. 191

\* How many of the first octets are a character, or can begin one.
utf8Begun(octets) ==
  Max({1} \cup {k \in 2 .. utf8Len(octets[1]) :
                  /\ k <= Len(octets)
                  /\ \A i \in 2 .. k : octets[i] \in IF i = 2 THEN utf8Second(octets[1]) ELSE 128 .. 191})

RECURSIVE fromUtf8(_), fromUnits(_)
fromUtf8(octets) ==
  IF octets = <<>> THEN <<>>
  ELSE LET n == utf8Len(octets[1])
           begun == utf8Begun(octets)
           lead == octets[1] % (CASE n = 1 -> 128 [] n = 2 -> 32 [] n = 3 -> 16 [] n = 4 -> 8)
       IN <<IF begun # n THEN Replacement
            ELSE FoldLeft(LAMBDA c, octet : 64 * c + (octet % 64), lead, SubSeq(octets, 2, n))>>
            \o fromUtf8(after(octets, begun))

fromUnits(units) ==
  IF units = <<>> THEN <<>>
  ELSE IF Head(units) \notin Surrogates THEN <<Head(units)>> \o fromUnits(Tail(units))
  ELSE IF Head(units) \in HighSurrogates /\ Len(units) > 1 /\ units[2] \in LowSurrogates
  THEN <<65536 + 1024 * (units[1] - 55296) + units[2] - 56320>> \o fromUnits(after(units, 2))
  ELSE <<Replacement>> \o fromUnits(Tail(units))

fromUtf16(octets) == fromUnits([i \in DOMAIN chunks(octets, 2) |-> magnitude(padded(chunks(octets, 2)[i], 2))])

fromUtf32(octets) ==
  [i \in DOMAIN chunks(octets, 4) |->
     LET four == padded(chunks(octets, 4)[i], 4)
         c == magnitude(Tail(four))
     IN IF four[1] = 0 /\ c <= 1114111 /\ c \notin Surrogates THEN c ELSE Replacement]

toUtf8(text) == FlattenSeq([i \in DOMAIN text |-> utf8(text[i])])
isUtf8(octets) == toUtf8(fromUtf8(octets)) = octets

\* The editor that 'e' opens on a primitive value.
naturalFormat(n) ==
  CASE n.class # "universal" -> "value"
    [] n.tag \in {<<2>>, <<10>>} -> "integer"
    [] n.tag = <<9>> -> "real"
    [] n.tag = <<6>> -> "oid"
    [] n.tag = <<1>> -> "boolean"
    [] n.tag = UtcTime -> "utc"
    [] n.tag = GeneralizedTime -> "generalized"
    [] n.tag = <<28>> -> "utf32"
    [] n.tag = <<30>> -> "utf16"
    [] n.tag \in {<<t>> : t \in {7, 12} \cup (18 .. 22) \cup (25 .. 27)} -> "utf8"
    [] OTHER -> "value"

formats(n) ==
  {"hex", "base64", "raw"} \cup IF n.constructed \/ isUniversal(n, <<5>>) THEN {} ELSE {naturalFormat(n)}

(* The hex editor of the menu has the content as it is now, that of 'e'    *)
(* the octets that were read.                                              *)
initialText(n, format) ==
  CASE format = "hex" -> hexPairs(contentOctets(n))
    [] format = "base64" -> b64Encode(contentOctets(n))
    [] format = "raw" -> IF isUtf8(contentOctets(n)) THEN fromUtf8(contentOctets(n)) ELSE <<>>
    [] format = "value" -> hexPairs(n.value)
    [] format = "integer" -> IF n.value = <<>> THEN <<>> ELSE integerDecimal(n.value)
    [] format = "real" -> <<>>
    [] format = "oid" -> IF oidArcs(n.value).ok THEN oidArcs(n.value).arcs ELSE <<>>
    [] format = "boolean" -> n.value # <<>> /\ n.value[1] # 0
    [] format = "utc" -> datetimeFromValue(n.value, FALSE)
    [] format = "generalized" -> datetimeFromValue(n.value, TRUE)
    [] format = "utf8" -> fromUtf8(n.value)
    [] format = "utf16" -> fromUtf16(n.value)
    [] format = "utf32" -> fromUtf32(n.value)

good(octets) == [ok |-> TRUE, octets |-> octets]

toBytes(text, format) ==
  CASE format \in {"hex", "value"} -> hexDecode(text)
    [] format = "base64" -> b64Decode(stripped(text))
    [] format = "integer" -> encodeIntegerDecimal(text)
    [] format = "real" -> IF text = <<>> THEN failed ELSE good(realToBytes(text[1]))
    [] format = "oid" -> encodeOid(text)
    [] format = "boolean" -> good(IF text THEN <<255>> ELSE <<0>>)
    [] format = "utc" -> datetimeToBytes(text, FALSE)
    [] format = "generalized" -> datetimeToBytes(text, TRUE)
    [] format \in {"raw", "utf8"} -> good(toUtf8(text))
    [] format = "utf16" -> good(FlattenSeq([i \in DOMAIN text |-> utf16(text[i])]))
    [] format = "utf32" -> good(FlattenSeq([i \in DOMAIN text |-> utf32(text[i])]))

(* What can be entered; line breaks are for the raw editor only.           *)
texts(format) ==
  CASE format \in {"hex", "value"} -> HexTexts \cup {hexDigits(data) : data \in Pasted}
    [] format = "integer" -> Numbers
    [] format = "real" -> {<<number>> : number \in Reals}
    [] format = "oid" -> Oids
    [] format = "boolean" -> BOOLEAN
    [] format \in {"utc", "generalized"} -> Dates
    [] format = "base64" -> {b64Encode(hexDecode(text).octets) : text \in {t \in HexTexts : hexDecode(t).ok}}
    [] format = "raw" -> Texts
    [] format \in {"utf8", "utf16", "utf32"} -> {text \in Texts : Newline \notin ToSet(text)}

-----------------------------------------------------------------------------
(* Edits: the tree each leaves, before it is encoded and parsed again.     *)
\* The new content octets: of a constructed element they have to be items.
withItemsOf(n, items) ==
  IF items.ok THEN [ok |-> TRUE, node |-> [n EXCEPT !.children = items.nodes, !.value = <<>>]] ELSE items

withContent(n, octets) ==
  IF n.constructed THEN withItemsOf(n, parse(octets))
  ELSE [ok |-> TRUE, node |-> [n EXCEPT !.value = octets, !.children = <<>>, !.encapsulates = FALSE]]

replaced(forest, path, n) == IF n.ok THEN changed(put(forest, path, n.node)) ELSE n

withContentAt(forest, path, octets) == replaced(forest, path, withContent(nodeAt(forest, path), octets))

unfoldedAt(forest, path) ==
  IF path = <<>> THEN forest ELSE put(forest, path, [nodeAt(forest, path) EXCEPT !.expanded = TRUE])

withChild(forest, parent, index, n) ==
  IF n.ok
  THEN changed(unfoldedAt(putSiblings(forest, parent, InsertAt(siblings(forest, parent), index, n.node)), parent))
  ELSE n

inserted(forest, parent, index, type, octets) ==
  withChild(forest, parent, index,
            withContent(node(type.class, type.tag, type.constructed, <<>>, <<>>), octets))

hasType(n, type) == n.class = type.class /\ n.tag = type.tag /\ n.constructed = type.constructed

withType(n, type) ==
  [n EXCEPT !.class = type.class, !.tag = type.tag, !.constructed = type.constructed, !.encapsulates = FALSE]

retagged(forest, path, type) ==
  LET n == nodeAt(forest, path) IN
  IF hasType(n, type) THEN failed
  ELSE replaced(forest, path, withContent(withType(n, type), contentOctets(n)))

moved(forest, path, delta) ==
  LET among == siblings(forest, Front(path))
      at == Last(path)
  IN IF at + delta \notin DOMAIN among THEN failed
     ELSE changed(putSiblings(forest, Front(path),
                              [among EXCEPT ![at] = among[at + delta], ![at + delta] = among[at]]))

deleted(forest, path) ==
  changed(putSiblings(forest, Front(path), RemoveAt(siblings(forest, Front(path)), Last(path))))

(* Some universal types exist in one form only.                            *)
UniversalTypes == {<<t>> : t \in (1 .. 12) \cup (16 .. 28) \cup {30}}
forcedForm(type) ==
  IF type.class # "universal" THEN type
  ELSE IF type.tag \in {SequenceTag, SetTag} THEN [type EXCEPT !.constructed = TRUE]
  ELSE IF type.tag \in {<<1>>, <<2>>, <<5>>, <<6>>, <<9>>, <<10>>, <<23>>, <<24>>}
  THEN [type EXCEPT !.constructed = FALSE] ELSE type

pickable == {forcedForm(type) : type \in {t \in PickedTypes : t.class = "universal" => t.tag \in UniversalTypes}}

-----------------------------------------------------------------------------
Init ==
  /\ running = TRUE
  /\ specDb = loadDir(SpecFiles)
  /\ file \in Files
  /\ open = FALSE
  /\ container = Raw
  /\ roots = <<>>
  /\ ident = Unidentified
  /\ dirty = FALSE
  /\ entered = NotEntered
  /\ edits = 0

Dies ==
  /\ running' = FALSE
  /\ UNCHANGED <<specDb, file, open, container, roots, ident, dirty, entered, edits>>

opened(nodes, from) ==
  /\ open' = TRUE
  /\ container' = from
  /\ roots' = nodes
  /\ ident' = identify(specDb, roots')
  /\ dirty' = FALSE
  /\ entered' = NotEntered
  /\ UNCHANGED <<running, specDb, file, edits>>

Reads(input, items) ==
  \/ items.ok /\ opened(items.nodes, input.container)
  \/ dies(items) /\ Dies

Loads(input) == Reads(input, IF input.ok THEN parse(input.octets) ELSE input)

OpenFile == running /\ Loads(load(file))

becomes(result, value) ==
  \/ /\ result.ok
     /\ roots' = result.roots
     /\ ident' = identify(specDb, roots')
     /\ dirty' = TRUE
     /\ entered' = value
     /\ edits' = edits + 1
     /\ UNCHANGED <<running, specDb, file, open, container>>
  \/ dies(result) /\ Dies

Rebuild(edit, value) ==
  /\ running /\ open /\ edits < MaxEdits
  /\ becomes(IF edit.ok THEN rebuilt(edit.roots) ELSE edit, value)

commitBytes(path, format, text, bytes) ==
  /\ bytes.ok
  /\ Rebuild(withContentAt(roots, path, bytes.octets),
             [path |-> path, format |-> format, text |-> text, octets |-> bytes.octets])

CommitEdit(path, format, text) == commitBytes(path, format, text, toBytes(text, format))

CommitInsert(parent, index, type, text) ==
  LET bytes == toBytes(text, "hex") IN
  /\ bytes.ok
  /\ Rebuild(inserted(roots, parent, index, type, bytes.octets), NotEntered)

ApplyRetag(path, type) == Rebuild(retagged(roots, path, type), NotEntered)
MoveSelected(path, delta) == Rebuild(moved(roots, path, delta), NotEntered)
DeleteSelected(path) == Rebuild(deleted(roots, path), NotEntered)

Save ==
  /\ running /\ open
  /\ file' = wrap(encodeForest(roots), container)
  /\ dirty' = FALSE
  /\ UNCHANGED <<running, specDb, open, container, roots, ident, entered, edits>>

(* Where 'i' and 'I' insert: after an element, or as the first child.      *)
insertionPoints ==
  {<<Front(path), Last(path) + 1>> : path \in paths(roots)}
    \cup {<<path, 1>> : path \in {p \in paths(roots) :
                                    nodeAt(roots, p).constructed \/ nodeAt(roots, p).encapsulates}}
    \cup (IF roots = <<>> THEN {<<<<>>, 1>>} ELSE {})

Edit ==
  /\ running /\ open /\ edits < MaxEdits
  /\ \/ \E path \in paths(roots) : \E format \in formats(nodeAt(roots, path)) :
          \E text \in texts(format) : CommitEdit(path, format, text)
     \/ \E point \in insertionPoints, type \in pickable, text \in HexTexts :
          CommitInsert(point[1], point[2], type, text)
     \/ \E path \in paths(roots), type \in pickable : ApplyRetag(path, type)
     \/ \E path \in paths(roots), delta \in {-1, 1} : MoveSelected(path, delta)
     \/ \E path \in paths(roots) : DeleteSelected(path)

Next == OpenFile \/ Edit \/ Save

Spec == Init /\ [][Next]_vars

-----------------------------------------------------------------------------
(* Types and shapes: labels lie on elements, and only constructed elements *)
(* and values that look like nested items have any below them.             *)
TypeOK ==
  /\ container.kind \in {"raw", "hex", "base64", "pem"}
  /\ edits \in 0 .. MaxEdits
  /\ {label.path : label \in ident.labels} \subseteq paths(roots)
  /\ \A path \in paths(roots) :
       LET n == nodeAt(roots, path) IN
       /\ n.class \in Classes /\ n.value \in Seq(Octet)
       /\ n.constructed => n.value = <<>> /\ ~n.encapsulates
       /\ n.encapsulates => isUniversal(n, BitString) \/ isUniversal(n, OctetString)
       /\ n.children # <<>> => n.constructed \/ n.encapsulates

written == wrap(encodeForest(roots), container)

(* What 's' would write can be loaded again, is found to be in the same    *)
(* container, and is the same document (save, load; input.rs "so that      *)
(* saving writes the file back in the same outer format").  Of an empty    *)
(* document a hex text is left with a line break, and is not told apart.   *)
SavedFileReloads ==
  open /\ (roots # <<>> \/ container # Hex) => load(written) = loaded(encodeForest(roots), container)

(* What the editor encodes, it can parse (rebuild: "Should be unreachable:  *)
(* our own encoder output always parses.").                                *)
EncodingParses == parse(encodeForest(roots)).ok

(* After an edit the tree shows what a reader of the saved file will see,  *)
(* element for element: its type, its content as it is encoded now and the *)
(* items in it (rebuild).  The folding, and how the octets that were typed *)
(* encoded a nested item, are not of the file; and a BIT STRING whose      *)
(* items a shorter encoding leaves in fewer than five octets holds none    *)
(* for the reader.                                                         *)
RECURSIVE asRead(_)
asRead(forest) ==
  [i \in DOMAIN forest |->
     LET n == forest[i] IN
     [class |-> n.class, tag |-> n.tag, constructed |-> n.constructed, content |-> contentOctets(n),
      items |-> IF isUniversal(n, BitString) /\ Len(contentOctets(n)) <= 5 THEN <<>> ELSE asRead(n.children)]]

TreeIsOfTheFile ==
  edits > 0 /\ dirty =>
    /\ parse(encodeForest(roots)).ok
    /\ asRead(parse(encodeForest(roots)).nodes) = asRead(roots)

\* What becomes of octets: items are encoded anew.
asKept(n, octets) ==
  IF n.constructed THEN encodeForest(parse(octets).nodes)
  ELSE IF ~n.encapsulates THEN octets
  ELSE IF isUniversal(n, BitString) THEN <<Head(octets)>> \o encodeForest(parse(Tail(octets)).nodes)
  ELSE encodeForest(parse(octets).nodes)

(* A value that is opened in any of its editors and entered as it stands   *)
(* is refused or stays what it is (start_edit_type_specific,               *)
(* start_edit_base64, start_edit_raw, text_to_bytes, "can be applied back  *)
(* unchanged"), when the editor can show it: a number, an OID, a truth     *)
(* value or a date in DER, a text without a replacement character.         *)
minimal(octets) ==
  Len(octets) > 1 => /\ octets[1] = 0 => octets[2] >= 128
                     /\ octets[1] = 255 => octets[2] < 128
canonical(octets) == \A i \in DOMAIN octets : octets[i] = 128 => i > 1 /\ octets[i - 1] >= 128
isDate(value, generalized) ==
  datetimeToBytes(datetimeFromValue(value, generalized), generalized).ok
    /\ (datetimeFromValue(value, generalized) = DefaultDate =>
          value = datetimeToBytes(DefaultDate, generalized).octets)
showable(n, format) ==
  CASE format = "raw" -> initialText(n, "raw") # <<>> \/ contentOctets(n) = <<>>
    [] format = "integer" -> minimal(n.value)
    [] format = "oid" -> canonical(n.value)
    [] format = "boolean" -> n.value \in {<<0>>, <<255>>}
    [] format = "utc" -> isDate(n.value, FALSE)
    [] format = "generalized" -> isDate(n.value, TRUE)
    [] format = "utf8" -> Replacement \notin ToSet(fromUtf8(n.value))
    [] format = "utf16" -> Len(n.value) % 2 = 0 /\ Replacement \notin ToSet(fromUtf16(n.value))
    [] format = "utf32" -> Len(n.value) % 4 = 0 /\ Replacement \notin ToSet(fromUtf32(n.value))
    [] OTHER -> TRUE

keptAs(n, bytes) ==
  bytes.ok /\ bytes.octets # contentOctets(n) => asKept(n, bytes.octets) = contentOctets(n)
staysAsItIs(n, format) ==
  keptAs(n, toBytes(initialText(n, format), format))

UntouchedEditsChangeNothing ==
  \A path \in paths(roots) :
    LET n == nodeAt(roots, path) IN
    \A format \in formats(n) : showable(n, format) => staysAsItIs(n, format)

(* A value that was entered is the value the element has (commit_edit,     *)
(* "the bytes become the content octets verbatim"), items in it encoded    *)
(* anew; and unless they were, the editor opens on it as it was entered,   *)
(* the one for a REAL apart, which opens empty.                            *)
EnteredIsKept ==
  entered # NotEntered /\ entered.path \in paths(roots) =>
    LET n == nodeAt(roots, entered.path) IN
    /\ contentOctets(n) = asKept(n, entered.octets)
    /\ entered.format \in formats(n) \ {"real"} /\ contentOctets(n) = entered.octets =>
         initialText(n, entered.format) = entered.text

(* The document has the best of the types it conforms to: the one that     *)
(* names most elements, then one with an encoding of its own, then that of *)
(* the newest specification; and none only when no type says anything of   *)
(* its structure (identify, match_type, match_fields).                     *)
conforming(n) ==
  {i \in DOMAIN specDb : conforms(specDb, specDb[i].type, n, specDb[i].implicitTags, TRUE)}

IdentifiedAsTheBest ==
  open =>
    LET named(i) == Len(matchDef(specDb, specDb[i], roots[1]).labels)
        own(i) == ~resolvesToUntagged(specDb, specDb[i].type, 0)
        candidates == IF Len(roots) # 1 THEN {}
                      ELSE {i \in conforming(roots[1]) :
                              matchDef(specDb, specDb[i], roots[1]).ok => named(i) >= 2}
    IN IF candidates = {} THEN ident = Unidentified
       ELSE \E i \in candidates :
              /\ ident.type = specDb[i].name /\ ident.source = specDb[i].source
              /\ \A j \in candidates :
                   /\ named(j) <= named(i)
                   /\ named(j) = named(i) =>
                        /\ own(j) => own(i)
                        /\ own(j) = own(i) => specDb[j].source <= specDb[i].source
-----------------------------------------------------------------------------
(* What the source says of the program, and the program does not do.       *)

(* Input that is no BER is an error, never the end of the program (load,   *)
(* "input is not recognizable"; commit_edit, "rejected"; parse_header has  *)
(* an error of its own for a length that overflows).                       *)
NeverDies == running

(* A value opened and entered as it stands is what it was, whatever it is. *)
UntouchedNeverChange ==
  \A path \in paths(roots) :
    \A format \in formats(nodeAt(roots, path)) : staysAsItIs(nodeAt(roots, path), format)

(* A REAL that was entered has one of the encodings the code names: none   *)
(* for zero, one octet for an infinity, else a number in ISO 6093 NR3      *)
(* (text_to_bytes).                                                        *)
RealsAreReals ==
  entered # NotEntered /\ entered.format = "real" =>
    \/ entered.octets \in {<<>>, <<64>>, <<65>>}
    \/ entered.octets[1] = 3 /\ isDigit(Last(entered.octets))

(* The tree an edit leaves is octet for octet that of the file.            *)
RECURSIVE unfolded(_)
unfolded(forest) ==
  [i \in DOMAIN forest |-> [forest[i] EXCEPT !.expanded = TRUE, !.children = unfolded(@)]]

TreeIsExactlyOfTheFile ==
  edits > 0 /\ dirty => parse(encodeForest(roots)).nodes = unfolded(roots)
=============================================================================
