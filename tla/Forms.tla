------------------------------- MODULE Forms -------------------------------
(***************************************************************************)
(* The structured editors of three certificate extensions: Basic           *)
(* Constraints, Key Usage and Extended Key Usage (BcEditState, KuEditState *)
(* and EkuEditState of src/app.rs; src/x509/).  A form is filled from the  *)
(* extension around the selected element, changed key by key, and its      *)
(* value is encoded into the extnValue OCTET STRING.                       *)
(*                                                                         *)
(* Text is a sequence of characters, a digit the number it stands for.     *)
(* A document without lengths that overflow is assumed: Document has those.*)
(***************************************************************************)
EXTENDS Ber, TLC

CONSTANTS Documents,  \* encodings of the documents that may be open
          Typed,      \* runs of characters typed into a form
          MaxChanges  \* bound: what is toggled, typed and erased in dialogs

VARIABLES roots,   \* the tree of the open document
          form,    \* the open form
          changes  \* history: how often a dialog was changed

Dot == 11

NoForm == [kind |-> "none"]

-----------------------------------------------------------------------------
(* The tree.                                                               *)
RECURSIVE nodeAt(_, _), put(_, _, _), paths(_)
nodeAt(forest, path) ==
  IF Len(path) = 1 THEN forest[path[1]] ELSE nodeAt(forest[path[1]].children, Tail(path))

put(forest, path, n) ==
  IF Len(path) = 1 THEN [forest EXCEPT ![path[1]] = n]
  ELSE [forest EXCEPT ![path[1]].children = put(@, Tail(path), n)]

paths(forest) ==
  UNION {{<<i>>} \cup {<<i>> \o p : p \in paths(forest[i].children)} : i \in DOMAIN forest}

Boolean == <<1>>
IntegerTag == <<2>>
Oid == <<6>>
isSequence(n) == n.constructed /\ isUniversal(n, SequenceTag)

-----------------------------------------------------------------------------
(* The extensions.                                                         *)
ExtnOid == [bc |-> <<2, 5, 29, 19>>, ku |-> <<2, 5, 29, 15>>, eku |-> <<2, 5, 29, 37>>]
Kinds == DOMAIN ExtnOid

readsAs(read, arcs) == read.ok /\ read.arcs = arcs
holdsOid(n, arcs) == isUniversal(n, Oid) /\ readsAs(oidArcs(n.value), arcs)

(* Is a node the Extension of a kind?  Its value is its last child.        *)
isExtension(n, kind) ==
  /\ isSequence(n) /\ Len(n.children) >= 2
  /\ holdsOid(n.children[1], ExtnOid[kind])
  /\ ~Last(n.children).constructed /\ isUniversal(Last(n.children), OctetString)

valueIndex(extension) == Len(extension.children)

(* The first of the nodes a value holds, as it is parsed already or as its *)
(* octets read; a node that no type has when there is none.                *)
NoNode == node("private", <<>>, FALSE, <<>>, <<>>)
firstNode(read) == IF read.ok /\ read.nodes # <<>> THEN read.nodes[1] ELSE NoNode
inner(value) ==
  firstNode(IF value.encapsulates THEN [ok |-> TRUE, nodes |-> value.children] ELSE parse(value.value))

itemsOf(seq) == IF isUniversal(seq, SequenceTag) THEN seq.children ELSE <<>>

lastOf(nodes, tag) ==
  LET values == SelectSeq(nodes, LAMBDA n : isUniversal(n, tag))
  IN IF values = <<>> THEN <<>> ELSE Last(values).value

(* basic_constraints::parse.  The last BOOLEAN and the last INTEGER count. *)
constraints(ca, pathLen) ==
  [ca |-> ca # <<>> /\ ca[1] # 0,
   pathLen |-> IF pathLen = <<>> THEN <<>> ELSE <<integerDecimal(pathLen)>>]
constraintsIn(fields) == constraints(lastOf(fields, Boolean), lastOf(fields, IntegerTag))
parseBasicConstraints(value) == constraintsIn(itemsOf(inner(value)))

(* key_usage::decode_bits.                                                 *)
NumBits == 9
bitAt(octets, i) ==  \* bit i, counted from the most significant of the first octet
  LET o == i \div 8 + 1
  IN o <= Len(octets) /\ (octets[o] \div 2 ^ (7 - (i % 8))) % 2 = 1

usageBits(octets) == [i \in 1 .. NumBits |-> bitAt(octets, i - 1)]
usageOctets(bits) == IF isUniversal(bits, BitString) /\ bits.value # <<>> THEN Tail(bits.value) ELSE <<>>
parseKeyUsage(value) == usageBits(usageOctets(inner(value)))

(* extended_key_usage::parse.  What is no OID is passed over.              *)
arcsOf(oids) == [i \in DOMAIN oids |-> oidArcs(oids[i].value).arcs]
parseExtKeyUsage(value) ==
  arcsOf(SelectSeq(itemsOf(inner(value)), LAMBDA n : isUniversal(n, Oid) /\ oidArcs(n.value).ok))

tlv(tag, content) == <<tag>> \o writeLength(Len(content)) \o content

encodeBasicConstraints(ca, pathLen) ==
  tlv(48, (IF ca THEN tlv(1, <<255>>) ELSE <<>>)
          \o (IF ca /\ pathLen # <<>> THEN tlv(2, encodeIntegerDecimal(pathLen[1]).octets) ELSE <<>>))

\* Mutant of octetOf: a byte's bits start at the least significant one.
octetFromTheLowest(bits, o) ==
  FoldLeft(LAMBDA n, i : n + IF 8 * o + i <= Len(bits) /\ bits[8 * o + i] THEN 2 ^ (i - 1) ELSE 0, 0,
           <<1, 2, 3, 4, 5, 6, 7, 8>>)
octetOf(bits, o) ==
  FoldLeft(LAMBDA n, i : 2 * n + IF 8 * o + i <= Len(bits) /\ bits[8 * o + i] THEN 1 ELSE 0, 0,
           <<1, 2, 3, 4, 5, 6, 7, 8>>)

encodeKeyUsage(bits) ==
  LET set == {i \in DOMAIN bits : bits[i]}
      count == IF set = {} THEN 0 ELSE CHOOSE i \in set : \A j \in set : j <= i
      bytes == (count + 7) \div 8
  IN tlv(3, <<8 * bytes - count>> \o [o \in 1 .. bytes |-> octetOf(bits, o - 1)])

encodeExtKeyUsage(purposes) ==
  tlv(48, FlattenSeq([i \in DOMAIN purposes |->
                        LET oid == encodeOid(purposes[i]) IN IF oid.ok THEN tlv(6, oid.octets) ELSE <<>>]))

-----------------------------------------------------------------------------
(* The forms.                                                              *)
Purposes ==  \* extended_key_usage::PURPOSES
  LET kp(n) == <<1, 3, 6, 1, 5, 5, 7, 3, n>>
  IN <<<<2, 5, 29, 37, 0>>, kp(1), kp(2), kp(3), kp(4), kp(8), kp(9)>>
NumPredefined == Len(Purposes)
isPredefined(arcs) == arcs \in {Purposes[i] : i \in 1 .. NumPredefined}

custom(arcs) == [arcs |-> arcs, enabled |-> TRUE]

bcForm(bc) ==
  [kind |-> "bc", field |-> 0, ca |-> bc.ca, present |-> bc.pathLen # <<>>,
   pathLen |-> IF bc.pathLen = <<>> THEN <<0>> ELSE bc.pathLen[1]]

kuForm(bits) == [kind |-> "ku", field |-> 0, bits |-> bits]

customs(others) == [i \in DOMAIN others |-> custom(others[i])]
ekuForm(found) ==
  [kind |-> "eku", field |-> 0, input |-> <<>>,
   predefined |-> [i \in 1 .. NumPredefined |-> \E j \in DOMAIN found : found[j] = Purposes[i]],
   custom |-> customs(SelectSeq(found, LAMBDA arcs : ~isPredefined(arcs)))]

filled(kind, value) ==
  CASE kind = "bc" -> bcForm(parseBasicConstraints(value))
    [] kind = "ku" -> kuForm(parseKeyUsage(value))
    [] kind = "eku" -> ekuForm(parseExtKeyUsage(value))

(* The nearest Extension of a kind at or above a path.                     *)
nearest(extensions) ==
  IF extensions = {} THEN <<>> ELSE CHOOSE p \in extensions : \A q \in extensions : Len(q) <= Len(p)
extensionPath(selected, kind) ==
  nearest({p \in {SubSeq(selected, 1, n) : n \in DOMAIN selected} : isExtension(nodeAt(roots, p), kind)})

valuePathIn(path) == Append(path, valueIndex(nodeAt(roots, path)))
formAt(kind, valuePath) == filled(kind, nodeAt(roots, valuePath)) @@ [valuePath |-> valuePath]

StartForm(selected, kind) ==
  \E path \in {extensionPath(selected, kind)} :
    /\ path # <<>>
    /\ form' = formAt(kind, valuePathIn(path))
    /\ UNCHANGED <<roots, changes>>

inputField == NumPredefined + Len(form.custom)
onInput == form.kind = "eku" /\ form.field = inputField
formRows == CASE form.kind = "bc" -> 3 [] form.kind = "ku" -> NumBits [] form.kind = "eku" -> inputField + 1

changed == changes < MaxChanges /\ changes' = changes + 1 /\ UNCHANGED roots

MoveField ==
  /\ \E delta \in {-1, 1} : form' = [form EXCEPT !.field = (@ + delta + formRows) % formRows]
  /\ UNCHANGED <<roots, changes>>

ToggleField ==
  /\ form' =
       CASE form.kind = "bc" /\ form.field = 0 -> [form EXCEPT !.ca = ~@]
         [] form.kind = "bc" /\ form.field = 1 -> [form EXCEPT !.present = ~@]
         [] form.kind = "ku" -> [form EXCEPT !.bits[form.field + 1] = ~@]
         [] form.kind = "eku" /\ form.field < NumPredefined -> [form EXCEPT !.predefined[form.field + 1] = ~@]
         [] form.kind = "eku" /\ form.field \in NumPredefined .. inputField - 1 ->
              [form EXCEPT !.custom[form.field - NumPredefined + 1].enabled = ~@]
         [] OTHER -> form
  /\ changed

(* A digit of the path length: at most six, and no leading zero.           *)
RECURSIVE plain(_)
plain(digits) == IF Len(digits) > 1 /\ Head(digits) = 0 THEN plain(Tail(digits)) ELSE digits
withDigit(digits, c) == plain(IF Len(digits) < 6 THEN Append(digits, c) ELSE digits)

insertChar(f, c) ==
  CASE f.kind = "bc" /\ f.field = 2 /\ c \in 0 .. 9 ->
         [f EXCEPT !.present = TRUE, !.pathLen = withDigit(@, c)]
    [] f.kind = "eku" /\ f.field = inputField /\ c \in 0 .. 9 \cup {Dot} -> [f EXCEPT !.input = Append(@, c)]
    [] OTHER -> f

InsertChars ==
  /\ \E chars \in Typed : form' = FoldLeft(insertChar, form, chars)
  /\ changed

popped(text) == IF text = <<>> THEN text ELSE Front(text)
EraseChar ==
  /\ form' = CASE form.kind = "bc" /\ form.field = 2 -> [form EXCEPT !.pathLen = popped(@)]
               [] onInput -> [form EXCEPT !.input = popped(@)]
               [] OTHER -> form
  /\ changed

-----------------------------------------------------------------------------
(* What a form stands for.                                                 *)
number(digits) == FoldLeft(LAMBDA n, d : 10 * n + d, 0, digits)

(* What parse::<u32> does not read is 0: nothing, a number below zero, and *)
(* one that 32 bits do not hold.                                           *)
isU32(text) == text # <<>> /\ Minus \notin ToSet(text) /\ Len(inBase(text, 10, 256)) <= 4

pathLenValue(f) ==
  IF ~(f.ca /\ f.present) THEN <<>> ELSE <<IF isU32(f.pathLen) THEN f.pathLen ELSE <<0>>>>

collectPurposes(f) ==
  LET on == SelectSeq([i \in 1 .. NumPredefined |-> i], LAMBDA i : f.predefined[i])
      kept == SelectSeq(f.custom, LAMBDA c : c.enabled)
  IN [i \in DOMAIN on |-> Purposes[on[i]]] \o [i \in DOMAIN kept |-> kept[i].arcs]

encoded(f) ==
  CASE f.kind = "bc" -> encodeBasicConstraints(f.ca, pathLenValue(f))
    [] f.kind = "ku" -> encodeKeyUsage(f.bits)
    [] f.kind = "eku" -> encodeExtKeyUsage(collectPurposes(f))

(* The text between the dots.                                              *)
pieces(text) ==
  LET ends == SelectSeq([i \in 1 .. Len(text) + 1 |-> i], LAMBDA i : i > Len(text) \/ text[i] = Dot)
  IN [k \in DOMAIN ends |-> SubSeq(text, IF k = 1 THEN 1 ELSE ends[k - 1] + 1, ends[k] - 1)]

enteredArcs(oid) == IF oid.ok THEN oidArcs(oid.octets) ELSE failed
oidOf(arcs) ==
  IF \E k \in DOMAIN arcs : arcs[k] = <<>> THEN failed
  ELSE enteredArcs(encodeOid([k \in DOMAIN arcs |-> number(arcs[k])]))
parseOid(text) == oidOf(pieces(text))

firstWith(f, arcs) == {i \in DOMAIN f.custom : f.custom[i].arcs = arcs /\ \A j \in 1 .. i - 1 : f.custom[j].arcs # arcs}
withOid(f, arcs) ==
  IF isPredefined(arcs)
  THEN [f EXCEPT !.predefined = [i \in DOMAIN @ |-> @[i] \/ Purposes[i] = arcs]]
  ELSE IF \E c \in ToSet(f.custom) : c.arcs = arcs
  THEN [f EXCEPT !.custom = [i \in DOMAIN @ |-> IF i \in firstWith(f, arcs) THEN custom(arcs) ELSE @[i]]]
  ELSE [f EXCEPT !.custom = Append(@, custom(arcs))]

added(f) == [f EXCEPT !.input = <<>>, !.field = NumPredefined + Len(f.custom)]

AddOid ==
  /\ onInput /\ form.input # <<>>
  /\ \E read \in {parseOid(form.input)} :
       form' = IF read.ok THEN added(withOid(form, read.arcs)) ELSE form
  /\ UNCHANGED <<roots, changes>>

(* The encoding replaces the content of the value; the document is encoded *)
(* and parsed again, which finds the nodes in it.                          *)
reread(fresh, forest) == IF fresh.ok THEN fresh.nodes ELSE forest
rebuilt(forest) == reread(parse(encodeForest(forest)), forest)

withContent(value, octets) == [value EXCEPT !.value = octets, !.children = <<>>, !.encapsulates = FALSE]

CommitForm ==
  /\ form.kind = "eku" => collectPurposes(form) # <<>> /\ ~(onInput /\ form.input # <<>>)
  /\ roots' = rebuilt(put(roots, form.valuePath, withContent(nodeAt(roots, form.valuePath), encoded(form))))
  /\ form' = NoForm /\ UNCHANGED changes

CancelForm == form' = NoForm /\ UNCHANGED <<roots, changes>>

FormKeys ==
  /\ form # NoForm
  /\ \/ MoveField \/ ToggleField \/ InsertChars \/ EraseChar \/ AddOid \/ CommitForm \/ CancelForm

-----------------------------------------------------------------------------
(* What a form says, and the value it is read as once it is applied.       *)
meaning(kind, value) ==
  CASE kind = "bc" -> parseBasicConstraints(value)
    [] kind = "ku" -> parseKeyUsage(value)
    [] kind = "eku" -> parseExtKeyUsage(value)

says(f) ==
  CASE f.kind = "bc" -> [ca |-> f.ca, pathLen |-> pathLenValue(f)]
    [] f.kind = "ku" -> f.bits
    [] f.kind = "eku" -> collectPurposes(f)

(* The values that X.509 and DER allow, of which a form knows all there is *)
(* to know.                                                                *)
isPrimitive(n, tag) == isUniversal(n, tag) /\ ~n.constructed

isPathLen(n) ==
  /\ isPrimitive(n, IntegerTag) /\ n.value # <<>> /\ isU32(integerDecimal(n.value))
  /\ Len(n.value) > 1 /\ n.value[1] = 0 => n.value[2] >= 128

isNamedBits(octets) ==
  LET unused == octets[1] IN
  IF Len(octets) = 1 THEN unused = 0
  ELSE unused < 8 /\ 8 * (Len(octets) - 1) - unused <= NumBits /\ Last(octets) % 2 ^ (unused + 1) = 2 ^ unused

rank(arcs) == IF isPredefined(arcs) THEN CHOOSE i \in 1 .. NumPredefined : Purposes[i] = arcs ELSE NumPredefined + 1
inTableOrder(all) ==
  \A i, j \in DOMAIN all : i < j => rank(all[i]) < rank(all[j]) \/ ~(isPredefined(all[i]) \/ isPredefined(all[j]))

isKnown(kind, n) ==
  CASE kind = "bc" ->
         /\ isSequence(n) /\ Len(n.children) <= 2
         /\ \A i \in DOMAIN n.children :
              IF i = 1 THEN isPrimitive(n.children[i], Boolean) /\ n.children[i].value = <<255>>
              ELSE isPathLen(n.children[i])
    [] kind = "ku" -> isPrimitive(n, BitString) /\ n.value # <<>> /\ isNamedBits(n.value)
    [] kind = "eku" ->
         /\ isSequence(n)
         /\ \A i \in DOMAIN n.children :
              /\ isPrimitive(n.children[i], Oid) /\ oidArcs(n.children[i].value).ok
              /\ \A j \in DOMAIN n.children[i].value :
                   n.children[i].value[j] = 128 => j > 1 /\ n.children[i].value[j - 1] >= 128
         /\ inTableOrder(arcsOf(n.children))

wellFormed(kind, value) == isKnown(kind, inner(value)) /\ contentOctets(value) = encodeNode(inner(value))

(* Is a form as it was filled, and what is kept when such a form is applied? *)
untouched(f) == [f EXCEPT !.field = 0] = formAt(f.kind, f.valuePath)
kept(kind, value) ==
  LET m == meaning(kind, value) IN
  CASE kind = "bc" ->
         [m EXCEPT !.pathLen = IF ~m.ca \/ @ = <<>> THEN <<>> ELSE <<IF isU32(@[1]) THEN @[1] ELSE <<0>>>>]
    [] kind = "ku" -> m
    [] kind = "eku" -> ToSet(m)

(* Everything but the content of one value.                                *)
around(forest, path) == put(forest, path, withContent(nodeAt(forest, path), <<>>))
=============================================================================
