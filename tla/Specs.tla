-------------------------------- MODULE Specs --------------------------------
(***************************************************************************)
(* The ASN.1 specification files: reading one (parse_spec of src/spec.rs)  *)
(* and naming the elements of a document after them (identify).            *)
(*                                                                         *)
(* A token is [is |-> "ident" | "number" | "mark", text, upper]; splitting *)
(* a text into tokens is left out.  A file is known by its RFC number, by  *)
(* which the sources of two types compare.                                 *)
(***************************************************************************)
EXTENDS Ber, FiniteSets, FiniteSetsExt

CONSTANTS MaxResolveDepth, \* MAX_RESOLVE_DEPTH
          ShortNames       \* the OIDs of the repository: arcs -> the short name, capitalised

ASSUME SpecsAssumption ==
  /\ MaxResolveDepth \in Nat
  /\ IsFiniteSet(DOMAIN ShortNames)

Absent == "absent"
NoOid == <<>>
NoDef == [name |-> Absent]

-----------------------------------------------------------------------------
(* Types.  The field of ANY DEFINED BY is read, and then not looked at.    *)
Reference(name) == [kind |-> "reference", name |-> name]
AnyType == [kind |-> "any"]
AnyDefinedBy(field) == [kind |-> "anyDefinedBy", field |-> field]
Primitive(tag) == [kind |-> "primitive", tag |-> tag]
Constructed(tag, fields) == [kind |-> "fields", tag |-> tag, fields |-> fields]
ListOf(tag, elem) == [kind |-> "of", tag |-> tag, elem |-> elem]
Choice(alts) == [kind |-> "choice", fields |-> alts]
Tagged(class, number, mode, inner) ==
  [kind |-> "tagged", class |-> class, number |-> number, mode |-> mode, inner |-> inner]

field(name, type, optional) == [name |-> name, type |-> type, optional |-> optional]

wordToken(text, upper) == [is |-> "ident", text |-> text, upper |-> upper]
numberToken(n) == [is |-> "number", text |-> n, upper |-> FALSE]
markToken(text) == [is |-> "mark", text |-> text, upper |-> FALSE]

Simple ==
  [BOOLEAN |-> <<1>>, INTEGER |-> <<2>>, BIT |-> <<3>>, OCTET |-> <<4>>, NULL |-> <<5>>,
   OBJECT |-> <<6>>, ObjectDescriptor |-> <<7>>, EXTERNAL |-> <<8>>, REAL |-> <<9>>,
   ENUMERATED |-> <<10>>, EMBEDDED |-> <<11>>, UTF8String |-> <<12>>, NumericString |-> <<18>>,
   PrintableString |-> <<19>>, TeletexString |-> <<20>>, T61String |-> <<20>>,
   VideotexString |-> <<21>>, IA5String |-> <<22>>, UTCTime |-> <<23>>, GeneralizedTime |-> <<24>>,
   GraphicString |-> <<25>>, VisibleString |-> <<26>>, ISO646String |-> <<26>>,
   GeneralString |-> <<27>>, UniversalString |-> <<28>>, BMPString |-> <<30>>]
    @@ ("RELATIVE-OID" :> <<13>>)
Second == [BIT |-> "STRING", OCTET |-> "STRING", OBJECT |-> "IDENTIFIER", EMBEDDED |-> "PDV"]
SecondIsLeftOut == {"EMBEDDED"}                     \* by some, at times
Named == {"INTEGER", "ENUMERATED", "BIT", "OCTET"}  \* may be followed by named values

-----------------------------------------------------------------------------
(* The parser.  Every operator reads tokens from a position on and says    *)
(* how far it came: [ok, pos, ...].                                        *)
isWord(toks, pos, word) == pos <= Len(toks) /\ toks[pos].is # "number" /\ toks[pos].text = word
isIdent(toks, pos) == pos <= Len(toks) /\ toks[pos].is = "ident"
skipped(toks, pos, word) == IF isWord(toks, pos, word) THEN pos + 1 ELSE pos

RECURSIVE skipBalanced(_, _, _, _, _)
skipBalanced(toks, pos, open, close, depth) ==
  IF depth = 0 \/ pos > Len(toks) THEN pos
  ELSE skipBalanced(toks, pos + 1, open, close,
                    IF isWord(toks, pos, open) THEN depth + 1
                    ELSE IF isWord(toks, pos, close) THEN depth - 1 ELSE depth)

skipGroup(toks, pos, open, close) ==
  IF isWord(toks, pos, open) THEN skipBalanced(toks, pos + 1, open, close, 1) ELSE pos

RECURSIVE skipConstraints(_, _)
skipConstraints(toks, pos) ==
  IF isWord(toks, pos, "(") THEN skipConstraints(toks, skipGroup(toks, pos, "(", ")")) ELSE pos

skipValue(toks, pos) ==
  IF isWord(toks, pos, "{") THEN skipGroup(toks, pos, "{", "}") ELSE pos + 1

read(type, pos) == [ok |-> TRUE, type |-> type, pos |-> pos]

RECURSIVE parseType(_, _), parseFields(_, _)

numberAt(toks, pos) ==
  skipped(toks, skipped(toks, skipped(toks, pos, "APPLICATION"), "PRIVATE"), "UNIVERSAL")
innerAt(toks, pos) == skipped(toks, skipped(toks, pos, "IMPLICIT"), "EXPLICIT")

taggedType(toks, pos, number, inner) ==
  IF ~inner.ok THEN failed
  ELSE read(Tagged(CASE isWord(toks, pos, "APPLICATION") -> "application"
                     [] isWord(toks, pos, "PRIVATE") -> "private"
                     [] isWord(toks, pos, "UNIVERSAL") -> "universal"
                     [] OTHER -> "context",
                   toks[number].text,
                   CASE isWord(toks, number + 2, "IMPLICIT") -> "implicit"
                     [] isWord(toks, number + 2, "EXPLICIT") -> "explicit"
                     [] OTHER -> "default",
                   inner.type),
            inner.pos)

parseTag(toks, pos) ==
  LET number == numberAt(toks, pos) IN
  IF number > Len(toks) \/ toks[number].is # "number" \/ ~isWord(toks, number + 1, "]") THEN failed
  ELSE taggedType(toks, pos, number, parseType(toks, innerAt(toks, number + 2)))

withFields(toks, tag, fields) ==
  IF fields.ok THEN read(Constructed(tag, fields.fields), skipConstraints(toks, fields.pos)) ELSE failed
withAlternatives(toks, fields) ==
  IF fields.ok THEN read(Choice(fields.fields), skipConstraints(toks, fields.pos)) ELSE failed
withElement(toks, tag, elem) ==
  IF elem.ok THEN read(ListOf(tag, elem.type), skipConstraints(toks, elem.pos)) ELSE failed

\* The type of the elements can have a name in front.
elementAt(toks, pos) ==
  IF isIdent(toks, pos) /\ isIdent(toks, pos + 1) /\ ~toks[pos].upper THEN pos + 1 ELSE pos

parseListOf(toks, of, tag) ==
  IF isWord(toks, of, "OF") THEN withElement(toks, tag, parseType(toks, elementAt(toks, of + 1))) ELSE failed

parseConstructed(toks, pos, tag) ==
  IF isWord(toks, pos, "{") THEN withFields(toks, tag, parseFields(toks, pos + 1))
  ELSE parseListOf(toks, skipConstraints(toks, skipped(toks, pos, "SIZE")), tag)

parseChoice(toks, pos) ==
  IF isWord(toks, pos, "{") THEN withAlternatives(toks, parseFields(toks, pos + 1)) ELSE failed

parseAny(toks, pos) ==
  IF ~isWord(toks, pos, "DEFINED") THEN read(AnyType, skipConstraints(toks, pos))
  ELSE IF ~isWord(toks, pos + 1, "BY") \/ ~isIdent(toks, pos + 2) THEN failed
  ELSE read(AnyDefinedBy(toks[pos + 2].text), skipConstraints(toks, pos + 3))

parseSimple(toks, pos, name) ==
  LET end == IF name \in DOMAIN Second THEN skipped(toks, pos, Second[name]) ELSE pos
      after2 == IF name \in Named THEN skipGroup(toks, end, "{", "}") ELSE end
  IN IF name \in DOMAIN Second \ SecondIsLeftOut /\ end = pos THEN failed
     ELSE read(Primitive(Simple[name]), skipConstraints(toks, after2))

parseType(toks, pos) ==
  IF isWord(toks, pos, "[") THEN parseTag(toks, pos + 1)
  ELSE IF ~isIdent(toks, pos) THEN failed
  ELSE LET name == toks[pos].text IN
       CASE name = "SEQUENCE" -> parseConstructed(toks, pos + 1, SequenceTag)
         [] name = "SET" -> parseConstructed(toks, pos + 1, SetTag)
         [] name = "CHOICE" -> parseChoice(toks, pos + 1)
         [] name = "ANY" -> parseAny(toks, pos + 1)
         [] name \in DOMAIN Simple -> parseSimple(toks, pos + 1, name)
         [] OTHER -> IF toks[pos].upper THEN read(Reference(name), skipConstraints(toks, pos + 1))
                     ELSE failed

someFields(this, more) == IF more.ok THEN [more EXCEPT !.fields = this \o @] ELSE failed

(* The component at pos, of the type just read, and those that follow.     *)
fieldOfType(toks, pos, type) ==
  LET default == isWord(toks, type.pos, "DEFAULT")
      optional == default \/ isWord(toks, type.pos, "OPTIONAL")
      end == IF default THEN skipValue(toks, type.pos + 1) ELSE skipped(toks, type.pos, "OPTIONAL")
      this == <<field(toks[pos].text, type.type, optional)>>
  IN IF ~type.ok THEN failed
     ELSE IF isWord(toks, end, "}") THEN [ok |-> TRUE, fields |-> this, pos |-> end + 1]
     ELSE IF isWord(toks, end, ",") THEN someFields(this, parseFields(toks, end + 1)) ELSE failed

(* What is between the braces; an extension marker is dropped.             *)
parseFields(toks, pos) ==
  IF isWord(toks, pos, "}") THEN [ok |-> TRUE, fields |-> <<>>, pos |-> pos + 1]
  ELSE IF isWord(toks, pos, "...") THEN parseFields(toks, skipped(toks, pos + 1, ","))
  ELSE IF isIdent(toks, pos) THEN fieldOfType(toks, pos, parseType(toks, pos + 1)) ELSE failed

define(name, type, implicitTags, source) ==
  [name |-> name, type |-> type, implicitTags |-> implicitTags, source |-> source]

someDefs(this, more) == IF more.ok THEN [more EXCEPT !.defs = this \o @] ELSE failed

(* The assignments of a module up to END; values and imports are dropped.  *)
RECURSIVE parseAssignments(_, _, _, _), skipPast(_, _, _)
skipPast(toks, pos, word) ==
  IF pos > Len(toks) \/ isWord(toks, pos, word) THEN pos + 1 ELSE skipPast(toks, pos + 1, word)

typeAssignment(toks, pos, type, implicitTags, source) ==
  IF type.ok THEN someDefs(<<define(toks[pos].text, type.type, implicitTags, source)>>,
                           parseAssignments(toks, type.pos, implicitTags, source))
  ELSE failed

valueAssignment(toks, type, implicitTags, source) ==
  IF ~type.ok THEN failed
  ELSE IF ~isWord(toks, type.pos, "::=") THEN failed
  ELSE parseAssignments(toks, skipValue(toks, type.pos + 1), implicitTags, source)

parseAssignments(toks, pos, implicitTags, source) ==
  IF isWord(toks, pos, "END") THEN [ok |-> TRUE, defs |-> <<>>, pos |-> pos + 1]
  ELSE IF isWord(toks, pos, "IMPORTS") \/ isWord(toks, pos, "EXPORTS")
  THEN parseAssignments(toks, skipPast(toks, pos + 1, ";"), implicitTags, source)
  ELSE IF ~isIdent(toks, pos) THEN failed
  ELSE IF toks[pos].upper /\ isWord(toks, pos + 1, "::=")
  THEN typeAssignment(toks, pos, parseType(toks, pos + 2), implicitTags, source)
  ELSE valueAssignment(toks, parseType(toks, pos + 1), implicitTags, source)

TagWords == {"IMPLICIT", "EXPLICIT", "AUTOMATIC", "TAGS", "EXTENSIBILITY", "IMPLIED"}

RECURSIVE parseFile(_, _, _), pastTagWords(_, _)
pastTagWords(toks, pos) ==
  IF isIdent(toks, pos) /\ toks[pos].text \in TagWords THEN pastTagWords(toks, pos + 1) ELSE pos

modulesAfter(here, toks, source) ==
  IF here.ok THEN someDefs(here.defs, parseFile(toks, here.pos, source)) ELSE failed

parseModule(toks, definitions, assign, source) ==
  IF isWord(toks, definitions, "DEFINITIONS") /\ isWord(toks, assign, "::=") /\ isWord(toks, assign + 1, "BEGIN")
  THEN modulesAfter(parseAssignments(toks, assign + 2,
                                     \E i \in definitions + 1 .. assign - 1 : toks[i].text = "IMPLICIT", source),
                    toks, source)
  ELSE failed

parseFile(toks, pos, source) ==
  LET definitions == skipGroup(toks, pos + 1, "{", "}") IN
  IF pos > Len(toks) THEN [ok |-> TRUE, defs |-> <<>>]
  ELSE IF ~isIdent(toks, pos) THEN failed
  ELSE parseModule(toks, definitions, pastTagWords(toks, definitions + 1), source)

(* The database: the types of the files that can be read, in their order.  *)
loadDir(files) ==
  FlattenSeq([i \in DOMAIN files |->
    LET file == parseFile(files[i].toks, 1, files[i].source) IN IF file.ok THEN file.defs ELSE <<>>])

-----------------------------------------------------------------------------
(* The matcher.  A match is [ok, labels]: the labels given so far, in the  *)
(* order given; what an alternative labelled before it failed is taken     *)
(* back.  The context: the name of the component, the type names passed    *)
(* through, and the OID that an ANY DEFINED BY is resolved with.           *)
context(fieldName, names, definedBy) ==
  [field |-> fieldName, names |-> names, definedBy |-> definedBy]

resolve(db, name) ==
  LET at == {i \in DOMAIN db : db[i].name = name} IN
  IF at = {} THEN NoDef ELSE db[CHOOSE i \in at : \A j \in at : i <= j]

kindName(ty) ==
  CASE ty.kind \in {"fields", "of"} -> IF ty.tag = SequenceTag THEN "SEQUENCE" ELSE "SET"
    [] ty.kind = "choice" -> "CHOICE"
    [] ty.kind \in {"any", "anyDefinedBy"} -> "ANY"
    [] ty.kind = "reference" -> ty.name
    [] OTHER -> "TAGGED"  \* the number is left out

commit(ctx, ty, path) ==
  <<[path |-> path, field |-> ctx.field, typeName |-> IF ctx.names = <<>> THEN <<kindName(ty)>> ELSE ctx.names]>>

matched(labels) == [ok |-> TRUE, labels |-> labels]

RECURSIVE resolvesToUntagged(_, _, _)
resolvesToUntagged(db, ty, depth) ==
  /\ depth <= MaxResolveDepth
  /\ \/ ty.kind \in {"choice", "any", "anyDefinedBy"}
     \/ /\ ty.kind = "reference"
        /\ resolve(db, ty.name) # NoDef
        /\ resolvesToUntagged(db, resolve(db, ty.name).type, depth + 1)

isImplicit(db, ty, implicitTags) ==
  /\ ty.mode = "implicit" \/ (ty.mode = "default" /\ implicitTags)
  /\ ~resolvesToUntagged(db, ty.inner, 0)

RECURSIVE matchType(_, _, _, _, _, _, _, _), matchFields(_, _, _, _, _, _, _, _, _),
          matchAll(_, _, _, _, _, _, _), matchChoice(_, _, _, _, _, _, _, _, _)

matchReference(db, ty, n, ctx, path, checkTag, depth) ==
  LET def == resolve(db, ty.name)
      names == IF ctx.names # <<>> /\ Last(ctx.names) = ty.name THEN ctx.names
               ELSE Append(ctx.names, ty.name)
  IN IF def = NoDef THEN matched(commit(ctx, ty, path))
     ELSE matchType(db, def.type, n, [ctx EXCEPT !.names = names], path, def.implicitTags,
                    checkTag, depth + 1)

(* The type that an OID selects, when the value matches it; else plain ANY. *)
matchDefined(db, ty, n, ctx, path, depth) ==
  LET name == ShortNames[ctx.definedBy]
      def == resolve(db, name)
      typed == matchType(db, def.type, n, [ctx EXCEPT !.names = Append(@, name)], path,
                         def.implicitTags, TRUE, depth + 1)
      known == ctx.definedBy \in DOMAIN ShortNames /\ def # NoDef
  IN IF known /\ typed.ok THEN typed ELSE matched(commit(ctx, ty, path))

matchTagged(db, ty, n, ctx, path, implicitTags, checkTag, depth) ==
  IF checkTag /\ ~(n.class = ty.class /\ n.tag = ty.number) THEN failed
  ELSE IF isImplicit(db, ty, implicitTags)
  THEN matchType(db, ty.inner, n, ctx, path, implicitTags, FALSE, depth + 1)
  ELSE IF ~n.constructed \/ Len(n.children) # 1 THEN failed
  ELSE LET inner == matchType(db, ty.inner, n.children[1], context(Absent, <<>>, ctx.definedBy),
                              Append(path, 1), implicitTags, TRUE, depth + 1)
       IN IF inner.ok THEN matched(commit(ctx, ty, path) \o inner.labels) ELSE failed

matchType(db, ty, n, ctx, path, implicitTags, checkTag, depth) ==
  LET hasTag == ~checkTag \/ isUniversal(n, ty.tag)
      inside == CASE ty.kind = "fields" ->
                       matchFields(db, ty.fields, n, 1, 1, path, implicitTags, NoOid, depth)
                  [] ty.kind = "of" -> matchAll(db, ty.elem, n, 1, path, implicitTags, depth)
  IN CASE depth > MaxResolveDepth + 100 -> failed
       [] ty.kind = "reference" -> matchReference(db, ty, n, ctx, path, checkTag, depth)
       [] ty.kind = "any" -> matched(commit(ctx, ty, path))
       [] ty.kind = "anyDefinedBy" -> matchDefined(db, ty, n, ctx, path, depth)
       [] ty.kind = "primitive" -> IF hasTag THEN matched(commit(ctx, ty, path)) ELSE failed
       [] ty.kind \in {"fields", "of"} ->
            IF ~hasTag \/ ~n.constructed THEN failed
            ELSE IF inside.ok THEN matched(commit(ctx, ty, path) \o inside.labels) ELSE failed
       [] ty.kind = "choice" -> matchChoice(db, ty.fields, 1, n, ctx, path, implicitTags, checkTag, depth)
       [] ty.kind = "tagged" -> matchTagged(db, ty, n, ctx, path, implicitTags, checkTag, depth)

matchChoice(db, alts, i, n, ctx, path, implicitTags, checkTag, depth) ==
  IF i > Len(alts) THEN failed
  ELSE LET here == matchType(db, alts[i].type, n, [ctx EXCEPT !.names = Append(@, alts[i].name)], path,
                             implicitTags, checkTag, depth + 1)
       IN IF here.ok THEN here
          ELSE matchChoice(db, alts, i + 1, n, ctx, path, implicitTags, checkTag, depth)

matchAll(db, elem, n, ci, path, implicitTags, depth) ==
  IF ci > Len(n.children) THEN matched(<<>>)
  ELSE LET here == matchType(db, elem, n.children[ci], context(Absent, <<>>, NoOid), Append(path, ci),
                             implicitTags, TRUE, depth + 1)
           more == matchAll(db, elem, n, ci + 1, path, implicitTags, depth)
       IN IF ~here.ok THEN failed ELSE IF ~more.ok THEN failed ELSE matched(here.labels \o more.labels)

definedNext(child, definedBy) ==
  LET arcs == oidArcs(child.value) IN
  IF isUniversal(child, <<6>>) /\ arcs.ok THEN arcs.arcs ELSE definedBy

(* The components from fi on against the children from ci on: a component  *)
(* takes the child when the rest then matches, and is left out otherwise.  *)
matchFields(db, fields, n, fi, ci, path, implicitTags, definedBy, depth) ==
  IF fi > Len(fields) THEN IF ci > Len(n.children) THEN matched(<<>>) ELSE failed
  ELSE LET child == n.children[ci]
           here == IF ci > Len(n.children) THEN failed
                   ELSE matchType(db, fields[fi].type, child, context(fields[fi].name, <<>>, definedBy),
                                  Append(path, ci), implicitTags, TRUE, depth + 1)
           rest == IF here.ok
                   THEN matchFields(db, fields, n, fi + 1, ci + 1, path, implicitTags,
                                    definedNext(child, definedBy), depth)
                   ELSE failed
       IN IF rest.ok THEN matched(here.labels \o rest.labels)
          ELSE IF fields[fi].optional
          THEN matchFields(db, fields, n, fi + 1, ci, path, implicitTags, definedBy, depth)
          ELSE failed

matchDef(db, def, n) ==
  matchType(db, def.type, n, context(Absent, <<def.name>>, NoOid), <<1>>, def.implicitTags, TRUE, 0)

-----------------------------------------------------------------------------
Unidentified == [type |-> Absent, labels |-> {}]

rank(db, def) == IF resolvesToUntagged(db, def.type, 0) THEN 0 ELSE 1

\* Mutant of beats: of two equal matches the older specification stays.
beatsIfOlder(db, i, j, labels) ==
  \/ Len(labels[i]) > Len(labels[j])
  \/ /\ Len(labels[i]) = Len(labels[j])
     /\ \/ rank(db, db[i]) > rank(db, db[j])
        \/ (rank(db, db[i]) = rank(db, db[j]) /\ db[i].source < db[j].source)

(* Does the i-th type describe the document better than the j-th?          *)
beats(db, i, j, labels) ==
  \/ Len(labels[i]) > Len(labels[j])
  \/ /\ Len(labels[i]) = Len(labels[j])
     /\ \/ rank(db, db[i]) > rank(db, db[j])
        \/ (rank(db, db[i]) = rank(db, db[j]) /\ db[i].source > db[j].source)

RECURSIVE identify(_, _), labelEncapsulated(_, _, _)
identify(db, roots) ==
  LET labels == [i \in DOMAIN db |->
                   LET m == matchDef(db, db[i], roots[1]) IN IF m.ok THEN m.labels ELSE <<>>]
      best == FoldLeft(LAMBDA b, i : IF Len(labels[i]) < 2 THEN b
                                     ELSE IF b = 0 THEN i
                                     ELSE IF beats(db, i, b, labels) THEN i ELSE b,
                       0, [i \in DOMAIN db |-> i])
  IN IF Len(roots) # 1 THEN Unidentified
     ELSE IF best = 0 THEN Unidentified
     ELSE [type |-> db[best].name, source |-> db[best].source,
           labels |-> ToSet(labels[best]) \cup labelEncapsulated(db, roots, <<>>)]

(* What is nested in a value is identified by itself.                      *)
labelEncapsulated(db, nodes, prefix) ==
  UNION {LET path == Append(prefix, i) IN
         IF nodes[i].encapsulates
         THEN {[label EXCEPT !.path = path \o @] : label \in identify(db, nodes[i].children).labels}
         ELSE labelEncapsulated(db, nodes[i].children, path) : i \in DOMAIN nodes}

-----------------------------------------------------------------------------
(* What it means that an element is of a type, by the components that are  *)
(* present: the mandatory ones among them, in their order, one per child.  *)
RECURSIVE conforms(_, _, _, _, _)
conforms(db, ty, n, implicitTags, checkTag) ==
  LET hasTag == ~checkTag \/ isUniversal(n, ty.tag)
      def == resolve(db, ty.name)
  IN CASE ty.kind \in {"any", "anyDefinedBy"} -> TRUE
       [] ty.kind = "reference" ->
            def = NoDef \/ conforms(db, def.type, n, def.implicitTags, checkTag)
       [] ty.kind = "primitive" -> hasTag
       [] ty.kind = "fields" ->
            /\ hasTag /\ n.constructed
            /\ \E present \in kSubset(Len(n.children), DOMAIN ty.fields) :
                 /\ \A i \in DOMAIN ty.fields \ present : ty.fields[i].optional
                 /\ \A i \in present :
                      conforms(db, ty.fields[i].type, n.children[Cardinality({j \in present : j <= i})],
                               implicitTags, TRUE)
       [] ty.kind = "of" ->
            /\ hasTag /\ n.constructed
            /\ \A i \in DOMAIN n.children : conforms(db, ty.elem, n.children[i], implicitTags, TRUE)
       [] ty.kind = "choice" ->
            \E i \in DOMAIN ty.fields : conforms(db, ty.fields[i].type, n, implicitTags, checkTag)
       [] ty.kind = "tagged" ->
            /\ checkTag => n.class = ty.class /\ n.tag = ty.number
            /\ IF /\ ty.mode = "implicit" \/ (ty.mode = "default" /\ implicitTags)
                  /\ ~resolvesToUntagged(db, ty.inner, 0)
               THEN conforms(db, ty.inner, n, implicitTags, FALSE)
               ELSE /\ n.constructed /\ Len(n.children) = 1
                    /\ conforms(db, ty.inner, n.children[1], implicitTags, TRUE)
=============================================================================
