----------------------------- MODULE MCDocument -----------------------------
(* Small specifications and files for the document.                        *)
EXTENDS Document

Marks == {"{", "}", "[", "]", "(", ")", ",", ";", "::=", "..."}
Lower == {"iso", "limit", "one", "first", "second", "last", "id", "critical", "value", "version",
          "serial", "rest", "type", "content", "utc", "general", "pair", "other", "when", "def"}
NumberOf == [n \in {"0", "1"} |-> IF n = "0" THEN <<>> ELSE <<1>>]

tokens(words) ==
  [i \in DOMAIN words |->
     IF words[i] \in Marks THEN markToken(words[i])
     ELSE IF words[i] \in DOMAIN NumberOf THEN numberToken(NumberOf[words[i]])
     ELSE wordToken(words[i], words[i] \notin Lower)]

OlderSpec ==
  [source |-> 2315, toks |-> tokens(
    <<"Older", "{", "iso", "(", "1", ")", "}", "DEFINITIONS", "EXPLICIT", "TAGS", "::=", "BEGIN",
      "IMPORTS", "Data", "FROM", "Newer", ";",
      "limit", "INTEGER", "::=", "1",
      "def", "Extension", "::=", "{", "id", "iso", "}",
      "Extension", "::=", "SEQUENCE", "{", "id", "OBJECT", "IDENTIFIER", ",",
         "critical", "BOOLEAN", "DEFAULT", "FALSE", ",", "value", "OCTET", "STRING", "}",
      "Content", "::=", "SEQUENCE", "{", "type", "OBJECT", "IDENTIFIER", ",",
         "content", "[", "0", "]", "EXPLICIT", "ANY", "DEFINED", "BY", "type", "OPTIONAL", "}",
      "Pair", "::=", "SEQUENCE", "{", "first", "INTEGER", "DEFAULT", "{", "one", ",", "iso", "}", ",",
         "second", "INTEGER", "{", "one", "(", "1", ")", "}", "(", "0", ")", ",", "...", "}",
      "END">>)]

NewerSpec ==
  [source |-> 5280, toks |-> tokens(
    <<"Newer", "DEFINITIONS", "IMPLICIT", "TAGS", "::=", "BEGIN",
      "Time", "::=", "CHOICE", "{", "utc", "UTCTime", ",", "general", "GeneralizedTime", "}",
      "Data", "::=", "SEQUENCE", "{", "version", "[", "0", "]", "INTEGER", "OPTIONAL", ",",
         "when", "[", "1", "]", "Time", "OPTIONAL", ",",
         "rest", "SEQUENCE", "SIZE", "(", "1", ")", "OF", "other", "Extension", "OPTIONAL", "}",
      "Pair", "::=", "SEQUENCE", "{", "first", "INTEGER", "OPTIONAL", ",", "second", "INTEGER", ",",
         "last", "ANY", "OPTIONAL", "}",
      "Title", "::=", "SEQUENCE", "{", "first", "UTF8String", ",", "second", "T61String", ",",
         "rest", "SEQUENCE", "OF", "ANY", "OPTIONAL", "}",
      "PairChoice", "::=", "CHOICE", "{", "pair", "Pair", ",", "other", "Time", "}",
      "END">>)]

BrokenSpec == [source |-> 3000, toks |-> SubSeq(OlderSpec.toks, 1, 30)]

Directory == <<OlderSpec, BrokenSpec, NewerSpec>>
Names == (<<1, 2, 3>> :> "Data")

repeat(octet, n) == [i \in 1 .. n |-> octet]
Pair == <<48, 6, 2, 1, 5, 2, 1, 127>>
ContentOfData == <<48, 16, 6, 2, 42, 3, 160, 10, 48, 8, 161, 6, 23, 4, 53, 48, 48, 90>>
Nested == <<48, 14, 6, 1, 42, 4, 9, 48, 7, 2, 1, 1, 2, 2, 0, 128>>
NestedBits == <<3, 9, 0, 48, 6, 2, 1, 128, 2, 1, 0>>
Long == <<48, 126, 4, 124>> \o repeat(170, 124)
Dated == <<48, 32, 23, 13, 53, 48, 48, 49, 48, 49, 48, 48, 48, 48, 48, 48, 90,
           24, 15, 57, 57, 57, 57, 49, 50, 51, 49, 50, 51, 53, 57, 53, 57, 90>>
Indefinite == <<48, 128, 36, 128, 4, 1, 7, 0, 0, 2, 129, 1, 200, 1, 1, 255, 0, 0>>
HighTags == <<191, 31, 4, 159, 129, 0, 0, 95, 32, 1, 65>>
Strings == <<48, 17, 12, 2, 195, 169, 20, 1, 228, 48, 8, 30, 3, 216, 61, 65, 28, 1, 0>>
Real1 == <<48, 6, 9, 4, 128, 0, 1, 65>>
Surrogate == <<30, 4, 216, 61, 222, 0>>
Overlong(octet) == <<4, 136>> \o repeat(255, 7) \o <<octet>>
Numbers1 == <<49, 10, 2, 2, 255, 127, 2, 1, 128, 6, 1, 128, 6, 3, 136, 55, 1>>

AllFiles ==
  {<<>>, Pair, Long, Dated, Indefinite, HighTags, Numbers1, Strings, Real1, Surrogate,
   Overlong(240), Overlong(250), wrap(Overlong(255), Hex), wrap(Nested, Hex), wrap(NestedBits, Base64),
   <<33, Newline>> \o wrap(ContentOfData, Pem(<<75>>))}

AllHex ==
  {<<>>, <<48, 49>>, <<53, 55, 48, 48>>, <<48, 48>>, <<53>>,
   hexPairs(<<2, 129, 1, 5>>), hexPairs(<<0, 2, 130, 0, 1, 5>>), hexPairs(<<48, 10, 2, 136>> \o repeat(255, 8))}
AllNumbers ==
  {<<0>>, <<Minus, 1>>, <<1, 2, 7>>, <<1, 2, 8>>, <<Minus, 1, 2, 8>>, <<Minus, 1, 2, 9>>, <<Minus, 2, 5, 6>>,
   <<Minus, 3, 2, 7, 6, 8>>, <<9>> \o repeat(0, 20)}
AllReals ==
  {[is |-> "number", negative |-> FALSE, digits |-> <<0>>, exponent |-> 0],
   [is |-> "number", negative |-> TRUE, digits |-> <<2, 5>>, exponent |-> -12],
   [is |-> "number", negative |-> FALSE, digits |-> <<1>>, exponent |-> 400],
   [is |-> "inf", negative |-> TRUE], [is |-> "nan"]}
AllTexts == {<<>>, <<228, 8364>>, <<128512>>, <<65, 10>> \o repeat(98, 10)}
AllOids == {<<0, 39>>, <<1, 0>>, <<2, 47>>, <<2, 100, 128>>, <<1, 39, 16384>>, <<1, 40>>}
AllDates == {<<1949, 12, 31, 0, 0, 0>>, <<1950, 1, 1, 0, 0, 0>>, <<2049, 12, 31, 23, 59, 59>>, <<7, 2, 31, 1, 2, 3>>}
AllPasted == {<<77, 65, 65, 61>>, <<13, 10, 97, 98>>, <<200, 1>>}
AllPicked == {[class |-> "context", tag |-> <<31>>, constructed |-> TRUE],
              [class |-> "application", tag |-> <<1, 0>>, constructed |-> FALSE],
              [class |-> "private", tag |-> <<>>, constructed |-> FALSE],
              [class |-> "universal", tag |-> OctetString, constructed |-> FALSE],
              [class |-> "universal", tag |-> BitString, constructed |-> FALSE],
              [class |-> "universal", tag |-> SequenceTag, constructed |-> FALSE]}
=============================================================================
