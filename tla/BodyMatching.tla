---------------------------- MODULE BodyMatching ----------------------------
(***************************************************************************)
(* How a body is compared with the expected one: text, bytes, forms and    *)
(* multipart bodies, and the choice between these, JSON and XML            *)
(* (pact_matching's lib.rs, form_urlencoded.rs and binary_utils.rs,        *)
(* without plugins). The bytes of a body are the readings of them: as      *)
(* text, JSON, XML, a form and multipart parts.                            *)
(***************************************************************************)
EXTENDS PartMatching, ContentTypes, XmlMatching

(* A panic is a result of its own. *)
Panicked == Mismatch(<<>>, "panic")

BodyOf(kind, bytes, type) == [kind |-> kind, bytes |-> bytes, type |-> type]
IsPresent(body) == body.kind = "present"

TextOf(bytes) == IF bytes.utf8 THEN bytes.text ELSE <<>>

MatchText(expected, actual, context) ==
    IF ~ IsDefined(context, <<Root>>) THEN Unless(expected = actual, Mismatch(<<Root>>, "equality"))
    ELSE Unless(expected.utf8 /\ actual.utf8, Mismatch(<<Root>>, "not text"))
         \union MatchTexts(Select(context, <<Root>>), <<Root>>, TextOf(expected), TextOf(actual))

\* Matches<&Bytes> for Bytes.
BytesMatch(expected, actual, rule, cascaded) ==
    CASE rule.kind \in {"regex", "include"} -> actual.utf8 /\ actual.text \in rule.text
      [] rule.kind = "equality" -> expected = actual
      [] rule.kind \in TypeMatchers -> TRUE
      [] rule.kind = "content-type" -> actual.text \in rule.text
      [] rule.kind = "not-empty" -> actual.size > 0
      [] OTHER -> cascaded /\ ~ CanCascade(rule)

\* What is shown of bytes that differ is ten of them.
ShownSafely(expected, actual, rule) ==
    CASE rule.kind = "equality" -> expected.size >= 10 /\ actual.size >= 10
      [] rule.kind \in {"regex", "include", "content-type", "not-empty"} -> TRUE
      [] OTHER -> actual.size >= 10

MatchOctetStream(expected, actual, context) ==
    LET list == Select(context, <<Root>>)
        failed == {r \in ToSet(list.rules) : ~ BytesMatch(expected, actual, r, list.cascaded)}
    IN  IF ~ IsDefined(context, <<Root>>) THEN Unless(expected = actual, Mismatch(<<Root>>, "equality"))
        ELSE IF \E r \in failed : ~ ShownSafely(expected, actual, r) THEN {Panicked}
        ELSE Verdict(list, <<Root>>, failed)

\* A form is a sequence of pairs, grouped by name.
GroupBy(pairs) ==
    [n \in {p.name : p \in ToSet(pairs)} |->
        LET of == SelectSeq(pairs, LAMBDA p : p.name = n) IN [i \in DOMAIN of |-> of[i].value]]

MatchForm(expected, actual, context) ==
    IF expected.form = <<>> \/ actual.form = <<>> THEN {Mismatch(<<Root>>, "unparsable")}
    ELSE LET results == MatchQueryMaps(GroupBy(expected.form[1]), GroupBy(actual.form[1]), context)
         IN  UNION {{[m EXCEPT !.path = Join(<<Root>>, k)] : m \in results[k]} : k \in DOMAIN results}

-----------------------------------------------------------------------------
(* Multipart bodies. A part is a record [index, name, file, type, data, decoded,
   headers]; decoded is what the base64 reading of the data yields. *)
\* get_multipart_boundary: a sequence of one boundary or of none.
BoundaryOf(headers) ==
    LET found == IF headers = <<>> THEN <<>> ELSE FindEntry(headers[1], <<"content-type">>)
        type == IF found = <<>> \/ found[1].values = <<>> THEN None ELSE ParseContentType(found[1].values[1])
    IN  IF type = None THEN <<>>
        ELSE IF <<"boundary">> \in DOMAIN type.type.attributes THEN <<type.type.attributes[<<"boundary">>]>> ELSE <<>>

\* parse_multipart
Parts(bytes, headers) ==
    LET read == SelectSeq(bytes.parts, LAMBDA p : <<p.boundary>> = BoundaryOf(headers))
    IN  IF read = <<>> THEN None ELSE [result |-> "ok", parts |-> read[1].parts]

DecodeData(part) ==
    IF <<"content-transfer-encoding">> \in DOMAIN part.headers
       /\ LowerCase(part.headers[<<"content-transfer-encoding">>]) = <<"base64">>
    THEN part.decoded ELSE part.data

PartPath(part) == Join(<<Root>>, IF part.name = <<>> THEN IndexText(part.index) ELSE part.name)

\* match_headers of binary_utils: a rule counts if it is for that header itself.
PartHeaders(path, expected, actual, context) ==
    LET lowered == HeaderContext(context)
        at(k) == Join(path, k)
        same(k) == IF AnyDirectMatcher(lowered, at(k)) THEN MatchTexts(Select(lowered, at(k)), at(k), expected[k], actual[k])
                   ELSE Unless(k = <<"content-disposition">> \/ expected[k] = actual[k], Mismatch(at(k), "equality"))
        forgiven == {<<"content-type">>, <<"content-disposition">>, <<"content-transfer-encoding">>}
    IN  UNION {IF k \in DOMAIN actual THEN same(k) ELSE Unless(k \in forgiven, Mismatch(at(k), "missing")) : k \in DOMAIN expected}

\* The rules for what is below the path, as rules of the part alone.
RulesBelow(category, path) ==
    LET below == SelectSeq(category.rules, LAMBDA e : MatchesPath(path, ToVec(e.path)))
    IN  [category EXCEPT !.rules = [i \in DOMAIN below |->
            [below[i] EXCEPT !.path = <<Root>> \o SubSeq(@, Len(path) + 1, Len(@))]]]

RECURSIVE CompareBodies(_, _, _, _, _, _)

MatchField(expected, actual, context) ==
    LET path == PartPath(expected)
    IN  PartHeaders(path, expected.headers, actual.headers, context)
        \union CompareTexts(path, DecodeData(expected).text, DecodeData(actual).text, context)

MatchFilePart(expected, actual, context) ==
    LET path == PartPath(expected)
        below == CloneWith(context, RulesBelow(context.matchers, path))
    IN  PartHeaders(path, expected.headers, actual.headers, context) \union
        IF \/ IsUnknown(expected.type) \/ IsUnknown(actual.type)
           \/ IsEquivalentTo(expected.type, actual.type) \/ IsEquivalentTo(expected.type, BaseType(actual.type))
        THEN CompareBodies(expected.type, DecodeData(expected), DecodeData(actual), <<>>, <<>>, below)
        ELSE {Mismatch(path, "type")}

MatchMimePart(expected, actual, context) ==
    CASE expected.file /\ actual.file -> MatchFilePart(expected, actual, context)
      [] ~ expected.file /\ ~ actual.file -> MatchField(expected, actual, context)
      [] OTHER -> {Mismatch(<<Root>>, "kind of part")}

\* The first actual part of the same name, or without a name in the same place.
Counterpart(part, parts) ==
    SelectSeq(parts, LAMBDA p : IF p.name = <<>> THEN p.index = part.index ELSE p.name = part.name)

MatchMimeMultipart(expected, actual, expectedHeaders, actualHeaders, context) ==
    LET e == Parts(expected, expectedHeaders)
        a == Parts(actual, actualHeaders)
    IN  IF e = None \/ a = None THEN {Mismatch(<<Root>>, "unparsable")}
        ELSE UNION {LET found == Counterpart(p, a.parts)
                    IN  IF found = <<>> THEN {Mismatch(<<Root>>, "missing part")} ELSE MatchMimePart(p, found[1], context) :
                       p \in ToSet(e.parts)}

-----------------------------------------------------------------------------
HasContentTypeRule(context) ==
    IsDefined(context, <<Root>>) /\ \E r \in ToSet(Select(context, <<Root>>).rules) : r.kind = "content-type"

\* compare_bodies_core; a message has no headers and panics if it is asked for them.
NoHeaders == <<<<[key |-> <<"unimplemented">>, values |-> <<>>]>>>>
CompareBodies(type, expected, actual, expectedHeaders, actualHeaders, context) ==
    CASE IsJson(type) -> MatchJson(expected.json, actual.json, context)
      [] IsXml(type) -> MatchXml(expected.xml, actual.xml, context)
      [] type.main = "multipart" ->
            IF NoHeaders \in {expectedHeaders, actualHeaders} THEN {Panicked}
            ELSE MatchMimeMultipart(expected, actual, expectedHeaders, actualHeaders, context)
      [] BaseType(type) = Type("application", "x-www-form-urlencoded") -> MatchForm(expected, actual, context)
      [] OTHER -> IF IsBinary(type) \/ HasContentTypeRule(context)
                  THEN MatchOctetStream(expected, actual, context)
                  ELSE MatchText(expected, actual, context)

\* The bytes of a body that is null: no text, no JSON, no XML, no parts, and a form without fields.
NoBytes ==
    [text |-> <<>>, utf8 |-> TRUE, size |-> 0, json |-> Value("garbage", <<>>), xml |-> [TextNode(<<>>) EXCEPT !.kind = "garbage"],
     form |-> << <<>> >>, parts |-> <<>>, detected |-> Plain]

\* match_body_content
MatchBodyContent(type, expected, actual, expectedHeaders, actualHeaders, context) ==
    CASE expected.kind = "missing" -> {}
      [] expected.kind \in {"null", "empty"} -> Unless(~ IsPresent(actual), Mismatch(<<Root>>, "not empty"))
      [] IsPresent(expected) ->
            CASE IsPresent(actual) -> CompareBodies(type, expected.bytes, actual.bytes, expectedHeaders, actualHeaders, context)
              [] actual.kind = "null" -> CompareBodies(type, expected.bytes, NoBytes, expectedHeaders, actualHeaders, context)
              [] OTHER -> {Mismatch(<<Root>>, "missing body")}
=============================================================================
