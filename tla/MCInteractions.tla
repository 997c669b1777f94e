---------------------------- MODULE MCInteractions ----------------------------
(***************************************************************************)
(* Requests, responses and messages over small values, beside the          *)
(* questions of MCRules, MCJson and MCIntegration: a behaviour picks the   *)
(* expected one, the actual one and the rules, and stops.                  *)
(***************************************************************************)
EXTENDS InteractionMatching, MCIntegration

Category(name, entries) == name :> [name |-> name, rules |-> entries]
NoRules == [c \in {} |-> EmptyCategory("body")]
At(path, rules) == [path |-> path, list |-> [EmptyList("AND") EXCEPT !.rules = rules]]
Either(path, rules) == [path |-> path, list |-> [EmptyList("OR") EXCEPT !.rules = rules]]
On(key) == <<Root, Field(key)>>
X == <<"x">>
Y == <<"y">>
OnlyX == WithText("regex", {X})

\* Headers
HeaderValueLists == SeqOf({X, Y, <<" ", "x">>, <<>>}, 2)
Types == {<<"text", "/", "plain">> \o rest : rest \in {<<>>, <<";", "charset", "=", "A">>, <<";", " ", "charset", "=", "a">>,
             <<";", "charset", "=", "a", ";", "q", "=", "1">>, <<";", "charset", "=", "b", ";", "charset", "=", "a">>, <<";", "charset", "=", "b">>, <<" ", ";", " ">>}}
             \union {<<"text", "/", "html">>, <<>>}
HeaderRules ==
    {NoRules} \union {Category("header", <<At(On(k), <<r>>)>>) : k \in {<<"a">>, <<"A">>}, r \in {Rule("type"), OnlyX, Rule("equality"), WithMax("max-type", 1)}}
      \union {Category("header", <<At(Append(On(<<"a">>), Index(<<"1">>)), <<OnlyX>>)>>),
              Category("header", <<Either(On(<<"A">>), <<OnlyX, Rule("equality")>>)>>)}
Single(key, values) == <<<<[key |-> key, values |-> values]>>>>
HeaderInputs ==
    [expected : {Single(<<"A">>, v) : v \in HeaderValueLists},
     actual : {<<>>, <<<<>>>>} \union {Single(k, v) : k \in {<<"a">>, <<"A">>, <<"b">>}, v \in HeaderValueLists}, rules : HeaderRules]
ParameterInputs ==
    [expected : {Single(<<"accept">>, <<t>>) : t \in Types}, actual : {Single(<<"accept">>, <<t>>) : t \in Types}, rules : {NoRules}]

\* Query
QueryLists == SeqOf({X, Y}, 2)
Queries == {<<>>} \union {<<q>> : q \in {NoAttributes} \union [{<<"a">>} -> QueryLists] \union
                            {(<<"a">> :> l) @@ (<<"b">> :> <<X>>) : l \in QueryLists}}
QueryRules ==
    {NoRules} \union {Category("query", <<At(On(<<"a">>), <<r>>)>>) : r \in {Rule("type"), OnlyX, Rule("equality"), WithMin("min-type", 2), ArrayContains(<<>>)}}
      \union {Category("query", <<At(Append(On(<<"a">>), Index(<<"1">>)), <<OnlyX>>)>>)}
QueryInputs == [expected : Queries, actual : Queries, rules : QueryRules]

\* Status
Codes == {99, 100, 199, 200, 299, 300, 399, 400, 499, 500, 599, 600}
StatusInputs == [expected : Codes, actual : Codes, rules : {NoRules}]

\* Bodies
Reading == [NoBytes EXCEPT !.size = 12, !.form = <<>>]
A == <<"a">>
JsonBytes(t, value) == [Reading EXCEPT !.text = t, !.json = value, !.detected = Json]
Bytes ==
    {JsonBytes(<<"j">>, Object(A :> Text(X))), JsonBytes(<<"k">>, Object((A :> Text(Y)) @@ (<<"b">> :> Null))),
     [Reading EXCEPT !.text = <<"f">>, !.form = <<<<[name |-> A, value |-> X], [name |-> A, value |-> Y]>>>>],
     [Reading EXCEPT !.text = <<"g">>, !.form = <<<<[name |-> A, value |-> X]>>>>],
     [Reading EXCEPT !.text = <<"p">>, !.utf8 = FALSE], [Reading EXCEPT !.text = X, !.size = 4]}
Suffixed(sub, suffix) == [Type("application", sub) EXCEPT !.suffix = <<suffix>>]
Utf(type) == [type EXCEPT !.attributes = <<"charset">> :> <<"a">>]
ContentTypes2 == {Json, Utf(Json), Suffixed("hal", "json"), Xml, Plain, Type("application", "x-www-form-urlencoded"), Type("image", "png")}
Bodies == {BodyOf(k, NoBytes, <<>>) : k \in {"missing", "null", "empty"}} \union {BodyOf("present", b, <<>>) : b \in Bytes}
Parts2 == {[headers |-> h, body |-> b] : b \in Bodies,
              h \in {<<>>} \union {Single(<<"content-type">>, <<ContentTypeText(t)>>) : t \in ContentTypes2}}
BodyRules ==
    {NoRules} \union {Category("body", <<At(<<Root>>, <<r>>)>>) : r \in {Rule("type"), Rule("equality"), WithText("content-type", {X})}}
      \union {Category("header", <<At(On(<<"content-type">>), <<Rule("type")>>)>>)}
BodyInputs == [expected : Parts2, actual : Parts2, rules : BodyRules]

\* XML
E(local, attributes, nodes) == Element(Name(<<>>, local), attributes, nodes)
K == <<"b">>
Leaves == {E(K, NoAttributes, <<>>), E(K, NoAttributes, <<TextNode(X)>>), E(K, A :> X, <<>>), Element(Name(<<"n">>, K), NoAttributes, <<>>), TextNode(X), TextNode(<<" ">>)}
Documents == {E(A, at, nodes) : at \in {NoAttributes, A :> X, A :> Y}, nodes \in SeqOf(Leaves, 2)} \union {E(K, NoAttributes, <<>>)}
OnXml(path, rule) == [name |-> "body", rules |-> <<At(<<Root, Field(A)>> \o path, <<rule>>)>>]
XmlRules == {EmptyCategory("body"), OnXml(<<>>, Rule("type")), OnXml(<<Field(K)>>, Rule("type")), OnXml(<<Field(K)>>, WithMin("min-type", 1)),
             OnXml(<<Field(<<"@", "a">>)>>, Rule("type"))}
Configs == {"AllowUnexpectedKeys", "NoUnexpectedKeys"}
XmlInputs == [expected : Documents, actual : Documents, rules : XmlRules, config : Configs]

\* Multipart bodies
DataOf(t) == [Reading EXCEPT !.text = t, !.size = 1]
PartOf(name, file, data) ==
    [index |-> 0, name |-> name, file |-> file, type |-> IF file THEN Json ELSE Unknown, data |-> data, decoded |-> data, headers |-> NoAttributes]
Some == {PartOf(n, FALSE, DataOf(t)) : n \in {A, K}, t \in {X, Y}} \union {PartOf(<<>>, FALSE, DataOf(X))}
           \union {[PartOf(n, TRUE, b) EXCEPT !.headers = h] : n \in {A}, b \in {JsonBytes(<<"j">>, Object(A :> Text(X))), JsonBytes(<<"l">>, Object(A :> Text(Y)))},
                      h \in {NoAttributes, K :> X}}
Numbered(parts) == [i \in DOMAIN parts |-> [parts[i] EXCEPT !.index = i - 1]]
Multipart(parts) == [Reading EXCEPT !.parts = <<[boundary |-> X, parts |-> Numbered(parts)]>>]
MultipartRules == {EmptyCategory("body"), [name |-> "body", rules |-> <<At(On(A), <<Rule("type")>>)>>],
                   [name |-> "body", rules |-> <<At(Append(On(A), Field(A)), <<Rule("type")>>)>>]}
Boundary == <<"multipart", "/", "form-data", ";", "boundary", "=", "x">>
MultipartInputs == [expected : SeqOf(Some, 2), actual : SeqOf(Some, 2), rules : MultipartRules]

\* Messages
Contents == {BodyOf("missing", NoBytes, <<>>)} \union
            {BodyOf("present", b, t) : b \in {JsonBytes(<<"j">>, Object(A :> Text(X))), JsonBytes(<<"l">>, Object(A :> Text(Y))), DataOf(X)}, t \in {<<>>, <<Json>>}}
Metadata == {NoAttributes, ContentTypeKey :> Text(ContentTypeText(Utf(Json))), K :> Text(X), K :> Text(Y)}
MessageRules ==
    {NoRules, Category("body", <<At(<<Root>>, <<Rule("type")>>)>>), Category("contents", <<At(<<Root>>, <<Rule("type")>>)>>),
     Category("metadata", <<At(On(K), <<Rule("type")>>)>>)}
Messages(rules) == [contents : Contents, metadata : Metadata, rules : rules]
MessageInputs == [expected : Messages(MessageRules), actual : Messages({NoRules}), v4 : BOOLEAN]
Plain2 == [contents |-> BodyOf("missing", NoBytes, <<>>), metadata |-> NoAttributes, rules |-> NoRules]
Responses == SeqOf({Plain2, [Plain2 EXCEPT !.metadata = K :> Text(X)], [Plain2 EXCEPT !.metadata = K :> Text(Y)]}, 2)
SyncInputs == [expected : Responses, actual : Responses]

AskHeaders == Ask("headers", HeaderInputs)
AskParameters == Ask("parameters", ParameterInputs)
AskQuery == Ask("query", QueryInputs)
AskStatus == Ask("status", StatusInputs)
AskBody == Ask("body", BodyInputs)
AskXml == Ask("xml", XmlInputs)
AskMultipart == Ask("multipart", MultipartInputs)
AskMessage == Ask("message", MessageInputs)
AskResponses == Ask("responses", SyncInputs)

AskWhole == AskHeaders \/ AskParameters \/ AskQuery \/ AskStatus \/ AskBody \/ AskXml \/ AskMultipart \/ AskMessage \/ AskResponses

WholeKinds == {"headers", "parameters", "query", "status", "body", "xml", "multipart", "message", "responses"}

Request(part, query, rules) ==
    [method |-> <<"get">>, path |-> X, query |-> query, headers |-> part.headers, body |-> part.body, status |-> 200, rules |-> rules]
Empty == [headers |-> <<>>, body |-> BodyOf("missing", NoBytes, <<>>)]
WithHeaders(h) == [Empty EXCEPT !.headers = h]

Headers(expected, actual, rules) ==
    All(MatchHeaders(expected, actual, HeaderContext(ContextFor(rules, "header", "NoUnexpectedKeys"))))
HeaderMismatches == Headers(input.expected, input.actual, input.rules)
QueryMismatches == All(MatchQuery(input.expected, input.actual, ContextFor(input.rules, "query", "NoUnexpectedKeys")))

\* The result for the whole request, of which only what was asked for differs.
RequestOf(which) ==
    CASE question \in {"headers", "parameters"} -> Request(WithHeaders(input[which]), <<>>, input.rules)
      [] question = "query" -> Request(Empty, input[which], input.rules)
      [] question = "body" -> Request(input[which], <<>>, input.rules)
Result == MatchRequest(RequestOf("expected"), RequestOf("actual"))
IsHttp == question \in {"headers", "parameters", "query", "body"}

-----------------------------------------------------------------------------
Recased(headers) == IF headers = <<>> THEN <<>> ELSE <<[i \in DOMAIN headers[1] |-> [headers[1][i] EXCEPT !.key = LowerCase(@)]]>>

\* The case of a header's name never matters to whether the headers match: neither in the actual
\* headers, nor in the expected ones, nor in the paths of the rules (find_entry, HeaderMatchingContext).
HeaderNamesIgnoreCase ==
    question = "headers" =>
        (HeaderMismatches = {} <=>
           Headers(Recased(input.expected), Recased(input.actual), [c \in DOMAIN input.rules |-> LowerCased(input.rules[c])]) = {})

\* Without rules the headers match exactly if the expected values are there, apart from
\* white space around them; an expected empty value is also the value that is not there.
PlainHeadersAreThere ==
    question = "headers" /\ input.rules = NoRules =>
        LET wanted == input.expected[1][1]
            found == IF input.actual = <<>> THEN <<>> ELSE FindEntry(input.actual[1], wanted.key)
            trimmed(values) == [i \in DOMAIN values |-> Trim(values[i])]
        IN  HeaderMismatches = {} <=>
              /\ found # <<>>
              /\ LET given == trimmed(found[1].values)
                     more == SubSeq(given, Len(wanted.values) + 1, Len(given))
                 IN  /\ given = trimmed(wanted.values) \o more
                     /\ IF wanted.values = <<>> THEN more = <<>> ELSE ToSet(more) \subseteq {<<>>}

\* Matching a header with parameters is reflexive and transitive: it is an order of what is demanded.
ParametersAreDemands ==
    question = "parameters" =>
        LET matches(e, a) == Headers(e, a, NoRules) = {}
        IN  /\ matches(input.expected, input.expected)
            /\ \A t \in Types : matches(input.expected, input.actual) /\ matches(input.actual, Single(<<"accept">>, <<t>>))
                                  => matches(input.expected, Single(<<"accept">>, <<t>>))

\* Without rules a query matches exactly if it is the expected one; no query and an empty one are the same.
PlainQueryIsTheSame ==
    question = "query" /\ input.rules = NoRules =>
        LET of(query) == IF query = <<>> THEN NoAttributes ELSE query[1]
        IN  QueryMismatches = {} <=> of(input.expected) = of(input.actual)

\* A request that matches gets the best score there is for the expected one, and every other one less.
BestScoreMeansMatch ==
    IsHttp =>
        LET expected == RequestOf("expected")
            best == 2 + (IF expected.query = <<>> THEN 0 ELSE Cardinality(DOMAIN expected.query[1]))
                      + (IF expected.headers = <<>> THEN 0 ELSE Len(expected.headers[1]))
            result == Result
        IN  IF AllMatched(result) THEN Score(result) = best ELSE Score(result) < best

\* A body that matches as part of a request matches as part of a response, where unexpected
\* keys are allowed, whatever its type.
RequestsAreStricter ==
    question = "body" =>
        (AllMatched(Result) => MatchResponse(RequestOf("expected"), RequestOf("actual")) = {})

\* The classes of status codes are apart and together all of 100 to 599: a status is accepted as an
\* error or as no error, never as both, and as one of the five classes at most; without rules it
\* is the expected status (match_status, match_status_code).
OneClassOfStatus ==
    question = "status" =>
        LET accepted(rules) ==
                MatchResponse([Request(Empty, <<>>, rules) EXCEPT !.status = input.expected],
                              [Request(Empty, <<>>, NoRules) EXCEPT !.status = input.actual]) = {}
            as(c) == accepted(Category("status", <<At(<<>>, <<WithText("status-code", StatusClasses[c])>>)>>))
            classes == {c \in {"information", "success", "redirect", "clientError", "serverError"} : as(c)}
        IN  /\ as("error") # as("nonError")
            /\ Cardinality(classes) = IF input.actual \in 100..599 THEN 1 ELSE 0
            /\ accepted(NoRules) <=> input.expected = input.actual

Readable(part) ==
    LET type == ContentTypeOf(part)
    IN  IsPresent(part.body) =>
          /\ IsJson(type) => part.body.bytes.json.type # "garbage"
          /\ IsXml(type) => part.body.bytes.xml.kind # "garbage"
          /\ IsForm(type) => part.body.bytes.form # <<>>

\* Without rules a request that is replayed matches, unless its body cannot be read as what it says it is.
ReplayMatches ==
    question = "body" /\ input.rules = NoRules /\ input.expected = input.actual =>
        (AllMatched(Result) <=> Readable(input.expected))

Xml1(e, a, config) == MatchXml(e, a, Context(input.rules, config))

\* A document that matches when nothing else is allowed matches when it is; without rules it is
\* then the expected document, but for the order of elements with different names and space around texts.
XmlStrictImpliesLoose ==
    question = "xml" /\ input.config = "NoUnexpectedKeys" =>
        (Xml1(input.expected, input.actual, input.config) = {} => Xml1(input.expected, input.actual, "AllowUnexpectedKeys") = {})

PlainXmlIsTheSame ==
    question = "xml" /\ input.rules = EmptyCategory("body") /\ input.config = "NoUnexpectedKeys" =>
        LET same(e, a) == e.name = a.name /\ e.attributes = a.attributes /\ ElementText(e) = ElementText(a)
            below(e, n) == ChildrenNamed(e, n)
            e == input.expected
            a == input.actual
        IN  Xml1(e, a, input.config) = {} <=>
              /\ same(e, a)
              /\ ChildNames(e) = ChildNames(a)
              /\ \A n \in ChildNames(e) : /\ Len(below(e, n)) = Len(below(a, n))
                                          /\ \A i \in DOMAIN below(e, n) : same(below(e, n)[i], below(a, n)[i])

Parted(actual) ==
    MatchMimeMultipart(Multipart(input.expected), Multipart(actual), Single(<<"content-type">>, <<Boundary>>),
                       Single(<<"content-type">>, <<Boundary>>), Context(input.rules, "NoUnexpectedKeys"))
Named(parts) == \A i \in DOMAIN parts : parts[i].name # <<>>
Distinct(parts) == \A i, j \in DOMAIN parts : i # j => parts[i].name # parts[j].name

\* Parts that have names of their own match in any order, and a further part does not matter.
NamedPartsInAnyOrder ==
    question = "multipart" /\ Named(input.actual) /\ Named(input.expected) /\ Distinct(input.actual) =>
        /\ Parted(Reverse(input.actual)) = Parted(input.actual)
        /\ Parted(input.actual) = {} => Parted(Append(input.actual, PartOf(<<"B">>, FALSE, DataOf(X)))) = {}

\* A rule for a field inside a file part frees that field and nothing beside it: the file matches
\* if the rest of it does, and files that differ elsewhere do not (match_file_part).
FileRulesReachTheFile ==
    question = "multipart" /\ Len(input.expected) = 1 /\ Len(input.actual) = 1
      /\ input.expected[1].file /\ input.actual[1].file
      /\ input.expected[1].headers = input.actual[1].headers =>
        (Parted(input.actual) = {} <=> input.rules # EmptyCategory("body") \/ input.expected[1].data = input.actual[1].data)

\* A message that matches has all of the metadata that is expected, whatever the rules.
MessagesHaveTheirMetadata ==
    question = "message" =>
        (MatchMessage(input.expected, input.actual, input.v4) = {} =>
            DOMAIN input.expected.metadata \subseteq DOMAIN AsMessage(input.actual).metadata)

\* The responses of a synchronous message match if none is expected, else only one by one.
ResponsesMatchOneByOne ==
    question = "responses" =>
        (MatchResponses(input.expected, input.actual) = {} <=>
           \/ input.expected = <<>>
           \/ /\ Len(input.expected) = Len(input.actual)
              /\ \A i \in DOMAIN input.expected : DOMAIN input.expected[i].metadata # {} => input.expected[i] = input.actual[i])

=============================================================================
