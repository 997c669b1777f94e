------------------------------ MODULE MCContents ------------------------------
(***************************************************************************)
(* Requests, responses and messages as calls describe them, beside the     *)
(* questions of MCGenerators: a behaviour picks the values that are        *)
(* given to a header or a parameter, or up to three calls, and stops.      *)
(***************************************************************************)
EXTENDS PactJson, MCGenerators

NewRequest == [method |-> <<"GET">>, path |-> <<"/">>, query |-> <<>>, headers |-> <<>>, body |-> BodyOf("missing", NoBytes, <<>>),
               status |-> 200, rules |-> NoRules]
NewResponse == [NewRequest EXCEPT !.method = <<>>, !.path = <<>>]
NewMessage == [contents |-> BodyOf("missing", NoBytes, <<>>), metadata |-> NoAttributes, rules |-> NoRules]
NewAbout == [states |-> <<>>, comments |-> NoAttributes, key |-> <<>>, pending |-> FALSE]

AnX == Matcher(<<OnlyX>>, Text(X))
AnyText == Matcher(<<Rule("type")>>, Text(Y))
Both == Attribute(List(<<Text(X), Text(Y)>>))
BothFree == Matcher(<<Rule("type")>>, List(<<Text(X), Text(Y)>>))

\* Values of one header or parameter, given one by one.
Givens == SeqOf({Text(X), Text(Y), AnX, AnyText}, 3) \ {<<>>}
GivenInputs == {[of |-> o, givens |-> g, actual |-> a] : o \in {"header", "query"}, g \in Givens, a \in SeqOf({X, Y}, 3) \ {<<>>}}
Matching1 == {i \in GivenInputs : Len(i.givens) = Len(i.actual)}

\* A call is the operation and what it is given; its subject is what it says something about.
Call(op, subject, args) == [op |-> op, subject |-> subject, args |-> args]
JsonBody(doc) == [bytes |-> JsonBytes(<<"j">>, Example(doc)), doc |-> doc]
TextBody == [bytes |-> DataOf(X), doc |-> None]
BinaryBody == [Reading EXCEPT !.text = <<"p">>, !.utf8 = FALSE]
EmptyBody == [bytes |-> NoBytes, doc |-> None]
JsonDocs == {Object(A :> TypeOf(Text(X))), Object(A :> Text(Y)), Matcher(<<Rule("type")>>, List(<<Text(X)>>)), Text(<<>>), Null}
FormType == Type("application", "x-www-form-urlencoded")
PngText == <<"image", "/", "png">>
FilePart(name) == [PartOf(name, TRUE, BinaryBody) EXCEPT !.type = Type("image", "png")]

BodyCalls ==
    {Call("body", "body", [type |-> t, given |-> g]) :
        t \in {<<>>, <<Json>>, <<FormType>>, <<Plain>>}, g \in {JsonBody(d) : d \in JsonDocs} \union {TextBody, EmptyBody}}
    \union {Call(op, "body", [text |-> PngText, pointer |-> p]) : op \in {"binary body", "binary file"}, p \in {<<>>, <<BinaryBody>>}}

PartCalls ==
    BodyCalls
    \union {Call("header", "a", [name |-> n, index |-> i, given |-> g]) : n \in {<<"a">>, <<"A">>}, i \in {0, 1}, g \in {Text(X), Text(<<"x", ",", "y">>), AnX, Both, BothFree}}
    \union {Call("header v1", "a", [name |-> A, index |-> 1, given |-> g]) : g \in {Text(X), AnX}}
    \union {Call("header", "body", [name |-> <<"content-type">>, index |-> 0, given |-> Text(t)]) : t \in {PngText, ContentTypeText(Json)}}
    \union {Call("set header", "b", [name |-> <<"B">>, value |-> Y])}
    \union {Call("file", "body", [name |-> n, boundary |-> b]) : n \in {A, K}, b \in {X, Y}}
    \union {Call("rules", IF k = A THEN "a" ELSE "b", [rules |-> Category("header", <<At(On(k), <<Rule("type")>>)>>)]) : k \in {A, K}}
RequestCalls ==
    PartCalls
    \union {Call("request", "path", [method |-> <<"get">>, given |-> g]) : g \in {Text(<<"/", "x">>), AnX}}
    \union {Call(op, "query", [name |-> A, index |-> i, given |-> g]) : op \in {"query", "query v1"}, i \in {0, 1}, g \in {Text(X), AnX, Both}}
    \union {Call("query", "query", [name |-> A, index |-> 0, given |-> NullPointer])}
ResponseCalls ==
    PartCalls
    \union {Call("status", "status", [given |-> g]) : g \in {Text(<<"404">>), Text(X), Matcher(<<WithText("status-code", StatusClasses["error"])>>, Text(<<"404">>))}}

DoPart(part, call) ==
    LET a == call.args
    IN  CASE call.op = "request" -> WithRequest(part, a.method, a.given)
          [] call.op = "status" -> WithStatus(part, a.given)
          [] call.op = "query" -> WithQueryParameter(part, a.name, a.index, a.given)
          [] call.op = "query v1" -> WithQueryParameterV1(part, a.name, a.index, a.given)
          [] call.op = "header" -> WithHeader(part, a.name, a.index, a.given)
          [] call.op = "header v1" -> WithHeaderV1(part, a.name, a.index, a.given)
          [] call.op = "set header" -> SetHeader(part, a.name, <<a.value>>)
          [] call.op = "body" -> WithBody(part, a.type, a.given)
          [] call.op = "binary body" -> WithBinaryBody(part, a.text, a.pointer)
          [] call.op = "binary file" -> WithBinaryFile(part, 4, a.text, a.pointer)
          [] call.op = "file" -> WithMultipartFile(part, PngText, <<FilePart(a.name)>>, a.name, a.boundary, {FormDataHeader(X), FormDataHeader(Y)})
          [] call.op = "rules" -> WithMatchingRules(part, a.rules)

Docs == {Text(X), Object(A :> TypeOf(Text(X))), List(<<AnInteger>>), NullPointer}
MessageCalls ==
    BodyCalls
    \union {Call("metadata", k, [key |-> k, doc |-> d]) : k \in {K, ContentTypeKey}, d \in Docs}
    \union {Call("contents", "body", [text |-> t, given |-> JsonBody(Object(A :> TypeOf(Text(X))))]) : t \in {ContentTypeText(Json), PngText, <<>>}}
    \union {Call("rules", "metadata", [rules |-> Category("metadata", <<At(On(K), <<Rule("type")>>)>>)])}

DoMessage(message, call) ==
    LET a == call.args
    IN  CASE call.op = "body" -> WithContents(message, a.type, a.given)
          [] call.op = "binary body" -> WithBinaryContents(message, a.text, a.pointer)
          [] call.op = "binary file" -> WithBinaryFileContents(message, 4, a.text, a.pointer)
          [] call.op = "contents" -> MessageWithContents(message, a.text, a.given)
          [] call.op = "metadata" -> WithMetadata(message, a.key, a.doc)
          [] call.op = "rules" -> WithMatchingRules(message, a.rules)

\* What is said of the responses of a synchronous message is said of each of them, and a body makes a new one.
DoResponses(responses, call) ==
    IF call.op \in {"body", "binary body", "binary file"} THEN Append(responses, DoMessage(NewMessage, call))
    ELSE [i \in DOMAIN responses |-> DoMessage(responses[i], call)]

AboutCalls ==
    {Call("given", "states", [name |-> A]), Call("test name", "testname", [name |-> X]), Call("pending", "pending", <<>>)}
    \union {Call("param", "states", [name |-> A, param |-> p, value |-> Text(X)]) : p \in {X, Y}}
    \union {Call("params", "states", [name |-> A, json |-> j]) : j \in {Text(X), Object((X :> Text(X)) @@ (Y :> Text(X))), Object(NoAttributes)}}
    \union {Call("comment", "text", [key |-> <<"text">>, value |-> v]) : v \in {Text(X), List(<<>>), Null, NullPointer}}
    \union {Call("text", "text", [text |-> t]) : t \in {X, Y}}
    \union {Call("key", "key", [key |-> k]) : k \in {<<>>, <<X>>}}

DoAbout(about, call) ==
    LET a == call.args
    IN  CASE call.op = "given" -> Given(about, a.name)
          [] call.op = "param" -> GivenWithParam(about, a.name, a.param, a.value)
          [] call.op = "params" -> GivenWithParams(about, a.name, a.json)
          [] call.op = "test name" -> TestName(about, a.name)
          [] call.op = "comment" -> SetComment(about, a.key, a.value)
          [] call.op = "text" -> AddTextComment(about, a.text)
          [] call.op = "key" -> SetKey(about, a.key)
          [] call.op = "pending" -> SetPending(about, TRUE)

AskGivens == Ask("givens", Matching1)
AskRequestCalls == Ask("request calls", SeqOf(RequestCalls, 2))
AskResponseCalls == Ask("response calls", SeqOf(ResponseCalls, 2))
AskMessageCalls == Ask("message calls", SeqOf(MessageCalls, 2))
AskSyncCalls == Ask("sync calls", SeqOf(MessageCalls, 2))
AskAboutCalls == Ask("about calls", SeqOf(AboutCalls, 3))
AskContents == AskGivens \/ AskRequestCalls \/ AskResponseCalls \/ AskMessageCalls \/ AskSyncCalls \/ AskAboutCalls
ContentKinds == {"givens", "request calls", "response calls", "message calls", "sync calls", "about calls"}

SpecWhole ==
    /\ InitWith(RuleKinds \union JsonKinds \union IntegrationKinds \union WholeKinds \union GeneratorKinds \union ContentKinds)
    /\ [][Next \/ JsonNext \/ IntegrationNext \/ AskWhole \/ AskGenerators \/ AskContents \/ Answer]_vars

-----------------------------------------------------------------------------
GivenTo(of, part, index, given) ==
    IF of = "header" THEN WithHeader(part, A, index, given) ELSE WithQueryParameter(part, A, index, given)
GivenAll(of, givens) ==
    LET put(part, i) == GivenTo(of, part, i - 1, givens[i]) IN FoldLeft(put, NewRequest, [i \in DOMAIN givens |-> i])
ActualOf(of, values) == IF of = "header" THEN [NewRequest EXCEPT !.headers = Single(A, values)] ELSE PutQuery(NewRequest, A, values)
MatchesAll(expected, actual) == AllMatched(MatchRequest(expected, actual))

IsCalls == question \in {"request calls", "response calls"}
PartAfter(calls) == FoldLeft(DoPart, IF question = "request calls" THEN NewRequest ELSE NewResponse, calls)
MessageAfter(calls) == FoldLeft(DoMessage, NewMessage, calls)
Fewer(calls) == {SubSeq(calls, i, j) : i \in DOMAIN calls, j \in DOMAIN calls} \union {<<>>}
OfDifferentThings == \A i, j \in DOMAIN input : i # j => input[i].subject # input[j].subject

AcceptsPart(expected, actual) ==
    IF question = "request calls" THEN MatchesAll(expected, actual) ELSE MatchResponse(expected, actual) = {}
ReadBack(part) ==
    IF question = "request calls" THEN RequestFromJson(RequestToJson(part)) ELSE ResponseFromJson(ResponseToJson(part))

\* What the file does not keep: rules for some of the values of a header or a parameter, which become rules
\* for all of them, rules for a header in two cases, of which no one is the first, and JSON
\* bodies that are null or an empty text.
IsKept(rules) ==
    /\ \A c \in DOMAIN rules \ {"body"} : \A e \in ToSet(rules[c].rules) : \A t \in ToSet(e.path) : t.kind # "index"
    /\ "header" \in DOMAIN rules =>
         LET of == rules["header"] IN Cardinality({e.path : e \in ToSet(LowerCased(of).rules)}) = Len(of.rules)
IsKeptBody(body) == body.kind # "null" /\ (IsPresent(body) => body.bytes.json \notin {Null, Text(<<>>)})
IsTyped(body) == IsPresent(body) => body.type # <<>>

-----------------------------------------------------------------------------
\* Values that are given one by one are accepted exactly if each is accepted by what was given in its
\* place: a rule for one value is never one for another (from_integration_json_v2). The rule of
\* the first value is for all of them, as long as no other one has a rule.
RuleMeansItsIndex ==
    question = "givens" =>
        LET gs == input.givens
            own(i) == MatchesAll(GivenAll(input.of, <<gs[i]>>), ActualOf(input.of, <<input.actual[i]>>))
        IN  (Len(gs) = 1 \/ gs[1].type = "string" \/ \E i \in 2..Len(gs) : gs[i].type = "matcher") =>
            (MatchesAll(GivenAll(input.of, gs), ActualOf(input.of, input.actual)) <=> \A i \in DOMAIN gs : own(i))

\* Plain values are the same in whatever order they are given, one by one, again, or as one list, and by the
\* first version of the calls or the second (update_query_map, set_header).
PlainValuesInAnyOrder ==
    question = "givens" /\ (\A i \in DOMAIN input.givens : input.givens[i].type = "string") =>
        LET gs == input.givens
            put(part, i) == GivenTo(input.of, part, i - 1, gs[i])
            v1(part, i) == IF input.of = "header" THEN WithHeaderV1(part, A, i - 1, gs[i]) ELSE WithQueryParameterV1(part, A, i - 1, gs[i])
            indices == [i \in DOMAIN gs |-> i]
            one == GivenAll(input.of, gs)
        IN  /\ FoldLeft(put, NewRequest, Reverse(indices)) = one
            /\ GivenTo(input.of, NewRequest, 0, Attribute(List(gs))) = one
            /\ [FoldLeft(v1, NewRequest, indices) EXCEPT !.rules = one.rules] = one
            /\ FoldLeft(put, one, indices) = one

\* A request or a response that is read back from the pact file accepts what the described one accepts,
\* apart from what the file does not keep and from responses whose body has no type.
FileTellsThePart ==
    IsCalls =>
        LET part == PartAfter(input)
            read == ReadBack(part)
        IN  IsKept(part.rules) /\ IsKeptBody(part.body) /\ (question = "response calls" => IsTyped(part.body)) =>
              \A calls \in Fewer(input) : AcceptsPart(part, PartAfter(calls)) <=> AcceptsPart(read, PartAfter(calls))

\* ... and so do messages: asynchronous ones, the request of a synchronous one and its responses.
IsKeptMessage(message) == IsKept(message.rules) /\ IsKeptBody(message.contents) /\ IsTyped(message.contents)
FileTellsTheMessage ==
    question = "message calls" =>
        LET message == MessageAfter(input)
            same(read) == \A calls \in Fewer(input) :
                MatchMessage(message, MessageAfter(calls), TRUE) = {} <=> MatchMessage(read, MessageAfter(calls), TRUE) = {}
        IN  IsKeptMessage(message) => same(ContentsFromJson(ContentsToJson(message))) /\ same(ContentsFromJson(AsyncToJson(message)))
FileTellsTheResponses ==
    question = "sync calls" =>
        LET responses == FoldLeft(DoResponses, <<>>, input)
            read == SyncFromJson(SyncToJson([request |-> NewMessage, responses |-> responses])).responses
        IN  (\A i \in DOMAIN responses : IsKeptMessage(responses[i])) =>
              \A calls \in Fewer(input) :
                  LET actual == FoldLeft(DoResponses, <<>>, calls) IN MatchResponses(responses, actual) = {} <=> MatchResponses(read, actual) = {}

\* The states, the key and the mark of an interaction that is pending are read back as they were told, and
\* so is every comment that says something.
FileTellsTheRest ==
    question = "about calls" =>
        LET about == FoldLeft(DoAbout, NewAbout, input)
            said == {k \in DOMAIN about.comments : about.comments[k] \notin {Null, List(<<>>)}}
        IN  AboutFromJson(AboutToJson(about)) = [about EXCEPT !.comments = [k \in said |-> @[k]]]

\* If the body is told once, and no header but by that call, the header that it gets, its own type and
\* the type that is read back from the file are the same (process_body, calc_content_type, body_from_json).
OneTypeForABody ==
    IsCalls /\ Len(SelectSeq(input, LAMBDA c : c.subject = "body")) = 1 =>
        LET part == PartAfter(input)
            header == FindEntry(Entries(part), ContentTypeHeader)
            read == ReadBack(part)
        IN  IsPresent(part.body) /\ part.body.type # <<>> =>
              /\ header # <<>> /\ Len(header[1].values) = 1 /\ BaseType(AsType(header[1].values[1])[1]) = part.body.type[1]
              /\ IsPresent(read.body) => read.body.type = part.body.type

\* A header that is told in two cases is one header, unless the first version of the call or a body tells it.
OneHeaderForAName ==
    IsCalls /\ (\A i \in DOMAIN input : input[i].op \notin {"header v1", "body"}) =>
        LET keys == Entries(PartAfter(input)) IN \A i, j \in DOMAIN keys : LowerCase(keys[i].key) = LowerCase(keys[j].key) => i = j

\* Of the files of a multipart body every one is found under the boundary that the header names, in the
\* order of the calls, whatever boundary a later call brings (add_part_to_multipart).
EveryPartIsFound ==
    IsCalls /\ input # <<>> /\ (\A i \in DOMAIN input : input[i].op = "file") =>
        LET part == PartAfter(input)
            found == Parts(part.body.bytes, part.headers)
        IN  found # None /\ [i \in DOMAIN input |-> input[i].args.name] = [i \in DOMAIN found.parts |-> found.parts[i].name]

\* What calls about different things describe accepts its own examples, unless the body cannot be read
\* as what it says it is; a matcher for a second value alone, by the first version of the call, is left
\* out, as its rule is also for the first value.
DescribedIsAccepted ==
    IsCalls /\ OfDifferentThings
            /\ (\A i \in DOMAIN input : input[i].op = "header v1" => input[i].args.given = Text(X)) =>
        (Readable(PartAfter(input)) => AcceptsPart(PartAfter(input), PartAfter(input)))

\* Calls about different things may be made in any order: the body, the headers, the query, the path and the
\* status do not depend on each other, and neither do their rules.
CallsCommute ==
    IsCalls /\ OfDifferentThings =>
        LET unordered(part) ==
                [part EXCEPT !.headers = ToSet(Entries(part)),
                             !.rules = [c \in {d \in DOMAIN @ : @[d].rules # <<>>} |-> ToSet(@[c].rules)]]
        IN  unordered(PartAfter(input)) = unordered(PartAfter(Reverse(input)))

-----------------------------------------------------------------------------
\* What the run checks: whenever a question is answered, the statements above, by what could go wrong.

\* A path that is written and read, or joined key by key on the way through a document, still
\* leads to the value it was written for (path_exp.rs), and so does one that generates values (json_utils.rs);
\* keys with quotes or backslashes are only claimed to be written apart.
PathsMeetTheirValues ==
    [][Answer =>
        TextsReadBack /\ PathsReadBack /\ KeysAreWrittenApart /\ KeysMeetTheirRules /\ PointersAreDistinct /\ GeneratorsMeetTheirValues]_vars

\* Of several rules that match a value one is used, the most specific, whatever the order of the map.
BestRulesAreSelected ==
    [][Answer =>
        SpecificWins /\ SelectionIgnoresOrder /\ DefinedMeansSelected]_vars

\* Rules that go through a pact file of their version, or through their name and values, are the same, and
\* what is read back from a file accepts what was described; generators go through it too.
SavedRulesSurvive ==
    [][Answer =>
        /\ RulesReadBack /\ NamesMakeTheRule /\ V3ReadsBack /\ V2ReadsBack
        /\ FileTellsThePart /\ FileTellsTheMessage /\ FileTellsTheResponses /\ FileTellsTheRest
        /\ OneTypeForABody /\ GeneratorsReadBack /\ NamesMakeTheGenerator]_vars

\* Without rules every part of a request or response is compared with the example, and nothing more.
PlainMeansTheSame ==
    [][Answer =>
        /\ PlainMeansContained /\ PlainHeadersAreThere /\ PlainQueryIsTheSame /\ PlainXmlIsTheSame
        /\ ReplayMatches /\ EnginesAgreeOnExamples]_vars

\* A rule frees what it is for, reaches as far down as it should, and frees nothing else; a generator
\* changes what it is for, and what it generates is accepted where it should be.
RulesDoWhatTheySay ==
    [][Answer =>
        /\ TypeReachesDown /\ BoundsDoNotCascade /\ AndMeansBoth /\ ExamplesMatchThemselves
        /\ OneClassOfStatus /\ FileRulesReachTheFile /\ MessagesHaveTheirMetadata
        /\ DocumentsMeanWhatTheySay /\ FormsMatchThemselves
        /\ RuleMeansItsIndex /\ DescribedIsAccepted
        /\ EnginesAgreeOnRules /\ PlanAcceptsItsDocument
        /\ OnlyReachedChanges /\ OnePairIsGenerated /\ GeneratedIsAccepted /\ GeneratedRequestIsAccepted
        /\ DecimalsAreNumbers]_vars

\* Whatever is accepted when less is allowed is accepted when more is.
StricterAcceptsLess ==
    [][Answer =>
        /\ StrictImpliesLoose /\ XmlStrictImpliesLoose /\ RequestsAreStricter
        /\ ExtraKeysAreHarmless]_vars

\* The result of a comparison is of the values compared: the path of a mismatch leads to a value, the
\* score tells a match from a mismatch, and the result that is read from a plan is the plan's own,
\* body types apart.
ResultsTellTheMismatches ==
    [][Answer =>
        MismatchesPointAtValues /\ BestScoreMeansMatch /\ PlanTellsItsVerdict]_vars

\* Order, case and names of what has no order, no case or no name do not matter, and those of what has, do; nor does
\* it matter to a generator whether a body, a header, a status, a request, a response or a message is generated.
OrderAndCaseDoNotMatter ==
    [][Answer =>
        /\ HeaderNamesIgnoreCase /\ ParametersAreDemands /\ NamedPartsInAnyOrder
        /\ ContainsIgnoresOrder /\ ValuesIgnoreKeys /\ ResponsesMatchOneByOne
        /\ PlainValuesInAnyOrder /\ CallsCommute /\ EveryPartIsFound /\ OneHeaderForAName
        /\ GeneratorsInAnyOrder /\ ProvidedAlike /\ StatusIsTheNumber /\ ResponsesAlike /\ MessagesAlike]_vars
=============================================================================
