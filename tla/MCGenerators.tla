----------------------------- MODULE MCGenerators -----------------------------
(***************************************************************************)
(* Generators over small documents, requests and messages: a behaviour     *)
(* picks what they are applied to, where and in which mode, and stops.     *)
(***************************************************************************)
EXTENDS Generators, MCPlans

Numeral(n) == Value("integer", <<ToString(n)>>)
Key0 == <<"0">>
Slashed == <<"a", "/", "b">>
PlainValues == {Text(X), Numeral(1)}
OriginalDocuments ==
    {Text(X), Null, List(<<>>), Object(A :> List(<<Object(K :> Numeral(1)), Text(X)>>)), List(<<Object(A :> Text(X)), Object(A :> Null)>>),
     Object((A :> Object(K :> Text(X))) @@ (K :> Numeral(1))), Object((<<>> :> Text(X)) @@ (Key0 :> List(<<Text(Y)>>))),
     Object(Slashed :> Text(X)), Object((Slashed :> Text(X)) @@ (A :> Object(K :> Text(X))))}
    \union {Object(A :> v) : v \in PlainValues} \union {List(<<v, w>>) : v \in PlainValues, w \in {Text(Y)}}
GeneratorPlaces == {<<Root>> \o p : p \in SeqOf({Field(A), Field(K), Field(<<>>), Field(Slashed), Index(<<"0">>), Index(<<"1">>), Star, StarIndex}, 2)} \union {<<>>}

VariantOf(index, rules, generators) == [index |-> index, rules |-> [name |-> "body", rules |-> rules], generators |-> generators]
Generate(path, generator) == [path |-> path, generator |-> generator]
Looked == ProviderState(X, <<>>)
Served == MockServerURL(<<"h", "/", "x">>, {<<"/", "x">>})
Arrays == GenerateArray(<<VariantOf(0, <<At(On(A), <<Rule("integer")>>)>>, <<Generate(On(A), RandomBoolean)>>),
                          VariantOf(1, <<>>, <<Generate(On(A), Looked)>>)>>)
EveryGenerator == {RandomInt(1, 2), RandomInt(2, 1), Uuid(<<"simple">>), Sized("RandomDecimal", 1), Sized("RandomDecimal", 0), Pattern({X, Y}),
           Dated("Date", <<"y">>, <<>>), Dated("Date", <<BadWord>>, <<>>), RandomBoolean, Looked, ProviderState(<<"b">>, <<>>), Served, Arrays}
FewGenerators == {RandomInt(1, 2), RandomBoolean, Looked, Arrays}
FewPlaces == {<<Root>>, On(A), Append(On(A), Field(K)), Append(On(A), StarIndex), <<Root, Star>>, <<Root, StarIndex, Field(A)>>, <<Root, Index(<<"1">>)>>}

Servers == {<<"mockServer">> :> Object(k :> Text(<<"u">>)) : k \in {Url, Href}}
Contexts == {NoAttributes, X :> Numeral(2), <<"providerState">> :> Object(X :> Text(Y))} \union Servers
Env(values, matcher) == [values |-> values, matcher |-> matcher]
Modes == {"Consumer", "Provider"}

DocumentInputs ==
    [document : OriginalDocuments, entries : {<<Generate(p, g)>> : p \in GeneratorPlaces, g \in FewGenerators}, mode : {"Provider"}, values : {X :> Numeral(2)}]
    \union [document : OriginalDocuments, entries : {<<Generate(p, g)>> : p \in FewPlaces, g \in EveryGenerator}, mode : Modes, values : Contexts]
    \union [document : OriginalDocuments, entries : {<<Generate(p, g), Generate(q, h)>> : p, q \in FewPlaces, g, h \in FewGenerators}, mode : {"Provider"}, values : {X :> Numeral(2)}]

\* Requests and responses: the rules ask for the types of what is generated.
TextGenerators == {RandomInt(1, 2), Pattern({Y, <<"x", ",", "y">>}), Looked, Served, Sized("RandomString", 0), Dated("Date", <<BadWord>>, <<>>)}
PartGenerators == {c :> <<Generate(IF c = "path" THEN <<>> ELSE On(k), g)>> : c \in {"path", "header", "query"}, k \in {A, K}, g \in TextGenerators}
PartInputs ==
    [headers : {<<>>} \union {Single(k, v) : k \in {A, <<"A">>}, v \in {<<X>>, <<X, Y>>, <<>>}}, query : {<<>>} \union {<<A :> v>> : v \in {<<X>>, <<X, Y>>}},
     generators : PartGenerators, mode : Modes, values : Contexts]
    \union [headers : {Single(A, <<X>>)}, query : {<<A :> <<X, Y>>>>}, generators : {g @@ h : g, h \in PartGenerators}, mode : {"Consumer"}, values : {X :> Numeral(2)}]

\* Forms
OriginalForms == SeqOf([name : {A, Key0}, value : {X, Y}], 3)
FormInputs == [form : OriginalForms, path : {On(A), On(Key0), <<Root, Index(Key0)>>} \union {Append(On(A), Index(<<ToString(n)>>)) : n \in 0..2}]

\* Messages
MessageGenerators == {"metadata" :> <<Generate(On(k), g)>> : k \in {K, ContentTypeKey}, g \in FewGenerators} \union {"body" :> <<Generate(On(A), g)>> : g \in FewGenerators}
ContentInputs ==
    [contents : Contents, metadata : Metadata \union {K :> List(<<Object(A :> Numeral(1))>>)}, generators : {g @@ h : g, h \in MessageGenerators}, mode : Modes,
     values : {X :> Numeral(2)}]

\* Generators in files
SavedGenerators == EveryGenerator \union {Uuid(<<>>), Sized("RandomString", 3), Sized("RandomHexadecimal", 3), Dated("Time", X, Y), Dated("DateTime", <<>>, Y), ProviderState(X, <<"INTEGER">>)}
SavedInputs ==
    {c :> <<Generate(p, g)>> : c \in {"path", "status", "header", "query", "body", "metadata"}, p \in FewPlaces \union {<<>>}, g \in SavedGenerators}
    \union {c :> <<Generate(p, g), Generate(q, h)>> : c \in {"path", "header", "body"}, p, q \in FewPlaces \union {<<>>}, g, h \in {RandomInt(1, 2), Looked}}

\* Values of provider states
Expressions == SeqOf({"${", "}", "a", "x"}, 4) \ {<<>>}
DataTypes == {<<>>} \union {<<t>> : t \in {"STRING", "INTEGER", "DECIMAL", "BOOLEAN", "RAW"}}
ProvidedValues == {Null, Text(X), Text(<<"0", "7">>), Text(<<"1", ".", "5", "0">>), Text(<<"true">>), Value("boolean", <<"false">>), Numeral(0), Numeral(7), Value("decimal", <<"2", ".", "0">>),
           Value("decimal", <<"1", ".", "5">>), List(<<>>)}
ProvidedInputs ==
    [generator : {ProviderState(<<"a">>, t) : t \in DataTypes}, values : {A :> v : v \in ProvidedValues}]
    \union [generator : {ProviderState(e, <<>>) : e \in Expressions}, values : {A :> v : v \in {Text(X), Numeral(7)}}]

\* Statuses of responses
Large == {<<"6", "5", "5", "3", d>> : d \in {"5", "6"}}
MadeStatusInputs ==
    [generator : {RandomInt(1, 2), RandomInt(2, 1)} \union {ProviderState(A, t) : t \in {<<>>, <<"INTEGER">>, <<"STRING">>}},
     values : {A :> v : v \in ProvidedValues \union {Value(t, n) : t \in {"integer", "string"}, n \in Large}}]

AskReplaced == Ask("replaced", DocumentInputs)
AskGenerated == Ask("generated", PartInputs)
AskGeneratedForm == Ask("generated form", FormInputs)
AskGeneratedContents == Ask("generated contents", ContentInputs)
AskSaved == Ask("saved generators", SavedInputs)
AskProvided == Ask("provided", ProvidedInputs)
AskDecimals == Ask("decimals", 0..5)
AskMadeStatus == Ask("generated status", MadeStatusInputs)
GeneratorKinds == {"generated status", "replaced", "generated", "generated form", "generated contents", "saved generators", "provided", "decimals"}
AskGenerators == AskReplaced \/ AskGenerated \/ AskGeneratedForm \/ AskGeneratedContents \/ AskSaved \/ AskProvided \/ AskDecimals \/ AskMadeStatus

-----------------------------------------------------------------------------
NewStatus == Request(Empty, <<>>, NoRules)

RECURSIVE AllPlaces(_)
AllPlaces(value) ==
    LET names == CASE value.type = "object" -> DOMAIN value.members
                   [] value.type = "array" -> {<<ToString(i - 1)>> : i \in DOMAIN value.items}
                   [] OTHER -> {}
    IN  {<<>>} \union UNION {{<<n>> \o rest : rest \in AllPlaces(ChildAt(value, n)[1])} : n \in names}

AsFragments(names) == <<<<"$">>>> \o names
ValueAt(value, names) == Reach(value, names)[1]

\* A path leads a generator to the values whose own paths the path matches exactly, where the engine that matches
\* also takes a star for an index and a field for a place of a list (resolve_path and matches_path_exactly).
GeneratorsMeetTheirValues ==
    question = "replaced" =>
        \A e \in ToSet(input.entries) :
            LET fits(names) == \A i \in DOMAIN names :
                    e.path[i + 1].kind \in IF ValueAt(input.document, SubSeq(names, 1, i - 1)).type = "object" THEN {"field", "star"} ELSE {"index", "star index"}
                matched == {n \in AllPlaces(input.document) : n # <<>> /\ Last(n) # <<>> /\ e.path # <<>> /\ MatchesPathExactly(e.path, AsFragments(n))}
            IN  ResolvePath(input.document, e.path) = {n \in matched : fits(n)}

Outcomes(entries) == GenerateDocument(input.document, entries, input.mode, Env(input.values, "default"))
Reached(entry) == IF entry.path = <<Root>> THEN {<<>>} ELSE ResolvePath(input.document, entry.path)
ReachedAll(entries) == UNION {Reached(e) : e \in ToSet(Fitting(entries, input.mode))}
Plainly == \A e \in ToSet(input.entries) : \A n \in Reached(e) : Pointer(n) = n

\* Generators change the values that their paths lead to and nothing else, and none in a mode that is not theirs; names
\* with a slash are left out, by which a generator is led elsewhere.
OnlyReachedChanges ==
    question = "replaced" /\ Plainly =>
        \A made \in Outcomes(input.entries) :
            \A n \in AllPlaces(input.document) :
                \/ \E r \in ReachedAll(input.entries) : IsPrefix(r, n) \/ IsPrefix(n, r)
                \/ Reach(made, n) = Reach(input.document, n)

\* The order of the map does not matter to generators that do not reach the values of each other.
GeneratorsInAnyOrder ==
    question = "replaced" /\ Len(input.entries) = 2 /\ Plainly
      /\ (\A m \in Reached(input.entries[1]), n \in Reached(input.entries[2]) : ~ IsPrefix(m, n) /\ ~ IsPrefix(n, m)) =>
        Outcomes(input.entries) = Outcomes(Reverse(input.entries))

\* A document that is generated is accepted by a request whose rules ask for the types of the generated values, exactly
\* if each of them has the type of its example.
GeneratedIsAccepted ==
    question = "replaced" /\ Plainly /\ Len(input.entries) = 1 /\ input.entries[1].path # <<>> =>
        LET e == input.entries[1]
            expected == Request([headers |-> <<>>, body |-> BodyOf("present", Written(input.document), <<Json>>)], <<>>,
                                Category("body", <<At(e.path, <<Rule("type")>>)>>))
            generated == GenerateRequest(expected, "body" :> input.entries, input.mode, Env(input.values, "default"))
        IN  \A made \in generated :
                AllMatched(MatchRequest(expected, made)) <=>
                    \A r \in Reached(e), n \in AllPlaces(input.document) :
                        IsPrefix(r, n) => Reach(made.body.bytes.json, n) # <<>> /\ SameType(ValueAt(input.document, n), ValueAt(made.body.bytes.json, n))

\* A request that is generated is accepted when the rules ask for the types of what is generated, unless a parameter is
\* added, or a header that is to have no value gets one.
GeneratedRequestIsAccepted ==
    question = "generated" =>
        LET rules == [c \in DOMAIN input.generators |-> [name |-> c, rules |-> <<At(input.generators[c][1].path, <<Rule("type")>>)>>]]
            expected == Request(WithHeaders(input.headers), input.query, rules)
            made == GenerateRequest(expected, input.generators, input.mode, Env(input.values, "default"))
            has(values) == input.query # <<>> /\ DOMAIN input.query[1] = DOMAIN values
            kept(m) == \A i \in DOMAIN Entries(expected) : Entries(expected)[i].values = <<>> => Entries(m)[i].values = <<>>
        IN  \A m \in made : AllMatched(MatchRequest(expected, m)) <=> (m.query = <<>> \/ has(m.query[1])) /\ kept(m)

\* The headers and the body of a response are generated as those of a request are (generate_request, generate_response).
ResponsesAlike ==
    question = "generated" =>
        LET part == Request(WithHeaders(input.headers), input.query, NoRules)
            env == Env(input.values, "default")
            told(parts) == {[headers |-> p.headers, body |-> p.body] : p \in parts}
        IN  told(GenerateRequest(part, input.generators, input.mode, env)) = told(GenerateResponse(part, input.generators, input.mode, env))

\* A status is the integer that the generator makes for a body, and stays the same where there is none; one that is too
\* large for a status is another number, and no number if it was given as a text (TryFrom<DataValue> for u16).
StatusIsTheNumber ==
    question = "generated status" =>
        LET env == Env(input.values, "default")
            g == input.generator
            made == GenerateResponse(NewStatus, "status" :> <<Generate(<<>>, g)>>, "Provider", env)
            values == GenerateJson(IF g.kind = "RandomInt" THEN g ELSE ProviderState(A, <<"INTEGER">>), Numeral(1), env)
            given == input.values[A]
            fits(v) == NumberOf(v.text) < 65536
            expected == IF values = {} THEN {NewStatus.status}
                        ELSE IF \A v \in values : fits(v) THEN {NumberOf(v.text) : v \in values}
                        ELSE IF given.type = "string" THEN {NewStatus.status} ELSE {NumberOf(given.text) % 65536}
        IN  {m.status : m \in made} = IF PanickedValue \in values THEN {PanickedStatus} ELSE expected

\* A decimal has as many digits as it should, a point between two of them, and no zero in front that a number has not.
DecimalsAreNumbers ==
    question = "decimals" =>
        \A d \in Decimals(input) :
            /\ Cardinality({i \in DOMAIN d : d[i] # "."}) = input
            /\ input >= 2 => "." \notin {Head(d), Last(d)} /\ Cardinality({i \in DOMAIN d : d[i] = "."}) = 1
            /\ input >= 1 => IsDecimal(d) /\ (input >= 2 /\ d[1] = "0" => d[2] = ".")

\* A value that a provider state gives is the same text as JSON and in a header, but for null as a string and for fractions of
\* zero; where there is none for a body, there is a panic for a header (DataValue's as_json and to_string).
ProvidedAlike ==
    question = "provided" =>
        LET env == Env(input.values, "default")
            values == GenerateJson(input.generator, Null, env)
            texts == GeneratedTexts(input.generator, env)
            found == FromContext(input.generator.expression, input.values)
        IN  /\ found = {} <=> texts = {}
            /\ values = {} => texts \subseteq {PanickedText}
            /\ \A v \in values : v.type # "decimal" /\ found # {Null} => texts = {TextOfJson(v)}

\* Of the pairs of a form at most one changes, and that one is the first that is meant.
OnePairIsGenerated ==
    question = "generated form" =>
        \A made \in GenerateForm(input.form, <<Generate(input.path, RandomBoolean)>>, "Consumer", Env(NoAttributes, "none")) :
            LET changed == {i \in DOMAIN input.form : made[i] # input.form[i]}
            IN  /\ Cardinality(changed) <= 1
                /\ \A i \in changed : \A j \in 1..(i - 1) : Len(input.path) = 2 => made[j].name # made[i].name

\* The three functions for messages do the same, but for arrays and for a message whose type is generated.
MessagesAlike ==
    question = "generated contents" =>
        LET message == [contents |-> input.contents, metadata |-> input.metadata, rules |-> NoRules]
            all == {e \in UNION {ToSet(input.generators[c]) : c \in DOMAIN input.generators} : TRUE}
            by(matcher) == GenerateContents(message, input.generators, input.mode, Env(input.values, matcher))
        IN  /\ (\A e \in all : e.path # On(ContentTypeKey)) => by("none") = GenerateAsync(message, input.generators, input.mode, Env(input.values, "none"))
            /\ (\A e \in all : e.generator.kind # "ArrayContains") => by("none") = by("default")

\* Generators that are written to a file are read back, but for those of arrays and for the paths that a category has no place for.
GeneratorsReadBack ==
    question = "saved generators" =>
        LET c == CHOOSE d \in DOMAIN input : TRUE
            read == GeneratorsFromJson(GeneratorsToJson(input))
            place(path) == CASE c \in SingleCategories -> <<>> [] c \in FieldCategories -> <<Root, Field(FirstFieldOrExpr(path))>> [] OTHER -> path
            kept(e) == e.generator.kind # "ArrayContains" /\ (c \in SingleCategories => e.path \in {<<>>, <<Root>>})
        IN  (\A e \in ToSet(input[c]) : kept(e)) /\ (\A i, j \in DOMAIN input[c] : i # j => place(input[c][i].path) # place(input[c][j].path)) =>
              c \in DOMAIN read /\ ToSet(read[c]) = {Generate(place(e.path), e.generator) : e \in ToSet(input[c])}

\* The name of a generator and its values make the same generator again, but for a random text and for the type of a value of
\* a provider state, whose attributes are read by another name.
NamesMakeTheGenerator ==
    question = "saved generators" =>
        \A c \in DOMAIN input : \A e \in ToSet(input[c]) :
            FromMap(e.generator.kind, GeneratorValues(e.generator)) = <<e.generator>> <=>
                /\ e.generator.kind \notin {"RandomString", "ArrayContains"}
                /\ e.generator.kind = "ProviderState" => e.generator.dataType = <<>>
=============================================================================
