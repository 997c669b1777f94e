------------------------------ MODULE Generators ------------------------------
(***************************************************************************)
(* Generators (generators and expressions of pact_models, and what is made *)
(* of them in pact_matching): which values of a request, a response or a   *)
(* message are replaced before it is used, and by what.                    *)
(*                                                                         *)
(* A generator is a record of its kind and its attributes. What is random  *)
(* is a set: an operator yields every value that may come out, and none    *)
(* for an error. A category of generators is a sequence of entries         *)
(* [path, generator], in the order of its HashMap. Identifiers, hex digits *)
(* and random texts are random in what no code looks at, so one of each    *)
(* stands for all; how a date is made of an expression is left out.        *)
(* env is [values, matcher]: the context and what finds an array's variant *)
(***************************************************************************)
EXTENDS FfiContents

RandomInt(min, max) == [kind |-> "RandomInt", min |-> min, max |-> max]
Sized(kind, n) == [kind |-> kind, size |-> n]
Uuid(format) == [kind |-> "Uuid", format |-> format]
Pattern(texts) == [kind |-> "Regex", regex |-> texts]
Dated(kind, format, expression) == [kind |-> kind, format |-> format, expression |-> expression]
RandomBoolean == [kind |-> "RandomBoolean"]
ProviderState(expression, type) == [kind |-> "ProviderState", expression |-> expression, dataType |-> type]
\* The pattern is the set of the texts that its group may take at the end of the example.
MockServerURL(example, ends) == [kind |-> "MockServerURL", example |-> example, regex |-> ends]
\* Variants are records [index, rules, generators].
GenerateArray(variants) == [kind |-> "ArrayContains", variants |-> variants]

SizedKinds == {"RandomDecimal", "RandomHexadecimal", "RandomString"}
DateKinds == {"Date", "Time", "DateTime"}

CorrespondsToMode(generator, mode) ==
    CASE generator.kind = "ProviderState" -> mode = "Provider"
      [] generator.kind = "MockServerURL" -> mode = "Consumer"
      [] OTHER -> TRUE

\* A panic is a text, a value and a status of its own.
PanickedText == <<"panicked">>
PanickedValue == Value("panicked", PanickedText)
PanickedStatus == 65536

-----------------------------------------------------------------------------
(* generate_decimal: the digits 0 and 1 stand for all. *)
RandomDigits(n) == [1..n -> {"0", "1"}]
WithPoint(digits, position) == SubSeq(digits, 1, position) \o <<".">> \o SubSeq(digits, position + 1, Len(digits))

Decimals(n) ==
    LET sample(s) == IF s[1] = "0" /\ s[2] = "0" THEN <<"1">> \o s ELSE s
        selected(s, position) == IF position # 1 /\ s[1] = "0" THEN SubSeq(s, 2, n + 1) ELSE SubSeq(s, 1, n)
    IN  CASE n <= 1 -> RandomDigits(n)
          [] n = 2 -> {WithPoint(s, 1) : s \in RandomDigits(2)}
          [] OTHER -> {WithPoint(selected(sample(s), position), position) : s \in RandomDigits(n + 1), position \in 1..(n - 2)}

-----------------------------------------------------------------------------
(* Values of provider states: an expression is a name, or a text with names in braces. *)
FirstIn(text, word) == Min({i \in DOMAIN text : text[i] = word})

\* replace_expressions: the pieces of the text, none if a name has no value. A closing brace that comes before
\* the first opening one panics.
RECURSIVE Pieces(_, _)
Pieces(text, config) ==
    LET open == FirstIn(text, "${")
        close == FirstIn(text, "}")
        key == SubSeq(text, open + 1, close - 1)
        plain(part) == IF part = <<>> THEN <<>> ELSE <<Text(part)>>
        before == plain(SubSeq(text, 1, open - 1)) \o (IF key = <<>> THEN <<>> ELSE <<config[key]>>)
    IN  IF "${" \notin ToSet(text) THEN {plain(text)}
        ELSE IF "}" \notin ToSet(text) THEN {}
        ELSE IF close < open THEN {<<PanickedValue>>}
        ELSE IF key # <<>> /\ key \notin DOMAIN config THEN {}
        ELSE {before \o rest : rest \in Pieces(SubSeq(text, close + 1, Len(text)), config)}

\* generate_value_from_context; the values may be those of the key providerState.
FromContext(expression, context) ==
    LET own == <<"providerState">>
        config == IF own \in DOMAIN context /\ context[own].type = "object" THEN context[own].members ELSE context
        joined(pieces) == Text(FlattenSeq([i \in DOMAIN pieces |-> TextOfJson(pieces[i])]))
    IN  IF "${" \notin ToSet(expression) THEN {config[k] : k \in {expression} \intersect DOMAIN config}
        ELSE {CASE PanickedValue \in ToSet(p) -> PanickedValue [] p # <<>> /\ Tail(p) = <<>> -> p[1] [] OTHER -> joined(p) : p \in Pieces(expression, config)}

\* Numbers, without a sign, as they are written.
Fraction(text) == IF "." \in ToSet(text) THEN SubSeq(text, FirstIn(text, ".") + 1, Len(text)) ELSE <<>>
Whole(text) == Number(<<"0">> \o IF "." \in ToSet(text) THEN SubSeq(text, 1, FirstIn(text, ".") - 1) ELSE Digits(text))
AsDecimal(text) ==
    LET digits == <<"0">> \o Fraction(text)
        last == Max({i \in DOMAIN digits : digits[i] # "0"} \union {2})
    IN  Value("decimal", Whole(text) \o <<".">> \o (IF Fraction(text) = <<>> THEN <<"0">> ELSE SubSeq(digits, 2, last)))
IsPositive(text) == ~ (ToSet(text) \subseteq {"0", "."})

\* DataValue::as_json
AsJson(value, type) ==
    LET number(n) == IF type = "INTEGER" THEN Value("integer", Whole(n)) ELSE AsDecimal(n)
        bit == <<IF value.text = <<"true">> THEN "1" ELSE "0">>
        truth(b) == Value("boolean", <<IF b THEN "true" ELSE "false">>)
        isNumber == IF type = "INTEGER" THEN IsNumber(value.text) ELSE IsDecimal(value.text)
    IN  CASE type = "RAW" \/ value = PanickedValue -> {value}
          [] type = "STRING" /\ value # PanickedValue -> {Text(IF value.type \in {"array", "object"} THEN TextOfJson(value) ELSE value.text)}
          [] type \in {"INTEGER", "DECIMAL"} /\ value.type \in {"null", "boolean"} -> {number(bit)}
          [] type \in {"INTEGER", "DECIMAL"} /\ value.type \in NumberTypes \union {"string"} ->
                IF value.type = "string" => isNumber THEN {number(value.text)} ELSE {}
          [] type = "BOOLEAN" /\ value.type \in {"null", "boolean"} -> {truth(value.text = <<"true">>)}
          [] type = "BOOLEAN" /\ value.type \in NumberTypes -> {truth(IsPositive(value.text))}
          [] type = "BOOLEAN" /\ value.type = "string" ->
                IF value.text \in {<<"true">>, <<"false">>} THEN {truth(value.text = <<"true">>)} ELSE {}
          [] OTHER -> {}

\* Display of a DataValue: one that cannot be converted makes to_string panic. A fraction of zero is not shown.
AsText(value, type) ==
    LET shown(text) == IF Fraction(text) = <<"0">> THEN Whole(text) ELSE text
    IN  IF type \in {"STRING", "RAW"} THEN {TextOfJson(value)}
        ELSE IF AsJson(value, type) = {} THEN {PanickedText}
        ELSE {shown(v.text) : v \in AsJson(value, type)}

TypeOfData(generator) == IF generator.dataType = <<>> THEN "RAW" ELSE generator.dataType[1]

-----------------------------------------------------------------------------
(* The text of a value, whatever it was: GenerateValue<String>. *)
UuidText(format) == <<"uuid">> \o (IF format = <<>> THEN <<"lower-case-hyphenated">> ELSE format)

\* What the parsers of formats and expressions do not understand.
BadWord == "?"

\* The URL in place of what the pattern finds before its group; keys are the names under which a URL is looked for.
UrlTexts(generator, env, keys) ==
    LET own == <<"mockServer">>
        server == env.values[own]
        given == SelectSeq(keys, LAMBDA k : k \in DOMAIN server.members)
        ends == {e \in generator.regex : IsSuffix(e, generator.example)}
    IN  IF own \notin DOMAIN env.values \/ generator.regex = {} THEN {}
        ELSE IF server.type # "object" \/ given = <<>> THEN {}
        ELSE IF ends = {} THEN {generator.example}
        ELSE {TextOfJson(server.members[given[1]]) \o (CHOOSE e \in ends : \A other \in ends : Len(e) <= Len(other))}
Url == <<"url">>
Href == <<"href">>

\* The end of the range is excluded where one more would be too much for an i32.
Largest == 2147483647
Drawn(g) == g.min..Min({g.max, Largest - 1})

GeneratedTexts(g, env) ==
    CASE g.kind = "RandomInt" -> IF Drawn(g) = {} THEN {PanickedText} ELSE {<<ToString(n)>> : n \in Drawn(g)}
      [] g.kind = "Uuid" -> {UuidText(g.format)}
      [] g.kind = "RandomDecimal" -> Decimals(g.size)
      [] g.kind = "RandomHexadecimal" -> {[i \in 1..Min({g.size, 16}) |-> "F"]}
      [] g.kind = "RandomString" -> {[i \in 1..g.size |-> "a"]}
      [] g.kind = "Regex" -> g.regex
      [] g.kind \in DateKinds -> IF BadWord \in ToSet(g.format \o g.expression) THEN {} ELSE {<<g.kind>> \o g.format}
      [] g.kind = "RandomBoolean" -> {<<"true">>, <<"false">>}
      [] g.kind = "ProviderState" -> UNION {AsText(v, TypeOfData(g)) : v \in FromContext(g.expression, env.values)}
      [] g.kind = "MockServerURL" -> UrlTexts(g, env, <<Url>>)
      [] g.kind = "ArrayContains" -> {}

\* GenerateValue<u16>, for a status.
Unsigned(value, type) ==
    LET whole == NumberOf(Whole(value.text))
    IN  CASE value.type = "null" -> {0}
          [] value.type = "boolean" -> {IF value.text = <<"true">> THEN 1 ELSE 0}
          [] value.type = "integer" -> {whole % 65536}
          [] value.type = "decimal" -> {Min({whole, 65535})}
          [] value.type = "string" /\ type \in {"INTEGER", "RAW", "STRING"} ->
                IF IsNumber(value.text) /\ whole < 65536 THEN {whole} ELSE {}
          [] value.type = "string" /\ type = "DECIMAL" -> IF IsDecimal(value.text) THEN {Min({whole, 65535})} ELSE {}
          [] value.type = "panicked" -> {PanickedStatus}
          [] OTHER -> {}

GeneratedStatus(g, env) ==
    LET drawn == (g.min % 65536)..(Min({(g.max % 65536) + 1, 65535}) - 1)
    IN  CASE g.kind = "RandomInt" -> IF drawn = {} THEN {PanickedStatus} ELSE drawn
          [] g.kind = "ProviderState" -> UNION {Unsigned(v, TypeOfData(g)) : v \in FromContext(g.expression, env.values)}
          [] OTHER -> {}

-----------------------------------------------------------------------------
(* Paths in a document. The pointer that resolve_path makes of the names of *)
(* a path is taken apart again at every slash: names keep no tilde here.    *)
ChildAt(value, name) ==
    CASE value.type = "object" /\ name \in DOMAIN value.members -> <<value.members[name]>>
      [] value.type = "array" /\ IsNumber(name) /\ NumberOf(name) < Len(value.items) -> <<value.items[NumberOf(name) + 1]>>
      [] OTHER -> <<>>
\* pointer_mut: the value that is reached, or none.
Reach(value, names) ==
    LET below(found, name) == IF found = <<>> THEN <<>> ELSE ChildAt(found[1], name)
    IN  FoldLeft(below, <<value>>, names)

\* The names by which a token leads on.
NamesFor(token, value) ==
    CASE token.kind = "field" /\ value.type = "object" -> {token.name} \intersect DOMAIN value.members
      [] token.kind = "star" /\ value.type = "object" -> DOMAIN value.members
      [] token.kind = "index" /\ value.type = "array" -> {n \in {token.name} : ChildAt(value, n) # <<>>}
      [] token.kind = "star index" /\ value.type = "array" -> {<<ToString(i - 1)>> : i \in DOMAIN value.items}
      [] OTHER -> {}

\* resolve_path, query_object_graph: every way the whole expression leads, as names.
ResolvePath(value, path) ==
    LET further(names, token) == {Append(names, n) : n \in NamesFor(token, Reach(value, names)[1])}
        extend(found, token) == UNION {further(names, token) : names \in found}
    IN  IF path = <<>> \/ path[1] # Root THEN {}
        ELSE {names \in FoldLeft(extend, {<<>>}, Tail(path)) : names # <<>> /\ Last(names) # <<>>}
Pointer(names) == FlattenSeq([i \in DOMAIN names |-> Split(names[i], "/")])

RECURSIVE Replaced(_, _, _)
Replaced(value, names, new) ==
    IF names = <<>> THEN new
    ELSE IF value.type = "object" THEN [value EXCEPT !.members[names[1]] = Replaced(@, Tail(names), new)]
    ELSE [value EXCEPT !.items[NumberOf(names[1]) + 1] = Replaced(@, Tail(names), new)]

-----------------------------------------------------------------------------
(* GenerateValue<Value>: by the value that there is. *)
\* find_matching_variant: the first variant whose rules accept the value, none when nobody looks.
MatchingVariant(value, variants, matcher) ==
    LET accepts(v) == CompareJson(<<Root>>, value, value, Context(v.rules, "NoUnexpectedKeys")) = {}
    IN  IF matcher = "none" THEN <<>> ELSE FirstOf(SelectSeq(variants, accepts))

RECURSIVE GenerateJson(_, _, _)

\* What becomes of the document if one pointer is generated; one that leads nowhere, or an error, changes nothing.
GenerateAt(document, names, generator, env) ==
    LET found == Reach(document, Pointer(names))
        made == IF found = <<>> THEN {} ELSE GenerateJson(generator, found[1], env)
    IN  IF made = {} THEN {document} ELSE {Replaced(document, Pointer(names), v) : v \in made}

\* apply_key
ApplyKey(document, entry, env) ==
    LET reached == ResolvePath(document, entry.path)
        at(names, documents) == UNION {GenerateAt(d, names, entry.generator, env) : d \in documents}
    IN  IF reached # {} THEN FoldSet(at, {document}, reached)
        ELSE IF Len(entry.path) = 1 THEN GenerateAt(document, <<>>, entry.generator, env)
        ELSE {document}

\* The generators of a variant are applied whatever the mode.
GenerateItem(value, variants, env) ==
    LET variant == MatchingVariant(value, variants, env.matcher)
        apply(documents, entry) == UNION {ApplyKey(d, entry, env) : d \in documents}
    IN  IF variant = <<>> THEN {value} ELSE FoldLeft(apply, {value}, variant[1].generators)

GenerateJson(g, value, env) ==
    LET number(d) == AsDecimal(d)
        items == [i \in DOMAIN value.items |-> GenerateItem(value.items[i], g.variants, env)]
        all == {s \in [DOMAIN items -> UNION ToSet(items)] : \A i \in DOMAIN items : s[i] \in items[i]}
        texts == {Text(t) : t \in GeneratedTexts(g, env)}
    IN  CASE g.kind = "RandomInt" /\ Drawn(g) = {} -> {PanickedValue}
          [] g.kind = "RandomInt" /\ Drawn(g) # {} /\ value.type # "string" -> {Value("integer", <<ToString(n)>>) : n \in Drawn(g)}
          [] g.kind = "Uuid" /\ value.type # "string" -> {Text(UuidText(<<>>))}
          [] g.kind = "RandomDecimal" /\ value.type \in NumberTypes -> {number(d) : d \in Decimals(g.size) \ {<<>>}}
          [] g.kind = "RandomBoolean" -> {Value("boolean", t) : t \in GeneratedTexts(g, env)}
          [] g.kind = "ProviderState" -> UNION {AsJson(v, TypeOfData(g)) : v \in FromContext(g.expression, env.values)}
          [] g.kind = "MockServerURL" -> {Text(t) : t \in UrlTexts(g, env, <<Url, Href>>)}
          [] g.kind = "ArrayContains" -> IF value.type = "array" THEN {[value EXCEPT !.items = s] : s \in all} ELSE {}
          [] OTHER -> texts

-----------------------------------------------------------------------------
(* Bodies: JSON is written anew, as application/json, and so is a form; what *)
(* cannot be read, and every other type, stays as it is.                     *)
Fitting(entries, mode) == SelectSeq(entries, LAMBDA e : CorrespondsToMode(e.generator, mode))

\* JsonHandler::process_body
GenerateDocument(document, entries, mode, env) ==
    LET apply(documents, entry) == UNION {ApplyKey(d, entry, env) : d \in documents}
    IN  FoldLeft(apply, {document}, Fitting(entries, mode))

\* FormUrlEncodedHandler::apply_key: of the pairs that the path means, by their name or by their place among those
\* of that name, the first.
ApplyFormKey(pairs, entry, env) ==
    LET place(i) == Cardinality({j \in 1..(i - 1) : pairs[j].name = pairs[i].name})
        base(i) == Join(<<Root>>, pairs[i].name)
        meant == {i \in DOMAIN pairs : entry.path \in {base(i), Append(base(i), Index(<<ToString(place(i))>>))}}
        made == GeneratedTexts(entry.generator, env)
    IN  IF meant = {} \/ made = {} THEN {pairs} ELSE {[pairs EXCEPT ![Min(meant)].value = t] : t \in made}
GenerateForm(pairs, entries, mode, env) ==
    LET apply(forms, entry) == UNION {ApplyFormKey(f, entry, env) : f \in forms}
    IN  FoldLeft(apply, {pairs}, Fitting(entries, mode))

FormBody == Type("application", "x-www-form-urlencoded")

\* generators_process_body
GenerateBody(body, type, entries, mode, env) ==
    CASE ~ IsPresent(body) \/ entries = <<>> -> {body}
      [] IsPresent(body) /\ entries # <<>> /\ IsJson(type) /\ body.bytes.json.type # "garbage" ->
            {BodyOf("present", Written(v), <<Json>>) : v \in GenerateDocument(body.bytes.json, entries, mode, env)}
      [] IsPresent(body) /\ entries # <<>> /\ IsForm(type) /\ body.bytes.form # <<>> ->
            {BodyOf("present", WrittenForm(f), <<FormBody>>) : f \in GenerateForm(body.bytes.form[1], entries, mode, env)}
      [] OTHER -> {body}

-----------------------------------------------------------------------------
(* Requests, responses and messages. generators maps categories to entries. *)
\* build_generators: a rule for an array brings the generators of its variants, in place of others for its path.
BuildGenerators(generators, rules, name) ==
    LET own == IF name \in DOMAIN generators THEN generators[name] ELSE <<>>
        has(rule) == \E v \in ToSet(rule.variants) : v.generators # <<>>
        ruled == SelectSeq(WithCategory(rules, name)[name].rules, LAMBDA e : \E r \in ToSet(e.list.rules) : has(r))
        made == [i \in DOMAIN ruled |->
                    [path |-> ruled[i].path, generator |-> GenerateArray(Last(SelectSeq(ruled[i].list.rules, has)).variants)]]
    IN  SelectSeq(own, LAMBDA e : \A m \in ToSet(made) : m.path # e.path) \o made

GeneratePath(part, entry, env) ==
    LET made == GeneratedTexts(entry.generator, env) IN IF made = {} THEN {part} ELSE {[part EXCEPT !.path = t] : t \in made}
GenerateStatus(part, entry, env) ==
    LET made == GeneratedStatus(entry.generator, env) IN IF made = {} THEN {part} ELSE {[part EXCEPT !.status = n] : n \in made}
\* The header is looked for as it is written, and gets one value.
GenerateHeader(part, entry, env) ==
    LET made == IF FirstField(entry.path) = <<>> THEN {} ELSE GeneratedTexts(entry.generator, env)
    IN  IF made = {} THEN {part} ELSE {PutHeader(part, FirstField(entry.path)[1], <<t>>) : t \in made}
\* A parameter keeps as many values as it has.
GenerateQuery(part, entry, env) ==
    LET name == FirstField(entry.path)
        made == IF name = <<>> THEN {} ELSE GeneratedTexts(entry.generator, env)
        new == IF part.query # <<>> /\ name[1] \in DOMAIN part.query[1] THEN DOMAIN part.query[1][name[1]] ELSE {1}
    IN  IF made = {} THEN {part} ELSE {PutQuery(part, name[1], values) : values \in [new -> made]}

\* generate_request
GenerateRequest(part, generators, mode, env) ==
    LET of(name) == BuildGenerators(generators, part.rules, name)
        path(parts, e) == UNION {GeneratePath(p, e, env) : p \in parts}
        header(parts, e) == UNION {GenerateHeader(p, e, env) : p \in parts}
        query(parts, e) == UNION {GenerateQuery(p, e, env) : p \in parts}
        headed == FoldLeft(header, FoldLeft(path, {part}, Fitting(of("path"), mode)), Fitting(of("header"), mode))
    IN  UNION {{[p EXCEPT !.body = b] : b \in GenerateBody(p.body, ContentTypeOf(p), of("body"), mode, env)} :
                  p \in FoldLeft(query, headed, Fitting(of("query"), mode))}

\* generate_response
GenerateResponse(part, generators, mode, env) ==
    LET of(name) == BuildGenerators(generators, part.rules, name)
        status(parts, e) == UNION {GenerateStatus(p, e, env) : p \in parts}
        header(parts, e) == UNION {GenerateHeader(p, e, env) : p \in parts}
    IN  UNION {{[p EXCEPT !.body = b] : b \in GenerateBody(p.body, ContentTypeOf(p), of("body"), mode, env)} :
                  p \in FoldLeft(header, FoldLeft(status, {part}, Fitting(of("status"), mode)), Fitting(of("header"), mode))}

\* A value of the metadata is made from that of the message, or from null.
GenerateMetadata(message, original, entry, env) ==
    LET key == FirstField(entry.path)
        value == IF key # <<>> /\ key[1] \in DOMAIN original.metadata THEN original.metadata[key[1]] ELSE Null
        made == IF key = <<>> THEN {} ELSE GenerateJson(entry.generator, value, env)
    IN  IF made = {} THEN {message} ELSE {[message EXCEPT !.metadata = (key[1] :> v) @@ @] : v \in made}

\* apply_generators_to_sync_message, for its request and for each of its responses, where env.matcher is "none",
\* and generate_message, where it is "default".
GenerateContents(message, generators, mode, env) ==
    LET of(name) == BuildGenerators(generators, message.rules, name)
        metadata(messages, e) == UNION {GenerateMetadata(m, m, e, env) : m \in messages}
    IN  UNION {{[m EXCEPT !.contents = b] : b \in GenerateBody(m.contents, MessageContentType(m), of("body"), mode, env)} :
                  m \in FoldLeft(metadata, {message}, Fitting(of("metadata"), mode))}

\* apply_generators_to_async_message, which looks at the message as it was.
GenerateAsync(message, generators, mode, env) ==
    LET of(name) == BuildGenerators(generators, message.rules, name)
        metadata(messages, e) == UNION {GenerateMetadata(m, message, e, env) : m \in messages}
    IN  {[m EXCEPT !.contents = b] :
            m \in FoldLeft(metadata, {message}, Fitting(of("metadata"), mode)),
            b \in GenerateBody(message.contents, MessageContentType(message), of("body"), mode, env)}

-----------------------------------------------------------------------------
(* JSON: the attributes of a generator are a function from their names. *)
NoSuch == [a \in {} |-> <<>>]
Optional(name, value) == IF value = <<>> THEN NoSuch ELSE name :> value

Attributes(g) ==
    CASE g.kind = "RandomInt" -> ("min" :> g.min) @@ ("max" :> g.max)
      [] g.kind = "Uuid" -> Optional("format", g.format)
      [] g.kind = "RandomString" -> "size" :> g.size
      [] g.kind \in SizedKinds \ {"RandomString"} -> "digits" :> g.size
      [] g.kind \in DateKinds -> Optional("format", g.format) @@ Optional("expression", g.expression)
      [] g.kind = "Regex" -> "regex" :> g.regex
      [] g.kind = "ProviderState" -> ("expression" :> g.expression) @@ Optional("dataType", g.dataType)
      [] g.kind = "MockServerURL" -> ("example" :> g.example) @@ ("regex" :> g.regex)
      [] OTHER -> NoSuch

\* Generator::to_json: the generators of arrays are not written.
GeneratorToJson(g) == IF g.kind = "ArrayContains" THEN <<>> ELSE <<[type |-> g.kind, attributes |-> Attributes(g)]>>

\* Generator::values, which names two attributes otherwise.
GeneratorValues(g) ==
    CASE g.kind = "RandomString" -> "digits" :> g.size
      [] g.kind = "ProviderState" -> ("expression" :> g.expression) @@ Optional("data_type", g.dataType)
      [] g.kind = "ArrayContains" -> "variants" :> g.variants
      [] OTHER -> Attributes(g)

UuidFormats == {"simple", "lower-case-hyphenated", "upper-case-hyphenated", "URN"}

\* Generator::from_map: a sequence of at most one.
FromMap(type, attributes) ==
    LET get(name, default) == IF name \in DOMAIN attributes THEN attributes[name] ELSE default
        needs(name) == name \in DOMAIN attributes
    IN  CASE type = "RandomInt" -> <<RandomInt(get("min", 0), get("max", 10))>>
          [] type = "Uuid" -> <<Uuid(SelectSeq(get("format", <<>>), LAMBDA f : f \in UuidFormats))>>
          [] type = "RandomString" -> <<Sized(type, get("size", 10))>>
          [] type \in SizedKinds \ {"RandomString"} -> <<Sized(type, get("digits", 10))>>
          [] type = "Regex" -> IF needs("regex") THEN <<Pattern(attributes["regex"])>> ELSE <<>>
          [] type \in DateKinds -> <<Dated(type, get("format", <<>>), get("expression", <<>>))>>
          [] type = "RandomBoolean" -> <<RandomBoolean>>
          [] type = "ProviderState" -> IF needs("expression") THEN <<ProviderState(attributes["expression"], get("dataType", <<>>))>> ELSE <<>>
          [] type = "MockServerURL" -> <<MockServerURL(get("example", <<>>), get("regex", {}))>>
          [] OTHER -> <<>>

SingleCategories == {"path", "method", "status"}
FieldCategories == {"header", "query"}

\* Generators::to_json: of a path, a method or a status it is the one for the whole, of headers and parameters the one for the name.
CategoryToJson(name, entries) ==
    LET written == SelectSeq(entries, LAMBDA e : e.generator.kind # "ArrayContains")
        key(path) == IF name \in FieldCategories THEN FirstFieldOrExpr(path) ELSE BuildExpr(path)
        insert(json, e) == (key(e.path) :> GeneratorToJson(e.generator)[1]) @@ json
        whole == SelectSeq(entries, LAMBDA e : e.path = <<>>) \o SelectSeq(entries, LAMBDA e : e.path = <<Root>>)
    IN  IF name \notin SingleCategories THEN <<FoldLeft(insert, NoSuch, written)>>
        ELSE IF whole = <<>> THEN <<>> ELSE GeneratorToJson(whole[1].generator)
GeneratorsToJson(generators) ==
    LET json == [c \in DOMAIN generators |-> CategoryToJson(c, generators[c])] IN [c \in {d \in DOMAIN json : json[d] # <<>>} |-> json[c][1]]

\* load_from_map, where a path that cannot be parsed makes everything an error, and nothing is read.
CategoryFromJson(name, json) ==
    LET read(key) == LET g == FromMap(json[key].type, json[key].attributes)
                     IN  [i \in DOMAIN g |-> [path |-> IF name \in FieldCategories THEN <<Root, Field(key)>> ELSE Parse(key).path, generator |-> g[i]]]
        single == FromMap(json.type, json.attributes)
    IN  IF name \in SingleCategories THEN [i \in DOMAIN single |-> [path |-> <<>>, generator |-> single[i]]]
        ELSE FlattenSeq([i \in DOMAIN SetToSeq(DOMAIN json) |-> read(SetToSeq(DOMAIN json)[i])])
GeneratorsFromJson(json) ==
    LET parsed == \A c \in DOMAIN json \ (SingleCategories \union FieldCategories) : \A k \in DOMAIN json[c] : Parse(k).result = "ok"
    IN  IF parsed THEN [c \in DOMAIN json |-> CategoryFromJson(c, json[c])] ELSE NoSuch
=============================================================================
