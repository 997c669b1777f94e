----------------------------- MODULE FfiContents -----------------------------
(***************************************************************************)
(* What the calls that describe an interaction make of it (pact_ffi's      *)
(* mock_server/handles.rs and the multipart bodies of bodies.rs); which    *)
(* interaction a handle leads to and when it may be changed is             *)
(* FfiHandles.  A request or a response is a record [method, path, query,  *)
(* headers, body, status, rules], the contents of a message one of         *)
(* [contents, metadata, rules], and what is said about an interaction one  *)
(* of [states, comments, key, pending].  Generators are left out.          *)
(*                                                                         *)
(* A value that is given to a call is a text, a matcher of IntegrationJson *)
(* or, without pact:matcher:type, the attribute "value" of an object.      *)
(***************************************************************************)
EXTENDS InteractionMatching, IntegrationJson

Attribute(value) == [type |-> "attribute", value |-> value]
\* The rules of a matcher could not be created, but it has a value.
UnreadableWith(value) == [type |-> "unreadable", value |-> value]
NullPointer == [type |-> "pointer"]

\* json_to_string; the text of an array or an object is a word of its own.
TextOfJson(value) ==
    CASE value.type = "null" -> <<>>
      [] value.type \in {"array", "object"} -> <<ToString(value)>>
      [] OTHER -> value.text

\* MatchingRules::add_category
WithCategory(rules, name) == rules @@ (name :> EmptyCategory(name))
AddTo(rules, name, additions) == [WithCategory(rules, name) EXCEPT ![name] = AddAll(@, additions)]

-----------------------------------------------------------------------------
(* The path of one value of a header or of a parameter: the first value has *)
(* the path of them all, until there is a rule for another one.             *)
PathOf(name, index) == <<Root, Field(name)>> \o (IF index = 0 THEN <<>> ELSE <<Index(<<ToString(index)>>)>>)

\* The list for all the values becomes the one for the first, in place of any that was there.
Rekeyed(category, base) ==
    LET first == Append(base, Index(<<"0">>))
        of == SelectSeq(category.rules, LAMBDA e : e.path = base)
        others == SelectSeq(category.rules, LAMBDA e : e.path \notin {base, first})
    IN  IF of = <<>> THEN category ELSE [category EXCEPT !.rules = Append(others, [of[1] EXCEPT !.path = first])]

\* from_integration_json_v2: the values that are meant and whether they were several; the rules that are
\* given for the path or the status are those of the root.
FromIntegrationJson(rules, given, path, name, index) ==
    LET value == IF given.type = "string" THEN given ELSE given.value
        several == value.type = "array"
        read == IF several THEN Example(value) ELSE value
        before == WithCategory(rules, name)[name]
        below == IF several /\ given.type # "attribute" THEN AddAll(before, ItemAdditions(value.items, path, TRUE, FALSE)) ELSE before
        own == IF given.type = "matcher" THEN given.rules ELSE <<>>
        keyed == IF given.type = "matcher" /\ name \in {"header", "query"} /\ index > 0 THEN Rekeyed(below, Front(path)) ELSE below
        at == IF name \in {"path", "status"} THEN <<Root>> ELSE path
    IN  [rules |-> (name :> AddAll(keyed, [i \in DOMAIN own |-> <<at, own[i]>>])) @@ rules,
         several |-> several,
         values |-> IF several THEN [i \in DOMAIN read.items |-> TextOfJson(read.items[i])] ELSE <<TextOfJson(read)>>]

\* from_integration_json, for which every object is a document of its own.
FromIntegrationJsonV1(rules, given, path, name) ==
    LET doc == CASE given.type = "matcher" -> Matcher(given.rules, given.value)
                 [] given.type = "attribute" -> Object(<<"value">> :> given.value)
                 [] OTHER -> given
    IN  [rules |-> AddTo(rules, name, Additions(doc, path, FALSE)),
         value |-> IF given.type = "string" THEN given.text ELSE TextOfJson(Example(doc))]

\* Values that nobody gave are empty.
SetAt(values, index, value) ==
    [i \in 1..Max({Len(values), index + 1}) |-> IF i = index + 1 THEN value ELSE IF i \in DOMAIN values THEN values[i] ELSE <<>>]

-----------------------------------------------------------------------------
(* The request line and the status *)
\* pactffi_with_request: the method and the path have defaults.
WithRequest(part, method, given) ==
    LET read == FromIntegrationJson(part.rules, given, <<>>, "path", 0)
    IN  [part EXCEPT !.method = method, !.rules = read.rules, !.path = IF read.values = <<>> THEN <<>> ELSE read.values[1]]

\* A status of up to three digits; what is none is 0.
ReadStatus(text) == LET codes == {n \in 0..999 : <<ToString(n)>> = text} IN IF codes = {} THEN 0 ELSE Min(codes)

\* pactffi_response_status_v2
WithStatus(part, given) ==
    LET read == FromIntegrationJson(part.rules, given, <<>>, "status", 0)
    IN  [part EXCEPT !.rules = read.rules, !.status = ReadStatus(IF read.values = <<>> THEN <<>> ELSE read.values[1])]

(* Query parameters; a value that is absent is an empty text. *)
QueryValues(part, name) == IF part.query = <<>> \/ name \notin DOMAIN part.query[1] THEN <<>> ELSE part.query[1][name]
PutQuery(part, name, values) ==
    [part EXCEPT !.query = <<(name :> values) @@ (IF @ = <<>> THEN NoAttributes ELSE @[1])>>]

\* pactffi_with_query_parameter_v2, which adds several values to those that are there; a null
\* pointer is the value that is absent.
WithQueryParameter(part, name, index, given) ==
    LET read == FromIntegrationJson(part.rules, given, PathOf(name, index), "query", index)
        values == QueryValues(part, name)
        first == IF read.values = <<>> THEN <<>> ELSE read.values[1]
    IN  IF given = NullPointer THEN PutQuery(part, name, SetAt(values, index, <<>>))
        ELSE [PutQuery(part, name, IF read.several /\ index = 0 THEN values \o read.values ELSE SetAt(values, index, first))
                 EXCEPT !.rules = read.rules]

\* pactffi_with_query_parameter: a rule is for the one value.
WithQueryParameterV1(part, name, index, given) ==
    LET read == FromIntegrationJsonV1(part.rules, given, <<Root, Field(name), Index(<<ToString(index)>>)>>, "query")
    IN  [PutQuery(part, name, SetAt(QueryValues(part, name), index, read.value)) EXCEPT !.rules = read.rules]

-----------------------------------------------------------------------------
(* Headers *)
Entries(part) == IF part.headers = <<>> THEN <<>> ELSE part.headers[1]
HasKey(part, key) == \E h \in ToSet(Entries(part)) : h.key = key
PutHeader(part, key, values) ==
    [part EXCEPT !.headers =
        <<IF HasKey(part, key) THEN [i \in DOMAIN Entries(part) |-> IF Entries(part)[i].key = key THEN [key |-> key, values |-> values] ELSE Entries(part)[i]]
          ELSE Append(Entries(part), [key |-> key, values |-> values])>>]

\* lookup_header_key, in any case
KeyFor(part, name) == LET found == FindEntry(Entries(part), name) IN IF found = <<>> THEN name ELSE found[1].key

SetHeader(part, name, values) == PutHeader(part, KeyFor(part, name), values)

SingleValueHeaders ==
    {<<h>> : h \in {"date", "accept-datetime", "if-modified-since", "if-unmodified-since", "expires", "retry-after",
                    "last-modified", "set-cookie", "user-agent"}}
ParseHeader(name, value) ==
    LET values == IF LowerCase(name) \in SingleValueHeaders THEN <<value>> ELSE Split(value, ",")
    IN  [i \in DOMAIN values |-> Trim(values[i])]

\* pactffi_with_header_v2: several values replace those that are there, and so do those of a list that is
\* given as the first value; a single first value replaces only the first.
WithHeader(part, name, index, given) ==
    LET read == FromIntegrationJson(part.rules, given, PathOf(name, index), "header", index)
        found == FindEntry(Entries(part), name)
        values == IF found = <<>> THEN <<>> ELSE found[1].values
        parsed == ParseHeader(name, read.values[1])
        new == CASE read.several -> read.values
                 [] ~ read.several /\ index > 0 -> SetAt(values, index, read.values[1])
                 [] ~ read.several /\ index = 0 ->
                       IF values # <<>> /\ Len(parsed) = 1 THEN SetAt(values, 0, read.values[1]) ELSE parsed
    IN  [SetHeader(part, name, new) EXCEPT !.rules = read.rules]

\* pactffi_with_header, which looks for the name as it is given.
WithHeaderV1(part, name, index, given) ==
    LET read == FromIntegrationJsonV1(part.rules, given, <<Root, Field(name)>>, "header")
        found == SelectSeq(Entries(part), LAMBDA h : h.key = name)
    IN  [PutHeader(part, name, SetAt(IF found = <<>> THEN <<>> ELSE found[1].values, index, read.value)) EXCEPT !.rules = read.rules]

-----------------------------------------------------------------------------
(* Bodies. One that is given is its bytes and the document that is read from *)
(* them, or none. Content types are sequences of at most one.                *)
Detected(bytes) == IF bytes.utf8 THEN <<bytes.detected>> ELSE <<>>
FirstOf(types) == IF types = <<>> THEN <<>> ELSE <<Head(types)>>

\* The bytes that are written for a value, and for the pairs of a form.
Written(value) == [NoBytes EXCEPT !.text = <<ToString(value)>>, !.size = 10, !.json = value, !.form = <<>>, !.detected = Json]
WrittenForm(pairs) == [NoBytes EXCEPT !.text = <<ToString(pairs)>>, !.size = 10, !.form = <<pairs>>]

\* The documents that process_json makes something of.
IsStructured(doc) == doc # None /\ doc.type \notin {"string", "null", "boolean"} \union NumberTypes

\* process_body; documents that describe XML are left out.
ProcessBody(given, type, hint, rules) ==
    LET t == FirstOf(type \o hint \o Detected(given.bytes) \o <<Plain>>)
        category == WithCategory(rules, "body")["body"]
        present(bytes, changed) == [body |-> BodyOf("present", bytes, t), rules |-> ("body" :> changed) @@ rules]
        json == ProcessJson(given.doc, category)
        form == ProcessForm(given.doc, category)
    IN  CASE given.bytes.size = 0 -> [body |-> BodyOf("empty", NoBytes, <<>>), rules |-> rules]
          [] given.bytes.size > 0 /\ IsJson(t[1]) ->
                IF IsStructured(given.doc) THEN present(Written(json.example), json.rules) ELSE present(given.bytes, category)
          [] given.bytes.size > 0 /\ IsForm(t[1]) /\ IsJson(given.bytes.detected) -> present(WrittenForm(form.pairs), form.rules)
          [] OTHER -> [body |-> BodyOf("present", given.bytes, t), rules |-> rules]

\* calc_content_type; a content-type header without values makes it panic.
CalcContentType(body, headers) ==
    LET own == IF IsPresent(body) THEN body.type ELSE <<>>
        found == IF headers = <<>> THEN <<>> ELSE FindEntry(headers[1], <<"content-type">>)
        named == IF found = <<>> THEN None ELSE ParseContentType(found[1].values[1])
    IN  FirstOf(own \o (IF named = None THEN <<>> ELSE <<named.type>>) \o (IF IsPresent(body) THEN Detected(body.bytes) ELSE <<>>))

ContentTypeHeader == <<"Content-Type">>

\* pactffi_with_body; the header is looked for as it is written here.
WithBody(part, type, given) ==
    LET made == ProcessBody(given, type, CalcContentType(part.body, part.headers), part.rules)
        changed == [part EXCEPT !.body = made.body, !.rules = made.rules]
        found == CalcContentType(made.body, part.headers)
    IN  IF found = <<>> \/ HasKey(part, ContentTypeHeader) THEN changed
        ELSE PutHeader(changed, ContentTypeHeader, <<ContentTypeText(found[1])>>)

\* ... of a message, for which there is no hint.
WithContents(message, type, given) ==
    LET made == ProcessBody(given, type, <<>>, message.rules)
        told == IF made.body.type = <<>> THEN NoAttributes ELSE ContentTypeKey :> Text(ContentTypeText(made.body.type[1]))
    IN  [contents |-> made.body, rules |-> made.rules, metadata |-> message.metadata @@ told]

\* Bytes by their pointer, which may be null: a sequence of at most one.
ConvertPtrToBody(pointer, type) ==
    CASE pointer = <<>> -> BodyOf("null", NoBytes, <<>>)
      [] pointer # <<>> /\ pointer[1].size = 0 -> BodyOf("empty", NoBytes, <<>>)
      [] OTHER -> BodyOf("present", pointer[1], type)

AsType(text) == LET parsed == ParseContentType(text) IN IF parsed = None THEN <<>> ELSE <<parsed.type>>
WithHeaderUnlessSet(part, text) ==
    IF FindEntry(Entries(part), ContentTypeHeader) = <<>> THEN PutHeader(part, ContentTypeHeader, <<text>>) ELSE part

\* pactffi_with_binary_body
WithBinaryBody(part, text, pointer) ==
    WithHeaderUnlessSet([part EXCEPT !.body = ConvertPtrToBody(pointer, AsType(text))], text)
WithBinaryContents(message, text, pointer) ==
    [message EXCEPT !.contents = ConvertPtrToBody(pointer, AsType(text)), !.metadata = (ContentTypeKey :> Text(text)) @@ @]

\* Texts of the content type, as far as its detection can tell.
TextsOf(type) == IF type = <<"image", "/", "png">> THEN {<<"p">>} ELSE {}

\* pactffi_with_binary_file: the body has no type of its own, but a rule for one, from V3 on.
ContentTypeRule(rules, version, path, text) ==
    IF version < 3 THEN rules ELSE AddTo(rules, "body", <<<<path, WithText("content-type", TextsOf(text))>>>>)
WithBinaryFile(part, version, text, pointer) ==
    [WithHeaderUnlessSet([part EXCEPT !.body = ConvertPtrToBody(pointer, <<>>)], text)
        EXCEPT !.rules = ContentTypeRule(@, version, <<Root>>, text)]
WithBinaryFileContents(message, version, text, pointer) ==
    [contents |-> ConvertPtrToBody(pointer, <<>>), metadata |-> (ContentTypeKey :> Text(text)) @@ message.metadata,
     rules |-> ContentTypeRule(message.rules, version, <<Root>>, text)]

-----------------------------------------------------------------------------
(* Multipart bodies: one boundary and the parts. *)
MultipartBytes(boundary, parts) ==
    [NoBytes EXCEPT !.text = <<ToString(parts)>>, !.size = 10, !.form = <<>>,
        !.parts = <<[boundary |-> boundary, parts |-> [i \in DOMAIN parts |-> [parts[i] EXCEPT !.index = i - 1]]]>>]

\* add_part_to_multipart, under the boundary that is there.
HasParts(body) == IsPresent(body) /\ body.bytes.parts # <<>>
AddPart(body, parts) == body.bytes.parts[1].parts \o parts

FormDataType == Type("multipart", "form-data")
FormDataHeader(boundary) == <<"multipart", "/", "form-data", ";", " ", "boundary", "=">> \o boundary

\* pactffi_with_multipart_file_v2, with request_multipart and response_multipart; boundaries accepts the
\* headers of such bodies.
WithMultipartFile(part, text, parts, name, boundary, boundaries) ==
    LET new == [SetHeader(part, ContentTypeHeader, <<FormDataHeader(boundary)>>) EXCEPT
                   !.body = BodyOf("present", MultipartBytes(boundary, parts), <<FormDataType>>),
                   !.rules = AddTo(@, "header", <<<< <<Root, Field(ContentTypeHeader)>>, WithText("regex", boundaries)>>>>)]
        longer == [part EXCEPT !.body = BodyOf("present", MultipartBytes(@.bytes.parts[1].boundary, AddPart(@, parts)), @.type)]
    IN  [(IF HasParts(part.body) THEN longer ELSE new) EXCEPT
            !.rules = AddTo(@, "body", <<<< <<Root, Field(name)>>, WithText("content-type", TextsOf(text))>>>>)]

-----------------------------------------------------------------------------
(* Rules and metadata *)
\* pactffi_with_matching_rules: MatchingRules::merge
WithMatchingRules(part, other) ==
    [part EXCEPT !.rules = [c \in DOMAIN part.rules \union DOMAIN other |->
        IF c \notin DOMAIN other THEN part.rules[c] ELSE AddRules(WithCategory(part.rules, c)[c], other[c])]]

\* pactffi_with_metadata: the key is the path of the value; a null pointer removes it.
WithMetadata(message, key, doc) ==
    IF doc = NullPointer THEN [message EXCEPT !.metadata = [k \in DOMAIN @ \ {key} |-> @[k]]]
    ELSE [message EXCEPT !.metadata = (key :> Example(doc)) @@ @,
                         !.rules = AddTo(@, "metadata", Additions(doc, Parse(key).path, FALSE))]

\* pactffi_message_with_contents, of a JSON body or of one that is no text.
MessageWithContents(message, text, given) ==
    LET type == AsType(text)
        json == ProcessJson(given.doc, WithCategory(message.rules, "body")["body"])
        structured == type # <<>> /\ IsText(type[1]) /\ IsStructured(given.doc)
    IN  [message EXCEPT !.contents = BodyOf("present", IF structured THEN Written(json.example) ELSE given.bytes, type),
                        !.rules = CASE structured -> ("body" :> json.rules) @@ @
                                    [] ~ structured /\ type # <<>> -> WithCategory(@, "body")
                                    [] OTHER -> @]

-----------------------------------------------------------------------------
(* What is said about an interaction *)
State(name, params) == [name |-> name, params |-> params]

Given(about, name) == [about EXCEPT !.states = Append(@, State(name, NoAttributes))]

\* pactffi_given_with_param: for the first state of that name, if there is one.
GivenWithParam(about, name, param, value) ==
    LET of == {i \in DOMAIN about.states : about.states[i].name = name}
    IN  IF of = {} THEN [about EXCEPT !.states = Append(@, State(name, param :> value))]
        ELSE [about EXCEPT !.states[Min(of)].params = (param :> value) @@ @]

\* pactffi_given_with_params: always a state of its own.
GivenWithParams(about, name, json) ==
    [about EXCEPT !.states = Append(@, State(name, IF json.type = "object" THEN json.members ELSE <<"value">> :> json))]

\* pactffi_set_comment, where a null pointer clears the comment, pactffi_interaction_test_name and
\* pactffi_add_text_comment.
SetComment(about, key, value) ==
    [about EXCEPT !.comments = IF value = NullPointer THEN [k \in DOMAIN @ \ {key} |-> @[k]] ELSE (key :> value) @@ @]
TestName(about, name) == SetComment(about, <<"testname">>, Text(name))
AddTextComment(about, text) ==
    LET key == <<"text">>
        old == IF key \in DOMAIN about.comments THEN about.comments[key].items ELSE <<>>
    IN  SetComment(about, key, List(Append(old, Text(text))))

SetKey(about, key) == [about EXCEPT !.key = key]
SetPending(about, pending) == [about EXCEPT !.pending = pending]
=============================================================================
