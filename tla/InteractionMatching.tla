------------------------- MODULE InteractionMatching -------------------------
(***************************************************************************)
(* How a request, a response or a message is compared with the expected    *)
(* one: match_request, match_response, match_message, match_sync_message   *)
(* and match_interaction of pact_matching's lib.rs.                        *)
(***************************************************************************)
EXTENDS BodyMatching

\* HttpPart::content_type, which is unknown if it cannot be told.
ContentTypeOf(part) ==
    LET found == IF part.headers = <<>> THEN <<>> ELSE FindEntry(part.headers[1], <<"content-type">>)
        values == IF found = <<>> THEN <<>> ELSE found[1].values
        joined == FlattenSeq([i \in DOMAIN values |-> IF i = 1 THEN values[1] ELSE <<",", " ">> \o values[i]])
    IN  CASE IsPresent(part.body) /\ part.body.type # <<>> -> part.body.type[1]
          [] ~ (IsPresent(part.body) /\ part.body.type # <<>>) /\ found # <<>> /\ ParseContentType(joined) # None ->
                ParseContentType(joined).type
          [] OTHER -> IF IsPresent(part.body) THEN part.body.bytes.detected ELSE Unknown

\* match_body
TypesAgree(expected, actual, context) ==
    \/ IsUnknown(expected) \/ IsUnknown(actual)
    \/ IsEquivalentTo(expected, actual) \/ IsEquivalentTo(expected, BaseType(actual))
    \/ /\ Select(context, <<Root, Field(<<"content-type">>)>>).rules # <<>>
       /\ MatchHeaderValue(<<"content-type">>, 0, ContentTypeText(expected), ContentTypeText(actual), context) = {}

WrongType == [result |-> "type", mismatches |-> {Mismatch(<<Root>>, "body type")}]
BodyResult(mismatches) == [result |-> IF mismatches = {} THEN "ok" ELSE "mismatches", mismatches |-> mismatches]

MatchBody(expected, actual, context, headerContext) ==
    LET type == ContentTypeOf(expected)
    IN  IF TypesAgree(type, ContentTypeOf(actual), headerContext)
        THEN BodyResult(MatchBodyContent(type, expected.body, actual.body, expected.headers, actual.headers, context))
        ELSE IF IsPresent(expected.body) THEN WrongType ELSE BodyResult({})

-----------------------------------------------------------------------------
MatchRequest(expected, actual) ==
    LET strict(category) == ContextFor(expected.rules, category, "NoUnexpectedKeys")
        headers == HeaderContext(strict("header"))
    IN  [method |-> MatchMethod(expected.method, actual.method),
         path |-> MatchPath(expected.path, actual.path, strict("path")),
         body |-> MatchBody(expected, actual, strict("body"), headers),
         query |-> MatchQuery(expected.query, actual.query, strict("query")),
         headers |-> MatchHeaders(expected.headers, actual.headers, headers)]

\* RequestMatchResult
Mismatches(result) == result.method \union result.path \union All(result.query) \union All(result.headers) \union result.body.mismatches
AllMatched(result) == Mismatches(result) = {}

\* score: an i8 that counts a header or a parameter once, and a body by the paths of its mismatches.
Wrapped(n) == ((n + 128) % 256) - 128
Points(results) == Cardinality({k \in DOMAIN results : results[k] = {}}) - Cardinality({k \in DOMAIN results : results[k] # {}})
MScore(result) ==
    LET point(mismatches) == IF mismatches = {} THEN 1 ELSE -1
    IN  Wrapped(point(result.method) + point(result.path) + Points(result.query) + Points(result.headers))
Score(result) ==
    LET point(mismatches) == IF mismatches = {} THEN 1 ELSE -1
    IN  Wrapped(point(result.method) + point(result.path) + Points(result.query) + Points(result.headers)
                - Cardinality({m.path : m \in result.body.mismatches}))

\* match_response allows unexpected keys in the body.
MatchResponse(expected, actual) ==
    LET body == ContextFor(expected.rules, "body", "AllowUnexpectedKeys")
        headers == HeaderContext(ContextFor(expected.rules, "header", "NoUnexpectedKeys"))
        status == ContextFor(expected.rules, "status", "AllowUnexpectedKeys")
    IN  MatchBody(expected, actual, body, headers).mismatches
        \union MatchStatus(expected.status, actual.status, status)
        \union All(MatchHeaders(expected.headers, actual.headers, headers))

-----------------------------------------------------------------------------
(* Messages: [contents, metadata, rules], where metadata maps keys to JSON values. *)
ContentTypeKey == <<"contentType">>
MessageContentType(message) ==
    LET given == ContentTypeKey \in DOMAIN message.metadata
        parsed == IF given THEN ParseContentType(message.metadata[ContentTypeKey].text) ELSE None
    IN  CASE IsPresent(message.contents) /\ message.contents.type # <<>> -> message.contents.type[1]
          [] ~ (IsPresent(message.contents) /\ message.contents.type # <<>>) /\ parsed # None -> parsed.type
          [] OTHER -> IF IsPresent(message.contents) THEN message.contents.bytes.detected ELSE Unknown

MatchMessageContents(expected, actual, context) ==
    LET type == MessageContentType(expected)
    IN  IF IsEquivalentTo(type, MessageContentType(actual))
        THEN MatchBodyContent(type, expected.contents, actual.contents, NoHeaders, NoHeaders, context)
        ELSE Unless(~ IsPresent(expected.contents), Mismatch(<<Root>>, "body type"))

ContentTypeKeys == {ContentTypeKey, <<"contenttype">>, <<"content-type">>}
MatchMetadataValue(key, expected, actual, context) ==
    LET path == Join(<<Root>>, key)
        text(value) == IF value.type = "string" THEN value.text ELSE <<>>
    IN  CASE IsDefined(context, path) -> MatchValues(Select(context, path), path, expected, actual)
          [] ~ IsDefined(context, path) /\ key \in ContentTypeKeys ->
                Unless(MatchParameterHeader(text(expected), text(actual)), Mismatch(<<Field(key)>>, "parameters"))
          [] OTHER -> Unless(expected = actual, Mismatch(<<Field(key)>>, "equality"))

MatchMessageMetadata(expected, actual, context) ==
    [k \in DOMAIN expected |->
        IF k \in DOMAIN actual THEN MatchMetadataValue(k, expected[k], actual[k], context) ELSE {Mismatch(<<Field(k)>>, "missing")}]

\* The contents and the metadata of one message, under the rules of the category that is asked for.
MatchContentsAndMetadata(expected, actual, category) ==
    MatchMessageContents(expected, actual, ContextFor(expected.rules, category, "AllowUnexpectedKeys"))
    \union All(MatchMessageMetadata(expected.metadata, actual.metadata, ContextFor(expected.rules, "metadata", "AllowUnexpectedKeys")))

\* as_message: the type of the contents becomes metadata, unless there is some.
AsMessage(message) ==
    IF IsPresent(message.contents) /\ message.contents.type # <<>> /\ ContentTypeKey \notin DOMAIN message.metadata
    THEN [message EXCEPT !.metadata = (ContentTypeKey :> Text(ContentTypeText(message.contents.type[1]))) @@ @]
    ELSE message

\* match_message; for a V4 message the category is "content", which is the body.
MatchMessage(expected, actual, isV4) ==
    MatchContentsAndMetadata(AsMessage(expected), AsMessage(actual), IF isV4 THEN "content" ELSE "body")

\* match_sync_message_response: nothing is said of responses if none is expected.
MatchResponses(expected, actual) ==
    IF Len(expected) # Len(actual) THEN Unless(expected = <<>>, Mismatch(<<>>, "responses"))
    ELSE UNION {MatchContentsAndMetadata(expected[i], actual[i], "content") : i \in DOMAIN expected}

MatchSyncMessage(expected, actual) ==
    MatchContentsAndMetadata(expected.request, actual.request, "content") \union MatchResponses(expected.responses, actual.responses)
=============================================================================
