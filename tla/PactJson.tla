------------------------------- MODULE PactJson -------------------------------
(***************************************************************************)
(* How the interactions of a V4 pact are written to its file and read back *)
(* (pact_models: bodies.rs, provider_states.rs and v4's http_parts.rs,     *)
(* message_parts.rs, synch_http.rs, async_message.rs, sync_message.rs). A  *)
(* record stands for the JSON object with these attributes; one that may   *)
(* be absent is a sequence of at most one.                                 *)
(***************************************************************************)
EXTENDS FfiContents

\* str::to_uppercase, for the words that stand for methods
UpperCase(text) == [i \in DOMAIN text |-> CASE text[i] = "get" -> "GET" [] text[i] = "a" -> "A" [] OTHER -> text[i]]

-----------------------------------------------------------------------------
(* Bodies *)
IsWrittenAsJson(body) == IsJson(body.type[1]) /\ body.bytes.json.type # "garbage"

\* to_v4_json: JSON is written as such, other bytes as their text or in base64; a type that is not known is */*.
BodyToJson(body) ==
    LET typed == [body EXCEPT !.type = FirstOf(@ \o <<Unknown>>)]
    IN  CASE IsPresent(body) ->
                <<[content |-> IF IsWrittenAsJson(typed) THEN [json |-> body.bytes.json] ELSE [bytes |-> body.bytes],
                   contentType |-> <<ContentTypeText(typed.type[1])>>]>>
          [] body.kind = "empty" -> <<[content |-> [bytes |-> NoBytes], contentType |-> <<>>]>>
          [] OTHER -> <<>>

\* body_from_json; a type that was written is read, so that no header is ever asked for it.
BodyFromJson(json) ==
    LET content == json[1].content
        isJson == "json" \in DOMAIN content
        bytes == IF isJson THEN Written(content.json) ELSE content.bytes
    IN  CASE json = <<>> -> BodyOf("missing", NoBytes, <<>>)
          [] json # <<>> /\ isJson /\ content.json = Null -> BodyOf("null", NoBytes, <<>>)
          [] json # <<>> /\ (IF isJson THEN content.json = Text(<<>>) ELSE bytes.size = 0) -> BodyOf("empty", NoBytes, <<>>)
          [] OTHER -> BodyOf("present", bytes, FirstOf(AsType(json[1].contentType[1]) \o Detected(bytes) \o <<Unknown>>))

\* with_content_type_if_not_set
Typed(body, type) == IF IsPresent(body) /\ body.type = <<>> THEN [body EXCEPT !.type = type] ELSE body

-----------------------------------------------------------------------------
(* Requests, whose bodies get the type that the headers name, and responses, *)
(* whose bodies do not.                                                      *)
RequestToJson(part) ==
    [method |-> UpperCase(part.method), path |-> part.path, query |-> part.query, headers |-> part.headers,
     body |-> BodyToJson(Typed(part.body, CalcContentType(part.body, part.headers))), rules |-> ToV3Json(part.rules)]
RequestFromJson(json) ==
    [method |-> UpperCase(json.method), path |-> json.path, query |-> json.query, headers |-> json.headers, status |-> 200,
     body |-> BodyFromJson(json.body), rules |-> FromV3Json(json.rules)]

ResponseToJson(part) ==
    [status |-> part.status, headers |-> part.headers, body |-> BodyToJson(part.body), rules |-> ToV3Json(part.rules)]
ResponseFromJson(json) ==
    [method |-> <<>>, path |-> <<>>, query |-> <<>>, headers |-> json.headers, status |-> json.status,
     body |-> BodyFromJson(json.body), rules |-> FromV3Json(json.rules)]

(* Messages: the request and the responses of a synchronous one get the type *)
(* that the metadata names, an asynchronous one does not.                    *)
MetadataToHeaders(metadata) ==
    IF ContentTypeKey \in DOMAIN metadata
    THEN <<<<[key |-> ContentTypeHeader, values |-> <<TextOfJson(metadata[ContentTypeKey])>>]>>>> ELSE <<>>

ContentsToJson(message) ==
    [contents |-> BodyToJson(Typed(message.contents, CalcContentType(message.contents, MetadataToHeaders(message.metadata)))),
     metadata |-> message.metadata, rules |-> ToV3Json(message.rules)]
AsyncToJson(message) ==
    [contents |-> BodyToJson(message.contents), metadata |-> message.metadata, rules |-> ToV3Json(message.rules)]
ContentsFromJson(json) ==
    [contents |-> BodyFromJson(json.contents), metadata |-> json.metadata, rules |-> FromV3Json(json.rules)]

SyncToJson(message) ==
    [request |-> ContentsToJson(message.request), responses |-> [i \in DOMAIN message.responses |-> ContentsToJson(message.responses[i])]]
SyncFromJson(json) ==
    [request |-> ContentsFromJson(json.request), responses |-> [i \in DOMAIN json.responses |-> ContentsFromJson(json.responses[i])]]

-----------------------------------------------------------------------------
(* What is said about an interaction: states, of which the parameters are *)
(* left out if there are none, and comments that are not empty.           *)
IsBlank(value) ==
    CASE value.type = "null" -> TRUE
      [] value.type = "string" -> value.text = <<>>
      [] value.type = "array" -> value.items = <<>>
      [] value.type = "object" -> DOMAIN value.members = {}
      [] OTHER -> FALSE

AboutToJson(about) ==
    [about EXCEPT
        !.states = [i \in DOMAIN @ |-> [name |-> @[i].name, params |-> IF DOMAIN @[i].params = {} THEN <<>> ELSE <<@[i].params>>]],
        !.comments = [k \in {j \in DOMAIN @ : ~ IsBlank(@[j])} |-> @[k]]]
AboutFromJson(json) ==
    [json EXCEPT !.states = [i \in DOMAIN @ |-> State(@[i].name, IF @[i].params = <<>> THEN NoAttributes ELSE @[i].params[1])]]
=============================================================================
