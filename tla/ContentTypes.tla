---------------------------- MODULE ContentTypes ----------------------------
(***************************************************************************)
(* Content types (pact_models/src/content_types.rs). A text is a sequence  *)
(* of words and punctuation. The suffix is a sequence of at most one word, *)
(* the attributes a function from names to texts.                          *)
(***************************************************************************)
EXTENDS RuleMatching

NoAttributes == [n \in {} |-> <<>>]
Type(main, sub) == [main |-> main, sub |-> sub, suffix |-> <<>>, attributes |-> NoAttributes]
Unknown == Type("*", "*")
Json == Type("application", "json")
Xml == Type("application", "xml")
Plain == Type("text", "plain")

\* Mime::from_str, which lowers the case of a charset; None stands for the error.
ParseContentType(text) ==
    LET split == Split(text, ";")
        parts == [i \in DOMAIN split |-> Trim(split[i])]
        name == parts[1]
        given == Parameters(Tail(parts))
    IN  IF /\ Len(name) \in {3, 5} /\ name[2] = "/" /\ (Len(name) = 5 => name[4] = "+")
           /\ \A i \in DOMAIN Tail(parts) : "=" \in ToSet(Tail(parts)[i])
        THEN [result |-> "ok",
              type |-> [main |-> name[1], sub |-> name[3], suffix |-> SubSeq(name, 5, Len(name)),
                        attributes |-> [n \in DOMAIN given |-> IF n = <<"charset">> THEN LowerCase(given[n]) ELSE given[n]]]]
        ELSE None

\* The names of attributes in the order of a BTreeMap.
AttributeNames == << <<"boundary">>, <<"charset">>, <<"q">> >>

\* Display
ContentTypeText(type) ==
    LET named == SelectSeq(AttributeNames, LAMBDA n : n \in DOMAIN type.attributes)
    IN  <<type.main, "/", type.sub>> \o (IF type.suffix = <<>> THEN <<>> ELSE <<"+">> \o type.suffix)
        \o FlattenSeq([i \in DOMAIN named |-> <<";">> \o named[i] \o <<"=">> \o type.attributes[named[i]]])

\* The subtypes that start with "json".
JsonSubtypes == {"json", "json-rpc"}
IsJson(type) == type.main = "application" /\ (type.sub \in JsonSubtypes \/ type.suffix = <<"json">> \/ type.sub = "graphql")
IsStrictXml(type) == type.main \in {"application", "text"} /\ type.sub = "xml"
IsXml(type) == type.main \in {"application", "text"} /\ (type.sub = "xml" \/ type.suffix = <<"xml">>)
IsForm(type) == type.main = "application" /\ type.sub = "x-www-form-urlencoded"
IsText(type) == type.main = "text" \/ IsXml(type) \/ IsJson(type) \/ IsForm(type)
IsBinary(type) == type.main \in {"audio", "font", "image", "video"} \/ ~ IsText(type)

BaseType(type) == Type(type.main, IF type.suffix = <<>> THEN type.sub ELSE type.suffix[1])
IsUnknown(type) == type.main = "*" \/ type.sub = "*"

\* Without attributes, neither those of the other type nor its suffix matter.
IsEquivalentTo(type, other) ==
    IF IsStrictXml(type) /\ IsStrictXml(other) THEN DOMAIN type.attributes = {} \/ type.attributes = other.attributes
    ELSE IF DOMAIN type.attributes = {} THEN type.main = other.main /\ type.sub = other.sub
    ELSE type = other
=============================================================================
