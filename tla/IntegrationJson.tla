--------------------------- MODULE IntegrationJson ---------------------------
(***************************************************************************)
(* How a body in the integration JSON format, in which objects with a key  *)
(* pact:matcher:type stand between the values, becomes an example and the  *)
(* rules for it (pact_ffi's mock_server/bodies.rs and form_urlencoded.rs). *)
(* A document is a value of JsonMatching or a matcher: the rules that were *)
(* created from its attributes and its value; an array-contains matcher    *)
(* has variants instead, and one whose rules could not be created nothing. *)
(***************************************************************************)
EXTENDS JsonMatching

Matcher(rules, value) == [type |-> "matcher", rules |-> rules, value |-> value]
ContainsAllOf(docs) == [type |-> "variants", docs |-> docs]
Unreadable == [type |-> "unreadable"]

\* The value that is left of a document; of a matcher that cannot be read it is null.
RECURSIVE Example(_)
Example(doc) ==
    CASE doc.type = "array" -> List([i \in DOMAIN doc.items |-> Example(doc.items[i])])
      [] doc.type = "object" -> Object([k \in DOMAIN doc.members |-> Example(doc.members[k])])
      [] doc.type = "variants" -> List([i \in DOMAIN doc.docs |-> Example(doc.docs[i])])
      [] doc.type = "matcher" -> Example(doc.value)
      [] doc.type = "unreadable" -> Null
      [] OTHER -> doc

-----------------------------------------------------------------------------
(* The rules that are added on the way, as pairs of a path and a rule. With *)
(* stars, all the members of an object are meant by each of their matchers. *)
RECURSIVE Additions(_, _, _), RulesOfDocument(_)

\* Mutant of ItemAdditions: only the item itself is meant.
MItemAdditions(items, path, everyItem, stars) ==
    FlattenSeq([i \in DOMAIN items |-> Additions(items[i], Append(path, Index(<<ToString(i - 1)>>)), stars)])
\* process_array; under a matcher every item stands for all of them.
ItemAdditions(items, path, everyItem, stars) ==
    FlattenSeq([i \in DOMAIN items |->
        Additions(items[i], Append(path, IF everyItem THEN StarIndex ELSE Index(<<ToString(i - 1)>>)), stars)])

\* process_object
MemberAdditions(members, path, stars) ==
    LET keys == SetToSeq(DOMAIN members)
    IN  FlattenSeq([i \in DOMAIN keys |->
            Additions(members[keys[i]], Join(path, IF stars THEN <<"*">> ELSE keys[i]), FALSE)])

\* process_matcher
ArrayContainsRule(docs) ==
    ArrayContains([i \in DOMAIN docs |-> [index |-> i - 1, rules |-> RulesOfDocument(docs[i])]])

MatcherAdditions(rules, value, path, stars) ==
    LET ofAllMembers == \E r \in ToSet(rules) : r.kind \in {"values", "each-value"}
        below == IF value.type = "array" THEN ItemAdditions(value.items, path, TRUE, stars)
                 ELSE Additions(value, path, ofAllMembers)
    IN  below \o [i \in DOMAIN rules |-> <<path, rules[i]>>]

Additions(doc, path, stars) ==
    CASE doc.type = "array" -> ItemAdditions(doc.items, path, FALSE, stars)
      [] doc.type = "object" -> MemberAdditions(doc.members, path, stars)
      [] doc.type = "variants" -> << <<path, ArrayContainsRule(doc.docs)>> >>
      [] doc.type = "matcher" -> MatcherAdditions(doc.rules, doc.value, path, stars)
      [] OTHER -> <<>>

AddAll(category, additions) == FoldLeft(LAMBDA c, a : AddRule(c, a[1], a[2], "AND"), category, additions)
RulesOfDocument(doc) == AddAll(EmptyCategory("body"), Additions(doc, <<Root>>, FALSE))

\* process_json: the rules are added to those of the category.
ProcessJson(doc, category) == [example |-> Example(doc), rules |-> AddAll(category, Additions(doc, <<Root>>, FALSE))]

-----------------------------------------------------------------------------
(* process_form_urlencoded_json: the members of the example as pairs. *)
IsFormValue(value) == value.type \in {"string"} \union NumberTypes

\* The paths of the values that a form cannot have, in members and in lists of them.
InvalidPaths(members) ==
    {<<Root, Part(k)>> : k \in {j \in DOMAIN members : ~ IsFormValue(members[j]) /\ members[j].type # "array"}}
    \union UNION {{<<Root, Part(k), Index(<<ToString(i - 1)>>)>> :
                      i \in {n \in DOMAIN members[k].items : ~ IsFormValue(members[k].items[n])}} : k \in DOMAIN members}

\* str::contains
ContainsText(text, part) ==
    \E i \in 0..(Len(text) - Len(part)) : SubSeq(text, i + 1, i + Len(part)) = part

\* handle_form_urlencoded_invalid_value: rules go by the text of their paths.
WithoutInvalid(category, invalid) ==
    [category EXCEPT !.rules = SelectSeq(@, LAMBDA e : \A p \in invalid : ~ ContainsText(BuildExpr(e.path), BuildExpr(p)))]

\* convert_json_value_to_query_params
FormPairs(members) ==
    LET keys == SetToSeq(DOMAIN members)
        values(k) == SelectSeq(IF members[k].type = "array" THEN members[k].items ELSE <<members[k]>>, IsFormValue)
    IN  FlattenSeq([i \in DOMAIN keys |-> [n \in DOMAIN values(keys[i]) |-> [name |-> keys[i], value |-> values(keys[i])[n].text]]])

\* doc is what the text is read as. A text that is taken for JSON and is none, such as "1=a",
\* makes from_str().unwrap() panic: there is no value for it.
ProcessForm(doc, category) ==
    LET json == ProcessJson(doc, category)
        members == json.example.members
    IN  IF json.example.type # "object" THEN [pairs |-> <<>>, rules |-> json.rules]
        ELSE [pairs |-> FormPairs(members), rules |-> WithoutInvalid(json.rules, InvalidPaths(members))]
=============================================================================
