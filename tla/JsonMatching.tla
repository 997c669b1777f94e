---------------------------- MODULE JsonMatching ----------------------------
(***************************************************************************)
(* How an actual JSON value is compared with the expected one under the    *)
(* matching rules of a body, and how lists of values are compared under    *)
(* the rules of any category: pact_matching's json.rs, matchingrules.rs    *)
(* and matchers.rs.                                                        *)
(* A value is a record [type, text, items, members].                       *)
(***************************************************************************)
EXTENDS RuleMatching

Value(type, text) == [type |-> type, text |-> text, items |-> <<>>, members |-> <<>>]
Null == Value("null", <<"null">>)
Text(t) == Value("string", t)
List(items) == [Value("array", <<>>) EXCEPT !.items = items]
Object(members) == [Value("object", <<>>) EXCEPT !.members = members]

NumberTypes == {"integer", "decimal"}

\* The keys in the order of a BTreeMap.
KeyCharacters == <<"-", "0", "1", "A", "B", "_", "a", "b">>
Rank1(c) == CHOOSE i \in DOMAIN KeyCharacters : KeyCharacters[i] = c
Below(key, other) ==
    \/ IsStrictPrefix(key, other)
    \/ \E i \in DOMAIN key \intersect DOMAIN other :
          SubSeq(key, 1, i - 1) = SubSeq(other, 1, i - 1) /\ Rank1(key[i]) < Rank1(other[i])
FirstKey(members) == CHOOSE k \in DOMAIN members : \A j \in DOMAIN members : ~ Below(j, k)

-----------------------------------------------------------------------------
(* One rule for one value. *)
SameType(expected, actual) ==
    expected.type = actual.type \/ {expected.type, actual.type} \subseteq NumberTypes

NotEmpty(value) ==
    CASE value.type = "string" -> value.text # <<>>
      [] value.type = "array" -> value.items # <<>>
      [] value.type = "object" -> DOMAIN value.members # {}
      [] OTHER -> value.type # "null"

\* Matches<&Value> for Value.
ValueMatches(expected, actual, rule, cascaded) ==
    CASE rule.kind \in Formats \union {"regex", "include", "content-type"} -> actual.text \in rule.text
      [] rule.kind \in TypeMatchers ->
            /\ SameType(expected, actual)
            /\ actual.type = "array" /\ ~ cascaded => SizeFits(rule, Len(actual.items))
      [] rule.kind \in {"equality", "values"} -> expected = actual
      [] rule.kind = "null" -> actual.type = "null"
      [] rule.kind \in {"integer", "decimal"} -> actual.type = rule.kind
      [] rule.kind = "number" -> actual.type \in NumberTypes
      [] rule.kind = "boolean" -> actual.type = "boolean" \/ (actual.type = "string" /\ actual.text \in {<<"true">>, <<"false">>})
      [] rule.kind = "not-empty" -> NotEmpty(actual)
      [] rule.kind = "semver" -> actual.type = "string" /\ actual.text \in SemanticVersions
      [] OTHER -> TRUE

\* Matches for slices and for maps; a map takes fewer kinds.
ListMatches(expected, actual, rule, cascaded) ==
    CASE rule.kind \in LengthTypes -> cascaded \/ SizeFits(rule, Len(actual))
      [] rule.kind = "equality" -> expected = actual
      [] rule.kind = "not-empty" -> actual # <<>>
      [] OTHER -> rule.kind \notin {"null", "status-code", "reference"}

MapMatches(expected, actual, rule, cascaded) ==
    CASE rule.kind \in LengthTypes -> cascaded \/ SizeFits(rule, Cardinality(DOMAIN actual))
      [] rule.kind = "equality" -> expected = actual
      [] rule.kind = "not-empty" -> DOMAIN actual # {}
      [] OTHER -> rule.kind \in {"regex", "type", "array-contains", "each-key", "each-value", "values"}

-----------------------------------------------------------------------------
(* Comparing values. *)

MatchValues(list, path, expected, actual) ==
    Verdict(list, path, {r \in ToSet(list.rules) : ~ ValueMatches(expected, actual, r, list.cascaded)})

CompareValues(path, expected, actual, context) ==
    IF IsDefined(context, path) THEN MatchValues(Select(context, path), path, expected, actual)
    ELSE Unless(ValueMatches(expected, actual, Rule("equality"), FALSE), Mismatch(path, "equality"))

\* The rules that each-value puts in the place of all others.
EachValueRules(path, definition) ==
    [name |-> "body",
     rules |-> <<[path |-> Join(path, <<"*">>),
                  list |-> [EmptyList("AND") EXCEPT !.rules = SelectSeq(definition, LAMBDA r : r # Reference)]]>>]
Unresolved(path, definition) == IF Reference \in ToSet(definition) THEN {Mismatch(path, "reference")} ELSE {}

RECURSIVE CompareJson(_, _, _, _)

\* The callback that compares two items of lists.
CompareItem(path, expected, actual, context) ==
    CASE context.items = "json" -> CompareJson(path, expected, actual, context)
      [] context.items = "query" -> CompareQueryParameterValue(path, expected, actual, 0, context)
      [] context.items = "header" -> MatchHeaderValue(context.key, 0, expected, actual, context)

\* compare_maps_with_matchingrule
CompareMembersAsValues(path, expected, actual, context) ==
    UNION {CompareJson(Join(path, k), expected[IF k \in DOMAIN expected THEN k ELSE FirstKey(expected)], actual[k], context) :
              k \in IF DOMAIN expected = {} THEN {} ELSE DOMAIN actual}

CompareMembers(path, expected, actual, context) ==
    MatchKeys(context, path, DOMAIN expected, DOMAIN actual) \union
    UNION {CompareJson(Join(path, k), expected[k], actual[k], context) : k \in DOMAIN expected \intersect DOMAIN actual}

CompareMapsWithRule(rule, cascaded, path, expected, actual, context) ==
    CASE rule.kind = "each-value" /\ ~ cascaded ->
            Unresolved(path, rule.rules) \union
            CompareMembersAsValues(path, expected, actual, CloneWith(context, EachValueRules(path, rule.rules)))
      [] rule.kind = "values" /\ ~ cascaded -> CompareMembersAsValues(path, expected, actual, context)
      [] OTHER ->
            Unless(MapMatches(expected, actual, rule, cascaded), Mismatch(path, rule.kind)) \union
            CompareMembers(path, expected, actual, context)

\* compare_maps: the logic of the list is not looked at, every rule must hold.
CompareMaps(path, expected, actual, context) ==
    CASE DOMAIN expected = {} /\ DOMAIN actual # {} /\ context.config = "NoUnexpectedKeys" -> {Mismatch(path, "empty")}
      [] ~ (DOMAIN expected = {} /\ DOMAIN actual # {} /\ context.config = "NoUnexpectedKeys") ->
            IF ~ IsDefined(context, path) THEN CompareMembers(path, expected, actual, context)
            ELSE LET list == Select(context, path)
                 IN  UNION {CompareMapsWithRule(r, list.cascaded, path, expected, actual, context) : r \in ToSet(list.rules)}

\* match_list_contents: further items are compared with the first expected one, and items
\* that are missing are forgiven if a rule is defined for them.
MatchListContents(path, expected, actual, context) ==
    LET item(i) == Join(path, <<ToString(i - 1)>>)
    IN  UNION {IF i > Len(actual) THEN Unless(IsDefined(context, item(i)), Mismatch(path, "missing"))
               ELSE CompareItem(item(i), expected[IF i > Len(expected) THEN 1 ELSE i], actual[i], context) :
                  i \in DOMAIN expected \union DOMAIN actual}

VariantMismatches(variant, path, expected, actual, context) ==
    IF variant.index + 1 \notin DOMAIN expected THEN {Mismatch(path, "no variant")}
    ELSE Unless(\E i \in DOMAIN actual :
                   CompareItem(<<Root>>, expected[variant.index + 1], actual[i], CloneWith(context, variant.rules)) = {},
                Mismatch(path, "variant"))

DefaultVariants(expected) == {[index |-> i - 1, rules |-> EqualityCategory] : i \in DOMAIN expected}

\* compare_lists_with_matchingrule: an empty expected list takes anything.
CompareListsWithRule(rule, path, expected, actual, context, cascaded) ==
    IF expected = <<>> THEN {}
    ELSE CASE rule.kind = "array-contains" ->
                 UNION {VariantMismatches(v, path, expected, actual, context) :
                           v \in IF rule.variants = <<>> THEN DefaultVariants(expected) ELSE ToSet(rule.variants)}
           [] rule.kind = "each-value" ->
                 IF cascaded THEN {}
                 ELSE Unresolved(path, rule.rules) \union
                      MatchListContents(path, expected, actual, CloneWith(context, EachValueRules(path, rule.rules)))
           [] OTHER ->
                 Unless(ListMatches(expected, actual, rule, cascaded), Mismatch(path, rule.kind)) \union
                 MatchListContents(path, expected, actual, context)

CompareListsWithRules(list, path, expected, actual, context) ==
    LET results == {CompareListsWithRule(r, path, expected, actual, context, list.cascaded) : r \in ToSet(list.rules)}
    IN  CASE list.rules = <<>> -> {Mismatch(path, "no matcher")}
          [] list.rules # <<>> /\ list.logic = "OR" /\ {} \in results -> {}
          [] OTHER -> UNION results

\* compare_list_content: the items of a list that has no rule.
CompareListContent(path, expected, actual, context) ==
    LET item(i) == Join(path, <<ToString(i - 1)>>)
    IN  UNION {IF i <= Len(actual) THEN CompareJson(item(i), expected[i], actual[i], context)
               ELSE Unless(IsDefined(context, item(i)), Mismatch(path, "missing")) : i \in DOMAIN expected}

CompareLists(path, expected, actual, context) ==
    CASE IsDefined(context, path) -> CompareListsWithRules(Select(context, path), path, expected, actual, context)
      [] OTHER ->
            Unless(Len(expected) = Len(actual), Mismatch(path, "length")) \union
            IF expected = <<>> THEN {} ELSE CompareListContent(path, expected, actual, context)

CompareJson(path, expected, actual, context) ==
    CASE expected.type = "object" /\ actual.type = "object" -> CompareMaps(path, expected.members, actual.members, context)
      [] expected.type = "array" /\ actual.type = "array" -> CompareLists(path, expected.items, actual.items, context)
      [] expected.type \in {"object", "array"} /\ actual.type # expected.type -> {Mismatch(path, "type")}
      [] OTHER -> CompareValues(path, expected, actual, context)

\* match_json; a body that cannot be parsed is a value of type "garbage".
MatchJson(expected, actual, context) ==
    LET garbage == {v \in {expected, actual} : v.type = "garbage"}
    IN  IF garbage # {} THEN {Mismatch(<<Root>>, "unparsable")}
        ELSE CompareJson(<<Root>>, expected, actual, context)
=============================================================================
