---------------------------- MODULE PartMatching ----------------------------
(***************************************************************************)
(* How the method, the path, the query, the headers and the status of a    *)
(* request or a response are compared with the expected ones               *)
(* (pact_matching's headers.rs, query.rs and lib.rs). Headers are a        *)
(* sequence of entries, in the order of their HashMap; a query maps names  *)
(* to values. Either may be absent: a sequence of one or of none.          *)
(***************************************************************************)
EXTENDS JsonMatching

RulesFor(rules, category) == IF category \in DOMAIN rules THEN rules[category] ELSE EmptyCategory("body")
ContextFor(rules, category, config) == Context(RulesFor(rules, CategoryOf(category)), config)

-----------------------------------------------------------------------------
(* Headers *)
FindEntry(headers, key) == SelectSeq(headers, LAMBDA h : LowerCase(h.key) = LowerCase(key))

\* The values of a header that has no rule of its own, one by one.
HeaderValues(key, expected, actual, context) ==
    UNION {IF i \notin DOMAIN actual THEN {Mismatch(<<Field(key)>>, "missing")}
           ELSE MatchHeaderValue(key, i - 1, IF i \in DOMAIN expected THEN expected[i] ELSE <<>>, actual[i], context) :
              i \in DOMAIN expected \union DOMAIN actual}

MatchHeader(key, expected, actual, context) ==
    LET path == Join(<<Root>>, LowerCase(key))
        values == [context EXCEPT !.key = key]
    IN  CASE expected = <<>> /\ actual # <<>> -> {Mismatch(<<Field(key)>>, "empty")}
          [] Len(expected) = 1 /\ Len(actual) = 1 -> MatchHeaderValue(key, 0, expected[1], actual[1], context)
          [] OTHER ->
                IF IsDefined(context, path)
                THEN CompareListsWithRules(Select(context, path), path, expected, actual, CloneWith(values, context.matchers))
                ELSE HeaderValues(key, expected, actual, context)

\* match_headers; nothing is said of a header that is not expected.
MMatchHeaders(expected, actual, context) ==
    LET wanted == IF expected = <<>> THEN <<>> ELSE expected[1]
        given(key) == IF actual = <<>> THEN <<>> ELSE SelectSeq(actual[1], LAMBDA h : h.key = key)
        of(h) == IF given(h.key) = <<>> THEN {Mismatch(<<Field(h.key)>>, "missing")}
                 ELSE MatchHeader(h.key, h.values, given(h.key)[1].values, context)
    IN  [key \in {h.key : h \in ToSet(wanted)} |-> of(CHOOSE h \in ToSet(wanted) : h.key = key)]
MatchHeaders(expected, actual, context) ==
    LET wanted == IF expected = <<>> THEN <<>> ELSE expected[1]
        given(key) == IF actual = <<>> THEN <<>> ELSE FindEntry(actual[1], key)
        of(h) == IF given(h.key) = <<>> THEN {Mismatch(<<Field(h.key)>>, "missing")}
                 ELSE MatchHeader(h.key, h.values, given(h.key)[1].values, context)
    IN  [key \in {h.key : h \in ToSet(wanted)} |-> of(CHOOSE h \in ToSet(wanted) : h.key = key)]

-----------------------------------------------------------------------------
(* Query parameters, of which an absent value is an empty text. *)
CompareQueryParameterValues(path, expected, actual, context) ==
    UNION {IF i \notin DOMAIN actual THEN {Mismatch(path, "missing")}
           ELSE CompareQueryParameterValue(path, IF i \in DOMAIN expected THEN expected[i] ELSE <<>>, actual[i], i - 1, context) :
              i \in DOMAIN expected \union DOMAIN actual}

MatchQueryValues(key, expected, actual, context) ==
    LET path == Join(<<Root>>, key)
        values == [context EXCEPT !.items = "query"]
    IN  CASE IsDefined(context, path) -> CompareListsWithRules(Select(context, path), path, expected, actual, values)
          [] ~ IsDefined(context, path) /\ expected = <<>> /\ actual # <<>> -> {Mismatch(path, "empty")}
          [] OTHER -> Unless(Len(expected) = Len(actual), Mismatch(path, "length"))
                      \union CompareQueryParameterValues(path, expected, actual, context)

MatchQueryMaps(expected, actual, context) ==
    [k \in DOMAIN expected \union DOMAIN actual |->
        IF k \notin DOMAIN actual THEN {Mismatch(<<Field(k)>>, "missing")}
        ELSE IF k \notin DOMAIN expected THEN {Mismatch(<<Field(k)>>, "unexpected")}
        ELSE MatchQueryValues(k, expected[k], actual[k], context)]

\* match_query
MatchQuery(expected, actual, context) ==
    LET of(query) == IF query = <<>> THEN [k \in {} |-> <<>>] ELSE query[1]
    IN  MatchQueryMaps(of(expected), of(actual), context)

All(results) == UNION {results[k] : k \in DOMAIN results}

-----------------------------------------------------------------------------
(* Method, path and status *)
MatchMethod(expected, actual) == Unless(LowerCase(expected) = LowerCase(actual), Mismatch(<<>>, "method"))
MatchPath(expected, actual, context) == CompareTexts(<<>>, expected, actual, context)

\* Matches<u64> for u64; the digits of a code are a word.
StatusMatches(expected, actual, rule, cascaded) ==
    CASE rule.kind \in {"regex", "include"} -> <<ToString(actual)>> \in rule.text
      [] rule.kind \in TypeMatchers \union {"number", "integer"} -> TRUE
      [] rule.kind = "equality" -> expected = actual
      [] rule.kind = "status-code" -> actual \in rule.text
      [] OTHER -> cascaded /\ ~ CanCascade(rule)

MatchStatus(expected, actual, context) ==
    LET list == Select(context, <<>>)
    IN  IF ~ IsDefined(context, <<>>) THEN Unless(expected = actual, Mismatch(<<>>, "status"))
        ELSE Verdict(list, <<>>, {r \in ToSet(list.rules) : ~ StatusMatches(expected, actual, r, list.cascaded)})
=============================================================================
