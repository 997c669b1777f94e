---------------------------- MODULE RuleMatching ----------------------------
(***************************************************************************)
(* What the rules of one category say of one text, and the context that    *)
(* looks them up: pact_matching's matchers.rs, the CoreMatchingContext and *)
(* the HeaderMatchingContext of lib.rs, and how one value of a header or   *)
(* of a query parameter is matched (headers.rs, query.rs).                 *)
(* A text is a sequence of words and punctuation, a key one of characters; *)
(* a pattern (a regular expression, a date format, a content type, a       *)
(* substring) is the set of the texts it accepts. A result is the set of   *)
(* the mismatches; a match is the empty set.                               *)
(***************************************************************************)
EXTENDS MatchingRules, TLC

Mismatch(path, what) == [path |-> path, what |-> what]
Unless(holds, mismatch) == IF holds THEN {} ELSE {mismatch}

\* A list entry whose rule is a name that was never resolved.
Reference == Rule("reference")
SemanticVersions == {<<"1", ".", "0", ".", "0">>}

SizeFits(rule, n) ==
    CASE rule.kind = "min-type" -> n >= rule.min
      [] rule.kind = "max-type" -> n <= rule.max
      [] rule.kind = "min-max-type" -> n >= rule.min /\ n <= rule.max
      [] OTHER -> TRUE

\* A text that f64 can be parsed from: digits with a sign and a point.
IsDecimal(text) ==
    LET unsigned == IF text # <<>> /\ text[1] \in {"+", "-"} THEN Tail(text) ELSE text
    IN  /\ ToSet(unsigned) \subseteq AsciiDigit \union {"."}
        /\ ToSet(unsigned) \intersect AsciiDigit # {}
        /\ Cardinality({i \in DOMAIN unsigned : unsigned[i] = "."}) <= 1

\* match_status_code: a class of status codes stands for its members.
StatusClasses ==
    [information |-> 100..199, success |-> 200..299, redirect |-> 300..399, clientError |-> 400..499,
     serverError |-> 500..599, nonError |-> 0..399, error |-> 400..65535]

NumberOf(text) == FoldLeft(LAMBDA n, d : 10 * n + (CHOOSE v \in 0..9 : ToString(v) = d), 0, Digits(text))

\* Matches<&str> for &str.
TextMatches(expected, actual, rule, cascaded) ==
    CASE rule.kind \in Formats \union {"regex", "include", "content-type"} -> actual \in rule.text
      [] rule.kind \in {"equality", "values"} -> expected = actual
      [] rule.kind \in TypeMatchers -> TRUE
      [] rule.kind \in {"number", "decimal"} -> IsDecimal(actual)
      [] rule.kind = "integer" -> IsNumber(actual)
      [] rule.kind = "boolean" -> actual \in {<<"true">>, <<"false">>}
      [] rule.kind = "not-empty" -> actual # <<>>
      [] rule.kind = "semver" -> actual \in SemanticVersions
      [] rule.kind = "status-code" -> IsNumber(actual) /\ NumberOf(actual) \in rule.text
      [] OTHER -> cascaded /\ ~ CanCascade(rule)

-----------------------------------------------------------------------------
(* A context: the rules of a category, whether unexpected keys are allowed,
   what the items of lists are (JSON values, the values of a parameter or
   those of the header key), which tells how two of them are compared. *)
Context(matchers, config) == [matchers |-> matchers, config |-> config, items |-> "json", key |-> <<>>]

\* HeaderMatchingContext::new; of two rules whose paths become the same the later one stays.
LowerCased(category) ==
    LET paths == [i \in DOMAIN category.rules |-> ToLowerCase(category.rules[i].path)]
        kept == SetToSortSeq({i \in DOMAIN paths : \A j \in DOMAIN paths : j > i => paths[j] # paths[i]}, <)
    IN  [category EXCEPT !.rules = [n \in DOMAIN kept |-> [category.rules[kept[n]] EXCEPT !.path = paths[kept[n]]]]]

HeaderContext(context) == [context EXCEPT !.matchers = LowerCased(@), !.items = "header"]

CloneWith(context, matchers) ==
    [context EXCEPT !.matchers = IF context.items = "header" THEN LowerCased(matchers) ELSE matchers]

IsDefined(context, path) == MatcherIsDefined(context.matchers, ToVec(path))
Select(context, path) == SelectBestMatcher(context.matchers, ToVec(path))
TypeMatcherDefined(context, path) ==
    \E e \in ToSet(ResolveMatchersForPath(context.matchers, ToVec(path)).rules) :
        \E r \in ToSet(e.list.rules) : r.kind \in TypeMatchers

MatchersForExactPath(context, path) ==
    LET exactly(expr) ==
            CASE context.matchers.name \in {"header", "query"} -> Len(path) = 1 /\ FirstField(path) = FirstField(expr)
              [] context.matchers.name = "body" -> MatchesPathExactly(expr, ToVec(path))
              [] OTHER -> FALSE
    IN  [context.matchers EXCEPT !.rules = SelectSeq(@, LAMBDA e : exactly(e.path))]

\* Any rule at all, or one of some kinds in the first list that the map yields.
AnyDirectMatcher(context, path) == MatchersForExactPath(context, path).rules # <<>>
DirectMatcher(context, path, kinds) ==
    \E r \in ToSet(AsRuleList(MatchersForExactPath(context, path)).rules) : r.kind \in kinds

KeysFreed == {"values", "each-value", "each-key"}

MKeyMismatches(context, path, expected, actual) ==
    IF DirectMatcher(context, path, KeysFreed) THEN {}
    ELSE Unless(expected = actual, Mismatch(path, "keys"))
MKeyMismatchesSwapped(context, path, expected, actual) ==
    IF DirectMatcher(context, path, KeysFreed) THEN {}
    ELSE CASE context.config = "NoUnexpectedKeys" -> Unless(expected \subseteq actual, Mismatch(path, "keys"))
           [] context.config = "AllowUnexpectedKeys" -> Unless(expected = actual, Mismatch(path, "keys"))
KeyMismatches(context, path, expected, actual) ==
    IF DirectMatcher(context, path, KeysFreed) THEN {}
    ELSE CASE context.config = "AllowUnexpectedKeys" -> Unless(expected \subseteq actual, Mismatch(path, "keys"))
           [] context.config = "NoUnexpectedKeys" -> Unless(expected = actual, Mismatch(path, "keys"))

\* A key is tried with an empty text as the expected one.
EachKeyMismatches(definition, path, actual) ==
    UNION {IF r = Reference THEN {Mismatch(path, "reference")}
           ELSE {Mismatch(Join(path, k), "key") : k \in {j \in actual : ~ TextMatches(<<>>, j, r, FALSE)}} : r \in ToSet(definition)}

MatchKeys(context, path, expected, actual) ==
    KeyMismatches(context, path, expected, actual) \union
    IF ~ AnyDirectMatcher(context, path) THEN {}
    ELSE UNION {EachKeyMismatches(r.rules, path, actual) :
                   r \in {q \in ToSet(Select(context, path).rules) : q.kind = "each-key"}}

-----------------------------------------------------------------------------
\* match_values, for the rules of the list that failed: an AND list wants every rule, an OR list one.
Verdict(list, path, failed) ==
    IF list.rules = <<>> THEN {Mismatch(path, "no matcher")}
    ELSE IF list.logic = "OR" /\ failed # ToSet(list.rules) THEN {}
    ELSE {Mismatch(path, r.kind) : r \in failed}

MatchTexts(list, path, expected, actual) ==
    Verdict(list, path, {r \in ToSet(list.rules) : ~ TextMatches(expected, actual, r, list.cascaded)})

CompareTexts(path, expected, actual, context) ==
    IF IsDefined(context, path) THEN MatchTexts(Select(context, path), path, expected, actual)
    ELSE Unless(expected = actual, Mismatch(path, "equality"))

IndexText(n) == <<ToString(n)>>

\* compare_query_parameter_value, which looks for a rule under the index.
CompareQueryParameterValue(path, expected, actual, index, context) ==
    CompareTexts(Join(path, IndexText(index)), expected, actual, context)

-----------------------------------------------------------------------------
(* One value of a header. *)
Trim(text) ==
    LET inner == {i \in DOMAIN text : text[i] # " "}
    IN  IF inner = {} THEN <<>> ELSE SubSeq(text, Min(inner), Max(inner))

\* str::split
Split(text, separator) ==
    LET ends == SetToSortSeq({i \in DOMAIN text : text[i] = separator} \union {Len(text) + 1}, <)
    IN  [n \in DOMAIN ends |-> SubSeq(text, IF n = 1 THEN 1 ELSE ends[n - 1] + 1, ends[n] - 1)]

StripWhitespace(text, separator) ==
    LET parts == Split(text, separator)
    IN  SelectSeq([i \in DOMAIN parts |-> Trim(parts[i])], LAMBDA p : p # <<>>)

\* parse_charset_parameters: a later parameter replaces an earlier one of its name.
Parameters(parts) ==
    LET named == {i \in DOMAIN parts : "=" \in ToSet(parts[i])}
        at(i) == Min({j \in DOMAIN parts[i] : parts[i][j] = "="})
        nameOf(i) == Trim(SubSeq(parts[i], 1, at(i) - 1))
    IN  [n \in {nameOf(i) : i \in named} |->
            LET i == Max({j \in named : nameOf(j) = n}) IN Trim(SubSeq(parts[i], at(i) + 1, Len(parts[i])))]

\* An empty text has no first part, which counts as an empty one.
FirstPart(parts) == IF parts = <<>> THEN <<>> ELSE parts[1]
OtherParts(parts) == IF parts = <<>> THEN <<>> ELSE Tail(parts)

MatchParameterHeader(expected, actual) ==
    LET e == StripWhitespace(expected, ";")
        a == StripWhitespace(actual, ";")
        wanted == Parameters(OtherParts(e))
        given == Parameters(OtherParts(a))
    IN  /\ FirstPart(e) = FirstPart(a)
        /\ \A n \in DOMAIN wanted : n \in DOMAIN given /\ LowerCase(wanted[n]) = LowerCase(given[n])

ParameterisedHeaders == {<<"accept">>, <<"content-type">>}

\* match_header_value: a rule for the header, else one for the index, else parameters or equality.
MatchHeaderValue(key, index, expected, actual, context) ==
    LET path == Join(<<Root>>, LowerCase(key))
        indexed == Join(path, IndexText(index))
        e == Trim(expected)
        a == Trim(actual)
    IN  CASE IsDefined(context, path) -> MatchTexts(Select(context, path), path, e, a)
          [] ~ IsDefined(context, path) /\ IsDefined(context, indexed) -> MatchTexts(Select(context, indexed), indexed, e, a)
          [] ~ IsDefined(context, path) /\ ~ IsDefined(context, indexed) /\ LowerCase(key) \in ParameterisedHeaders ->
                Unless(MatchParameterHeader(e, a), Mismatch(path, "parameters"))
          [] OTHER -> Unless(e = a, Mismatch(path, "equality"))
=============================================================================
