---------------------------- MODULE MatchingRules ----------------------------
(***************************************************************************)
(* The matching rules of pact_models/src/matchingrules/mod.rs: rules, rule *)
(* lists and categories, how the best rule for a path is chosen, and how   *)
(* rules are written to a pact file and read back.  A category is a        *)
(* HashMap: here a sequence of entries, in the order its iterator takes.   *)
(***************************************************************************)
EXTENDS PathExpr

None == [result |-> "none"]

\* MatchingRule. Each kind uses some of the attributes.
Rule(kind) == [kind |-> kind, min |-> 0, max |-> 0, rules |-> <<>>, variants |-> <<>>]
WithMin(kind, n) == [Rule(kind) EXCEPT !.min = n]
WithMax(kind, n) == [Rule(kind) EXCEPT !.max = n]
MinMaxType(m, n) == [Rule("min-max-type") EXCEPT !.min = m, !.max = n]
WithText(kind, t) == [kind |-> kind, text |-> t, min |-> 0, max |-> 0, rules |-> <<>>, variants |-> <<>>]
WithRules(kind, rs) == [Rule(kind) EXCEPT !.rules = rs]
ArrayContains(variants) == [Rule("array-contains") EXCEPT !.variants = variants]

Formats == {"datetime", "time", "date"}
LengthTypes == {"min-type", "max-type", "min-max-type"}
TypeMatchers == {"type"} \union LengthTypes
PlainKinds == {"equality", "type", "number", "integer", "decimal", "null", "values", "boolean", "not-empty", "semver"}

CanCascade(rule) == rule.kind \notin {"values", "each-value", "each-key"}
ForSingleItem(rule) == IF rule.kind \in LengthTypes THEN Rule("type") ELSE rule

-----------------------------------------------------------------------------
(* RuleList *)
EmptyList(logic) == [rules |-> <<>>, logic |-> logic, cascaded |-> FALSE]
ListOf(rule) == [EmptyList("AND") EXCEPT !.rules = <<rule>>]
AsCascaded(list, b) == [list EXCEPT !.cascaded = b]
AndRules(list, other) == [list EXCEPT !.rules = @ \o other.rules]

-----------------------------------------------------------------------------
(* MatchingRuleCategory *)
CategoryNames == {"method", "path", "header", "query", "body", "status", "contents", "metadata"}
\* Category::from: a name that is not known is the body.
CategoryOf(name) ==
    CASE name \in CategoryNames -> name [] name = "headers" -> "header" [] OTHER -> "body"

EmptyCategory(name) == [name |-> name, rules |-> <<>>]
EqualityCategory == [name |-> "body", rules |-> <<[path |-> <<>>, list |-> ListOf(Rule("equality"))]>>]

Entry(category, path) == {i \in DOMAIN category.rules : category.rules[i].path = path}

MAddRule(category, path, rule, logic) ==
    IF Entry(category, path) # {}
    THEN [category EXCEPT !.rules[CHOOSE i \in Entry(category, path) : TRUE].list.rules = Append(@, rule)]
    ELSE [category EXCEPT !.rules = Append(@, [path |-> path, list |-> ListOf(rule)])]
\* add_rule: the logic of the first rule for a path stays.
AddRule(category, path, rule, logic) ==
    IF Entry(category, path) # {}
    THEN [category EXCEPT !.rules[CHOOSE i \in Entry(category, path) : TRUE].list.rules = Append(@, rule)]
    ELSE [category EXCEPT !.rules = Append(@, [path |-> path, list |-> [EmptyList(logic) EXCEPT !.rules = <<rule>>]])]

AddEntry(category, entry) ==
    IF Entry(category, entry.path) # {}
    THEN [category EXCEPT !.rules[CHOOSE i \in Entry(category, entry.path) : TRUE].list = AndRules(@, entry.list)]
    ELSE [category EXCEPT !.rules = Append(@, entry)]

AddRules(category, other) == FoldLeft(AddEntry, category, other.rules)

Matching(category, fragments) == SelectSeq(category.rules, LAMBDA e : MatchesPath(e.path, fragments))

Rank(path, fragments) == PathWeight(path, fragments) * Len(path)

MMaxByPathLast(category, fragments) ==
    LET found == Matching(category, fragments)
    IN  IF found = <<>> THEN EmptyList("AND")
        ELSE AsCascaded(Last(found).list, Len(Last(found).path) # Len(fragments))
\* max_by_key returns the last of several maxima.
MaxByPath(category, fragments) ==
    LET found == Matching(category, fragments)
        best == {i \in DOMAIN found : \A j \in DOMAIN found : Rank(found[j].path, fragments) <= Rank(found[i].path, fragments)}
    IN  IF found = <<>> THEN EmptyList("AND")
        ELSE LET e == found[Max(best)] IN AsCascaded(e.list, Len(e.path) # Len(fragments))

ResolveMatchersForPath(category, fragments) ==
    IF category.name \in {"header", "query", "body", "contents", "metadata"}
    THEN [category EXCEPT !.rules = Matching(category, fragments)]
    ELSE category

\* as_rule_list takes the first list that the map's iterator yields.
AsRuleList(category) == IF category.rules = <<>> THEN EmptyList("AND") ELSE category.rules[1].list

SelectBestMatcher(category, fragments) ==
    IF category.name \in {"body", "metadata"} THEN MaxByPath(category, fragments)
    ELSE AsRuleList(ResolveMatchersForPath(category, fragments))

MatcherIsDefined(category, fragments) == ResolveMatchersForPath(category, fragments).rules # <<>>

-----------------------------------------------------------------------------
(* A rule as JSON: a record of the attributes it has. *)
RECURSIVE RuleToJson(_), RuleFromJson(_)

JsonName(kind) ==
    CASE kind = "content-type" -> "contentType" [] kind = "not-empty" -> "notEmpty" [] kind = "status-code" -> "statusCode"
      [] kind = "array-contains" -> "arrayContains" [] kind = "each-key" -> "eachKey" [] kind = "each-value" -> "eachValue"
      [] OTHER -> kind

ListToJson(list) ==
    [combine |-> list.logic, matchers |-> [i \in DOMAIN list.rules |-> RuleToJson(list.rules[i])]]

FirstFieldOrExpr(path) == IF FirstField(path) = <<>> THEN BuildExpr(path) ELSE FirstField(path)[1]

\* The entries as an object with a text for each key; of two entries with one key the last one stays.
CategoryToV3Json(category) ==
    LET rules == category.rules
        key(i) == IF category.name \in {"header", "query"} THEN FirstFieldOrExpr(rules[i].path) ELSE BuildExpr(rules[i].path)
    IN  [k \in {key(i) : i \in DOMAIN rules} |-> ListToJson(rules[Max({i \in DOMAIN rules : key(i) = k})].list)]

RuleToJson(rule) ==
    CASE rule.kind \in PlainKinds -> [match |-> JsonName(rule.kind)]
      [] rule.kind = "regex" -> [match |-> "regex", regex |-> rule.text]
      [] rule.kind = "min-type" -> [match |-> "type", min |-> rule.min]
      [] rule.kind = "max-type" -> [match |-> "type", max |-> rule.max]
      [] rule.kind = "min-max-type" -> [match |-> "type", min |-> rule.min, max |-> rule.max]
      [] rule.kind \in Formats -> [match |-> rule.kind, format |-> rule.text]
      [] rule.kind \in {"include", "content-type"} -> [match |-> JsonName(rule.kind), value |-> rule.text]
      [] rule.kind = "status-code" -> [match |-> "statusCode", status |-> rule.text]
      [] rule.kind = "array-contains" ->
            [match |-> "arrayContains",
             variants |-> [i \in DOMAIN rule.variants |->
                [index |-> rule.variants[i].index, rules |-> CategoryToV3Json(rule.variants[i].rules)]]]
      [] rule.kind \in {"each-key", "each-value"} ->
            [match |-> JsonName(rule.kind), rules |-> [i \in DOMAIN rule.rules |-> RuleToJson(rule.rules[i])]]

(* Reading: a result or None, which stands for the error. *)
AddRuleList(category, path, json) ==
    LET read == [i \in DOMAIN json.matchers |-> RuleFromJson(json.matchers[i])]
    IN  IF category = None \/ None \in ToSet(read) THEN None
        ELSE FoldLeft(LAMBDA c, r : AddRule(c, path, r, json.combine), category, read)

\* The path that a key of a category's JSON stands for.
PathOfKey(name, key) == IF name \in {"header", "query"} THEN Parsed(<<Root, Field(key)>>) ELSE Parse(key)

\* add_rules_from_json, with add_v3_rules_from_json
CategoryFromV3Json(category, json) ==
    LET path(k) == PathOfKey(category.name, k)
    IN  FoldSet(LAMBDA k, c : IF path(k).result # "ok" THEN None ELSE AddRuleList(c, path(k).path, json[k]),
                category, DOMAIN json)

Get(json, key, default) == IF key \in DOMAIN json THEN json[key] ELSE default
Needs(json, key, rule(_)) == IF key \in DOMAIN json THEN rule(json[key]) ELSE None

Variant(json) ==
    [index |-> Get(json, "index", 0),
     rules |-> IF "rules" \in DOMAIN json THEN CategoryFromV3Json(EmptyCategory("body"), json.rules) ELSE EqualityCategory]

RulesOf(json) == LET rs == Get(json, "rules", <<>>) IN [i \in DOMAIN rs |-> RuleFromJson(rs[i])]
EachOf(kind, json) == IF None \in ToSet(RulesOf(json)) THEN None ELSE WithRules(kind, RulesOf(json))

\* MatchingRule::create: the types it knows, with the spellings it accepts.
Create(type, json) ==
    CASE type \in PlainKinds -> 
            IF type # "type" THEN Rule(type)
            ELSE CASE "min" \in DOMAIN json /\ "max" \in DOMAIN json -> MinMaxType(json.min, json.max)
                   [] "min" \in DOMAIN json /\ "max" \notin DOMAIN json -> WithMin("min-type", json.min)
                   [] "min" \notin DOMAIN json /\ "max" \in DOMAIN json -> WithMax("max-type", json.max)
                   [] OTHER -> Rule("type")
      [] type = "real" -> Rule("decimal")
      [] type = "notEmpty" -> Rule("not-empty")
      [] type = "regex" -> Needs(json, "regex", LAMBDA v : WithText("regex", v))
      [] type = "include" -> Needs(json, "value", LAMBDA v : WithText("include", v))
      [] type \in {"min", "min-type"} -> Needs(json, "min", LAMBDA v : WithMin("min-type", v))
      [] type \in {"max", "max-type"} -> Needs(json, "max", LAMBDA v : WithMax("max-type", v))
      [] type \in Formats -> WithText(type, Get(json, "format", Get(json, type, "")))
      [] type = "timestamp" -> WithText("datetime", Get(json, "format", Get(json, "timestamp", "")))
      [] type \in {"contentType", "content-type"} -> Needs(json, "value", LAMBDA v : WithText("content-type", v))
      [] type \in {"statusCode", "status-code"} -> WithText("status-code", Get(json, "status", "success"))
      [] type \in {"arrayContains", "array-contains"} ->
            Needs(json, "variants", LAMBDA vs :
                LET read == [i \in DOMAIN vs |-> Variant(vs[i])]
                IN  IF \E i \in DOMAIN read : read[i].rules = None THEN None ELSE ArrayContains(read))
      [] type \in {"eachKey", "each-key"} -> EachOf("each-key", json)
      [] type \in {"eachValue", "each-value"} -> EachOf("each-value", json)
      [] OTHER -> None

\* A matcher without a type is guessed from its attributes.
RuleFromJson(json) ==
    CASE "match" \in DOMAIN json -> Create(json.match, json)
      [] OTHER ->
            CASE "regex" \in DOMAIN json -> WithText("regex", json.regex)
              [] "regex" \notin DOMAIN json /\ "min" \in DOMAIN json -> WithMin("min-type", json.min)
              [] {"regex", "min"} \intersect DOMAIN json = {} /\ "max" \in DOMAIN json -> WithMax("max-type", json.max)
              [] OTHER -> None

\* name and values: the form in which a rule is handed to plugins and to foreign code.
NameAndValues(rule) ==
    LET json == RuleToJson(rule)
    IN  <<rule.kind, [a \in DOMAIN json \ {"match"} |-> json[a]]>>

-----------------------------------------------------------------------------
(* MatchingRules: a set of categories, as a function from their names. *)
\* to_v3_json: the path has one list, under the empty path or else the root.
PathList(category) ==
    CASE Entry(category, <<>>) # {} -> Entry(category, <<>>)
      [] OTHER -> Entry(category, <<Root>>)

ToV3Json(rules) ==
    LET written == {n \in DOMAIN rules :
            IF n = "path" THEN PathList(rules[n]) # {} ELSE rules[n].rules # <<>>}
    IN  [n \in written |->
            IF n = "path" THEN [list |-> ListToJson(rules[n].rules[CHOOSE i \in PathList(rules[n]) : TRUE].list)]
            ELSE [keys |-> CategoryToV3Json(rules[n])]]

\* load_from_v3_map: an object with a key "matchers" is one list, for the empty path; any other
\* has a list for each key.
FromV3Json(json) ==
    LET names == {CategoryOf(k) : k \in DOMAIN json}
        load(k, c) == IF "list" \in DOMAIN json[k] THEN AddRuleList(c, <<>>, json[k].list)
                      ELSE CategoryFromV3Json(c, json[k].keys)
    IN  [name \in names |->
            FoldSet(load, EmptyCategory(name), {k \in DOMAIN json : CategoryOf(k) = name})]

(* The V2 form: one object, whose keys are paths from the request or        *)
(* response down, with the first rule of each list.                        *)
V2Form(name) == IF name = "header" THEN "headers" ELSE name

V2Key(name, path) ==
    CASE name = "path" -> <<"$", ".", "path">>
      \* String::replace replaces every dollar sign.
      [] name = "body" ->
            LET expr == BuildExpr(path)
            IN  FlattenSeq([i \in DOMAIN expr |-> IF expr[i] = "$" THEN <<"$", ".", "body">> ELSE <<expr[i]>>])
      [] name \in {"header", "query"} -> BuildExpr(PushPath(<<Root, Field(<<V2Form(name)>>)>>, path))
      [] OTHER -> <<"$", ".", V2Form(name), ".">> \o BuildExpr(path)

FirstRuleToJson(list) == IF list.rules = <<>> THEN <<>> ELSE RuleToJson(list.rules[1])

ToV2Json(rules) ==
    LET entries == {<<n, rules[n].rules[i]>> : <<n, i>> \in
                        UNION {{n} \X DOMAIN rules[n].rules : n \in DOMAIN rules}}
        key(e) == V2Key(e[1], e[2].path)
    IN  [k \in {key(e) : e \in entries} |->
            FirstRuleToJson((CHOOSE e \in entries : key(e) = k)[2].list)]

Fields(path) == SelectSeq(path, LAMBDA t : t.kind = "field")

\* The category and the path that a V2 key stands for, if it can be parsed.
V2Target(key) ==
    LET parsed == Parse(key)
        fields == Fields(parsed.path)
        under(name, path) == IF path.result = "ok" THEN [result |-> "ok", name |-> name, path |-> path.path] ELSE None
    IN  CASE IsPrefix(<<"$", ".", "body">>, key) -> under("body", Parse(<<"$">> \o SubSeq(key, 4, Len(key))))
          [] parsed.result # "ok" \/ fields = <<>> -> None
          [] IsPrefix(<<"$", ".", "headers">>, key) ->
                IF Len(fields) < 2 THEN None ELSE under("header", Parse(fields[2].name))
          [] OTHER -> under(CategoryOf(IF Len(fields[1].name) = 1 THEN fields[1].name[1] ELSE "other"), Parse(IF Len(fields) < 2 THEN <<>> ELSE fields[2].name))

\* load_from_v2_map: the rules, or None when a key or a rule cannot be read.
FromV2Json(json) ==
    IF \E k \in DOMAIN json : V2Target(k) = None \/ RuleFromJson(json[k]) = None THEN None
    ELSE LET to(name) == {k \in DOMAIN json : V2Target(k).name = name}
             add(k, c) == AddRule(c, V2Target(k).path, RuleFromJson(json[k]), "AND")
         IN  [name \in {V2Target(k).name : k \in DOMAIN json} |-> FoldSet(add, EmptyCategory(name), to(name))]
=============================================================================
