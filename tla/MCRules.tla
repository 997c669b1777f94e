------------------------------- MODULE MCRules -------------------------------
(***************************************************************************)
(* Path expressions and matching rules are functions without state.  A     *)
(* behaviour asks one question after the other, all of one kind: a step    *)
(* picks an input and the next one answers.  The statements below say of   *)
(* every input what the functions make of it; the action properties of     *)
(* MCContents say that they hold whenever a question is answered.          *)
(***************************************************************************)
EXTENDS MatchingRules, Functions, TLC

VARIABLES
    kind,       \* the kind of input that this behaviour picks
    question,   \* that kind, once there is an input
    input       \* the input

vars == <<kind, question, input>>

Texts == {<<"$">> \o s : s \in SeqOf({"$", ".", "[", "]", "'", "\\", "*", "a", "0", "one half"}, 4)}
            \union SeqOf({"$", ".", "a", "0", "["}, 3)

Keys == SeqOf({"a", "A", "_", "0", "1", "-", ".", "[", "*", "$", "~", "/", "+", "]", "'", "\\"}, 2) \ {<<>>}

Tokens == {Field(<<"a">>), Field(<<"b">>), Index(<<"0">>), Star, StarIndex}
Exprs == {<<Root>> \o s : s \in SeqOf(Tokens, 2)}
Values == {<< <<"$">> >> \o s : s \in SeqOf({<<"a">>, <<"b">>, <<"0">>}, 3)}

KeyPaths == {<<Root, Field(k)>> : k \in Keys} \union
            {<<Root, Field(j), t>> : j \in {<<"a">>, <<"-">>, <<"a", ".">>}, t \in {Field(k) : k \in Keys} \union Tokens}

\* Three entries at most, told apart by the text of a rule.
Picked(name, paths) ==
    [name |-> name, rules |-> [i \in DOMAIN paths |->
        [path |-> paths[i], list |-> ListOf(WithText("regex", ToString(i)))]]]
SelectionExprs == {<<Root>>, <<Root, Field(<<"a">>)>>, <<Root, Star>>, <<Root, Field(<<"a">>), Star>>,
                   <<Root, Star, Field(<<"b">>)>>, <<Root, Star, StarIndex>>}
Selections == {[category |-> Picked(n, ps), value |-> v] :
                  n \in {"body", "header", "path"}, v \in Values,
                  ps \in {s \in SeqOf(SelectionExprs, 3) : IsInjective(s)}}

Scalars == {Rule(k) : k \in PlainKinds} \union {WithText(k, "t") : k \in Formats \union {"regex", "include", "content-type", "status-code"}}
              \union {WithMin("min-type", 0), WithMax("max-type", 2), MinMaxType(1, 2)}
Variants == {[index |-> 1, rules |-> Picked("body", <<>>)], [index |-> 0, rules |-> Picked("body", <<<<Root>>, <<Root, Star>>>>)],
             [index |-> 2, rules |-> EqualityCategory]}
Nested == {WithRules(k, s) : k \in {"each-key", "each-value"}, s \in SeqOf(Scalars, 2)}
            \union {ArrayContains(s) : s \in SeqOf(Variants, 2)}
AllRules == Scalars \union Nested \union {WithRules("each-value", <<r>>) : r \in Nested}

FewRules == {Rule("type"), Rule("equality"), WithText("regex", "x"), WithMin("min-type", 0), WithRules("each-key", <<WithText("regex", "x")>>)}
Lists == {[EmptyList(l) EXCEPT !.rules = rs] : l \in {"AND", "OR"}, rs \in SeqOf(FewRules, 2)}
SavedPaths == {<<>>, <<Root>>, <<Root, Field(<<"a">>)>>, <<Root, Field(<<"a", "-">>)>>, <<Root, Field(<<"a">>), StarIndex>>,
               <<Root, Field(<<"a">>), Field(<<"b">>)>>}
RuleSets == {(n :> [name |-> n, rules |-> <<[path |-> p, list |-> l]>> \o more]) @@ ("metadata" :> EmptyCategory("metadata")) :
                n \in CategoryNames \ {"metadata"}, p \in SavedPaths, l \in Lists,
                more \in {<<>>, <<[path |-> <<Root, Field(<<"b">>)>>, list |-> ListOf(Rule("null"))]>>}}

RuleKinds == {"text", "key", "path", "weight", "selection", "rule", "rules"}

InitWith(kinds) == kind \in kinds /\ question = "none" /\ input = <<>>
Init == InitWith(RuleKinds)

Pick(k) ==
    /\ question = "none" /\ kind = k
    /\ question' = k
    /\ UNCHANGED kind

Ask(k, inputs) == Pick(k) /\ \E i \in inputs : input' = i

Answer ==
    /\ question # "none"
    /\ question' = "none" /\ input' = <<>>
    /\ UNCHANGED kind

AskText == Ask("text", Texts)
AskKey == Ask("key", Keys)
AskPath == Ask("path", KeyPaths)
AskWeight == Ask("weight", Exprs \X Exprs \X Values)
AskSelection == Ask("selection", Selections)
AskRule == Ask("rule", AllRules)
AskRuleSet == Ask("rules", RuleSets)

Next == AskText \/ AskKey \/ AskPath \/ AskWeight \/ AskSelection \/ AskRule \/ AskRuleSet

Spec == Init /\ [][Next]_vars

\* A quote or a backslash in a key is escaped when the key is written, and no
\* escape is undone when it is read: such keys are not claimed to be read back.
Ordinary(path) == \A i \in DOMAIN path : ToSet(path[i].name) \cap {"'", "\\"} = {}

\* What a text is read as, if none of its names has a backslash, can be written
\* and is read as the same again; reading panics only at an index with a
\* character that is numeric and no digit (parse_path_exp, build_expr).
TextsReadBack ==
    question = "text" =>
        LET read == Parse(input)
        IN  /\ read.result = "ok" /\ Ordinary(read.path) => Parse(BuildExpr(read.path)) = read
            /\ read.result = "panic" => "one half" \in ToSet(input)

\* A path that is written to a pact file is the one that is read from it, for keys
\* without quotes and backslashes (write_obj_key_for_path and the parser).
PathsReadBack ==
    question = "path" /\ Ordinary(input) => Parse(BuildExpr(input)) = Parsed(input)

\* Two keys are never written as the same text, whatever characters they have: path
\* expressions are compared by their texts (PartialEq of DocPath).
KeysAreWrittenApart ==
    question = "key" => \A k \in Keys : WriteKey(k) = WriteKey(input) => k = input

\* The rule for a key of a map applies to the value under that key: the matching
\* engine joins the key to the path and turns it to text again. Keys that are numbers
\* with leading zeros or a sign are left out, since join changes them.
KeysMeetTheirRules ==
    question = "key" /\ (IsNumber(input) => Number(input) = input) =>
        MatchesPathExactly(<<Root, Field(input)>>, ToVec(Join(<<Root>>, input)))

\* Two keys never have the same JSON pointer (as_json_pointer).
PointersAreDistinct ==
    question = "key" => \A k \in Keys : AsJsonPointer(<<Root, Field(k)>>) = AsJsonPointer(<<Root, Field(input)>>) => k = input

TokenWeights(path, value) == [i \in DOMAIN path |-> MatchesToken(value[i], path[i])]

\* Of two expressions that match a value, one that is at least as long and in each
\* place at least as specific is never the worse, and is the better unless they weigh
\* the same in every place (path_weight and the key of max_by_path).
SpecificWins ==
    question = "weight" =>
        LET p == input[1]  q == input[2]  v == input[3]
            key(e) == Rank(e, v)
        IN  MatchesPath(p, v) /\ MatchesPath(q, v) /\ Len(p) >= Len(q)
              /\ (\A i \in DOMAIN q : MatchesToken(v[i], p[i]) >= MatchesToken(v[i], q[i]))
            => \/ key(p) > key(q)
               \/ TokenWeights(p, v) = TokenWeights(q, v)

Permuted(category) ==
    {[category EXCEPT !.rules = [i \in DOMAIN @ |-> @[f[i]]]] : f \in Permutations(DOMAIN category.rules)}

\* Which rules apply to a value of a body does not depend on the order in which the map of
\* rules is walked, unless two matching expressions tie; and they count as cascaded
\* exactly if they were given for a part above the value (max_by_path).
SelectionIgnoresOrder ==
    question = "selection" /\ input.category.name = "body" =>
        LET found == Matching(input.category, input.value)
            key(i) == Rank(found[i].path, input.value)
            selected(c) == SelectBestMatcher(c, input.value)
        IN  (\A i, j \in DOMAIN found : key(i) = key(j) => i = j) =>
              \A c \in Permuted(input.category) :
                /\ selected(c) = selected(input.category)
                /\ found # <<>> =>
                     \E i \in DOMAIN found : /\ found[i].list.rules = selected(c).rules
                                             /\ selected(c).cascaded <=> Len(found[i].path) < Len(input.value)

\* The engine asks whether a rule is defined before it selects one: a list is
\* selected exactly if the answer is yes (matcher_is_defined, select_best_matcher).
DefinedMeansSelected ==
    question = "selection" =>
        (MatcherIsDefined(input.category, input.value) <=> SelectBestMatcher(input.category, input.value).rules # <<>>)

\* A rule with its maps as sets of entries, since they have no order.
RECURSIVE Unordered(_)
Unordered(rule) ==
    [rule EXCEPT !.rules = [i \in DOMAIN @ |-> Unordered(@[i])],
                 !.variants = [i \in DOMAIN @ |-> [@[i] EXCEPT !.rules.rules = ToSet(@)]]]

SameRule(read, rule) == read # None /\ Unordered(read) = Unordered(rule)

\* Every rule is read from a pact file as it was written, nested ones too (to_json, from_json).
RulesReadBack ==
    question = "rule" => SameRule(RuleFromJson(RuleToJson(input)), input)

\* The name and the values of a rule make the same rule again, as a plugin does with them,
\* except for the two kinds whose name or values create does not know (name, values, create).
NamesMakeTheRule ==
    question = "rule" /\ input.kind \notin {"min-max-type", "array-contains"} =>
        LET nv == NameAndValues(input) IN SameRule(Create(nv[1], nv[2]), input)

\* The path under which a list is found again after it was read from a V3 pact.
V3Path(name, path) ==
    CASE name = "path" -> <<>>
      [] name \in {"header", "query"} -> <<Root, Field(FirstFieldOrExpr(path))>>
      [] OTHER -> path
Survives(name, entry, category) ==
    CASE name = "path" -> PathList(category) # {} /\ entry = category.rules[CHOOSE i \in PathList(category) : TRUE]
      [] OTHER -> TRUE

\* A pact of version 3 or 4 gives back every list with its rules in order and its logic, under the
\* path it had; a list for the request path is kept only under the empty path or the root.
V3ReadsBack ==
    question = "rules" =>
        \A n \in DOMAIN input : \A i \in DOMAIN input[n].rules :
            LET e == input[n].rules[i]
                read == FromV3Json(ToV3Json(input))
            IN  e.list.rules # <<>> /\ Survives(n, e, input[n]) =>
                  /\ n \in DOMAIN read
                  /\ \E j \in DOMAIN read[n].rules :
                        read[n].rules[j] = [path |-> V3Path(n, e.path), list |-> e.list]

V2Names == {"path", "body", "header", "query"}
V2Path(name, path) == IF name = "path" THEN <<>> ELSE path
InV2(name, path) ==
    CASE name = "path" -> TRUE
      [] name = "body" -> path # <<>>
      [] OTHER -> Len(path) = 2

\* A pact of version 2 gives back the first rule of each list for the parts of
\* a request or response that version 2 knows.
V2ReadsBack ==
    question = "rules" =>
        \A n \in DOMAIN input \intersect V2Names : \A i \in DOMAIN input[n].rules :
            LET e == input[n].rules[i]
                read == FromV2Json(ToV2Json(input))
            IN  /\ \A j \in DOMAIN input[n].rules : InV2(n, input[n].rules[j].path) /\ input[n].rules[j].list.rules # <<>>
                /\ n = "path" => Len(input[n].rules) = 1
                => /\ read # None
                   /\ \E j \in DOMAIN read[n].rules :
                        read[n].rules[j] = [path |-> V2Path(n, e.path), list |-> ListOf(e.list.rules[1])]

=============================================================================
