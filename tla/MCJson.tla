------------------------------- MODULE MCJson -------------------------------
(***************************************************************************)
(* JSON matching over small values, beside the questions of MCRules: a     *)
(* behaviour picks the expected value, the actual one, the rules and the   *)
(* configuration, and stops.                                               *)
(***************************************************************************)
EXTENDS JsonMatching, MCRules

JsonScalars == {Text(<<"s">>), Text(<<"t">>), Value("integer", <<"1">>)}
JsonLists == {List(s) : s \in SeqOf(JsonScalars, 2)}
Objects == {Object(m) : m \in UNION {[ks -> JsonScalars] : ks \in SUBSET {<<"a">>, <<"b">>}}}
Inner == {List(<<>>), List(<<Text(<<"s">>), Text(<<"s">>)>>), Object(<<"a">> :> Text(<<"s">>)), Text(<<"s">>)}
Deep == {List(<<x>>) : x \in Inner} \union {List(<<x, y>>) : x, y \in Inner} \union {Object(<<"a">> :> x) : x \in Inner}
JsonValues == JsonScalars \union {Null, Value("decimal", <<"1", ".", "5">>)} \union JsonLists \union Objects \union Deep

JsonConfigs == {"AllowUnexpectedKeys", "NoUnexpectedKeys"}

Body(entries) == [name |-> "body", rules |-> entries]
JsonAt(path, rules) == [path |-> <<Root>> \o path, list |-> [EmptyList("AND") EXCEPT !.rules = rules]]
OnRoot(rules) == Body(<<JsonAt(<<>>, rules)>>)

FieldA == Field(<<"a">>)
Simple == {Rule("type"), WithMin("min-type", 2), WithMax("max-type", 1), MinMaxType(1, 1), Rule("equality"), Rule("integer"),
           Rule("not-empty"), Rule("null"), WithText("regex", {<<"s">>})}
AnyName == WithRules("each-key", <<WithText("regex", {<<"a">>, <<"b">>})>>)
OnlyA == WithRules("each-key", <<WithText("regex", {<<"a">>})>>)
EachType == WithRules("each-value", <<Rule("type")>>)
ContainsAll == ArrayContains(<<>>)
ContainsType == ArrayContains(<<[index |-> 0, rules |-> OnRoot(<<Rule("type")>>)]>>)
Special == {Rule("values"), AnyName, OnlyA, EachType, WithRules("each-value", <<Reference>>), ContainsAll, ContainsType}

Below1 == {<<FieldA>>, <<Star>>, <<StarIndex>>}
BelowRules == {Body(<<JsonAt(p, <<r>>)>>) : p \in Below1, r \in Simple \union {OnlyA, EachType}}
                 \union {Body(<<JsonAt(<<>>, <<Rule("type")>>), JsonAt(p, <<r>>)>>) : p \in Below1, r \in Simple}

AskJson(k, rules) ==
    /\ Pick(k)
    /\ \E e, a \in JsonValues, r \in rules, c \in JsonConfigs :
          input' = [expected |-> e, actual |-> a, rules |-> r, config |-> c]

AskPlain == AskJson("plain", {Body(<<>>)})
AskRoot == AskJson("root", {OnRoot(<<r>>) : r \in Simple \union Special})
AskBelow == AskJson("below", BelowRules)
AskPair == AskJson("pair", {OnRoot(<<r, Rule("type")>>) : r \in Simple})

JsonKinds == {"plain", "root", "below", "pair"}

JsonNext == AskPlain \/ AskRoot \/ AskBelow \/ AskPair

Compare(expected, actual, rules, config) == MatchJson(expected, actual, Context(rules, config))
JsonMismatches == Compare(input.expected, input.actual, input.rules, input.config)
Asked == question \in JsonKinds

-----------------------------------------------------------------------------
RECURSIVE Contained(_, _, _)
Contained(e, a, exact) ==
    CASE e.type = "object" /\ a.type = "object" ->
            /\ DOMAIN e.members \subseteq DOMAIN a.members
            /\ exact => DOMAIN e.members = DOMAIN a.members
            /\ \A k \in DOMAIN e.members : Contained(e.members[k], a.members[k], exact)
      [] e.type = "array" /\ a.type = "array" ->
            Len(e.items) = Len(a.items) /\ \A i \in DOMAIN e.items : Contained(e.items[i], a.items[i], exact)
      [] OTHER -> e = a

\* Without rules an actual body matches exactly if it has everything that is expected,
\* in lists nothing else, and in objects nothing else if unexpected keys are refused.
PlainMeansContained ==
    question = "plain" =>
        (JsonMismatches = {} <=> Contained(input.expected, input.actual, input.config = "NoUnexpectedKeys"))

\* A body that matches when unexpected keys are refused matches when they are allowed,
\* whatever the rules (match_keys, compare_maps).
StrictImpliesLoose ==
    Asked /\ input.config = "NoUnexpectedKeys" /\ JsonMismatches = {} =>
        Compare(input.expected, input.actual, input.rules, "AllowUnexpectedKeys") = {}

RECURSIVE Leads(_, _)
Leads(path, value) ==
    \/ path = <<>>
    \/ /\ value.type = "object"
       /\ \E k \in DOMAIN value.members : Part(k) = path[1] /\ Leads(Tail(path), value.members[k])
    \/ /\ value.type = "array"
       /\ \E i \in DOMAIN value.items : Index(<<ToString(i - 1)>>) = path[1] /\ Leads(Tail(path), value.items[i])

\* The path of a mismatch leads to a value of the actual body: a report never points
\* outside the document, even when a rule is tried against copies of the first expected item.
MismatchesPointAtValues ==
    Asked => \A m \in JsonMismatches : m.path[1] = Root /\ Leads(Tail(m.path), input.actual)

RECURSIVE SameShape(_, _, _)
SameShape(e, a, exact) ==
    CASE e.type = "object" /\ a.type = "object" ->
            /\ DOMAIN e.members \subseteq DOMAIN a.members
            /\ exact => DOMAIN e.members = DOMAIN a.members
            /\ \A k \in DOMAIN e.members : SameShape(e.members[k], a.members[k], exact)
      [] e.type = "array" /\ a.type = "array" ->
            e.items = <<>> \/ \A i \in DOMAIN a.items : SameShape(e.items[IF i > Len(e.items) THEN 1 ELSE i], a.items[i], exact)
      [] OTHER -> SameType(e, a)

\* A type rule at the root reaches all the way down: the body matches exactly if it has the shape of
\* the expected one, where further list items are like the first and items may be missing.
TypeReachesDown ==
    Asked /\ input.rules = OnRoot(<<Rule("type")>>) =>
        (JsonMismatches = {} <=> SameShape(input.expected, input.actual, input.config = "NoUnexpectedKeys"))

Size(value) == IF value.type = "array" THEN Len(value.items) ELSE Cardinality(DOMAIN value.members)
Containers == {"array", "object"}

\* A bound on the size counts at the value it was given for and nowhere below, where it is
\* a plain type rule (cascaded). An expected list that is empty is not looked at.
BoundsDoNotCascade ==
    \A r \in {q \in Simple : q.kind \in LengthTypes} :
        Asked /\ input.rules = OnRoot(<<r>>) /\ (input.expected.type = "array" => input.expected.items # <<>>) =>
            (JsonMismatches = {} <=>
               /\ Compare(input.expected, input.actual, OnRoot(<<ForSingleItem(r)>>), input.config) = {}
               /\ input.actual.type \in Containers => SizeFits(r, Size(input.actual)))

\* Rules that are combined with AND match exactly if each matches alone.
AndMeansBoth ==
    question = "pair" =>
        (JsonMismatches = {} <=>
           \A r \in ToSet(input.rules.rules[1].list.rules) :
              Compare(input.expected, input.actual, OnRoot(<<r>>), input.config) = {})

RECURSIVE Wider(_)
Wider(value) ==
    CASE value.type = "object" ->
            Object([k \in DOMAIN value.members \union {<<"B">>} |-> IF k \in DOMAIN value.members THEN Wider(value.members[k]) ELSE Null])
      [] value.type = "array" -> List([i \in DOMAIN value.items |-> Wider(value.items[i])])
      [] OTHER -> value

CountsKeys(rule) == rule.kind \in LengthTypes \union {"equality", "values", "each-key", "each-value", "array-contains"}

\* If unexpected keys are allowed, one more key in every object of the actual body never adds a
\* mismatch, unless a rule is about sizes, equality, keys or all the values.
ExtraKeysAreHarmless ==
    /\ Asked
    /\ input.config = "AllowUnexpectedKeys"
    /\ \A i \in DOMAIN input.rules.rules : \A r \in ToSet(input.rules.rules[i].list.rules) : ~ CountsKeys(r)
    => Compare(input.expected, Wider(input.actual), input.rules, input.config) \subseteq JsonMismatches

\* An array-contains rule does not depend on the order of the actual items, nor on how often one occurs.
ContainsIgnoresOrder ==
    Asked /\ input.rules \in {OnRoot(<<ContainsAll>>), OnRoot(<<ContainsType>>)} /\ input.actual.type = "array" =>
        /\ Compare(input.expected, List(Reverse(input.actual.items)), input.rules, input.config) = JsonMismatches
        /\ Compare(input.expected, List(input.actual.items \o input.actual.items), input.rules, input.config) = JsonMismatches

Renamed(value) == Object([k \in {IF j = <<"b">> THEN <<"0">> ELSE <<"1">> : j \in DOMAIN value.members} |->
                            value.members[IF k = <<"0">> THEN <<"b">> ELSE <<"a">>]])

\* Under a rule for all the values of an object, the names of its keys do not matter to
\* whether it matches, if one example is expected.
ValuesIgnoreKeys ==
    /\ Asked
    /\ input.rules \in {OnRoot(<<Rule("values")>>), OnRoot(<<EachType>>)}
    /\ input.expected.type = "object" /\ Cardinality(DOMAIN input.expected.members) = 1
    /\ input.actual.type = "object"
    => (JsonMismatches = {} <=> Compare(input.expected, Renamed(input.actual), input.rules, input.config) = {})

Plausible == {OnRoot(<<r>>) : r \in {Rule("type"), Rule("equality"), Rule("values"), AnyName, EachType, ContainsAll, ContainsType}}

\* An example matches itself under the rules that consumers derive from examples.
ExamplesMatchThemselves ==
    Asked /\ input.expected = input.actual /\ (question = "plain" \/ input.rules \in Plausible) =>
        JsonMismatches = {} \/ (input.rules = OnRoot(<<ContainsType>>) /\ input.expected.items = <<>>)
=============================================================================
