----------------------------- MODULE RequestPlan -----------------------------
(***************************************************************************)
(* The plan that the second matching engine makes of an expected request   *)
(* and its rules, and how the plan that was walked becomes a result:       *)
(* pact_matching's engine/mod.rs and engine/bodies.rs, and the part of     *)
(* lib.rs that reads the executed plan. The label of a container is a      *)
(* path. A list of keys is in some order.                                  *)
(***************************************************************************)
EXTENDS PlanEngine

Node(type, arg, children) == [Leaf(type, arg) EXCEPT !.children = children]
Constant(kind, of) == Leaf("value", Of(kind, of))
Action(name, children) == Node("action", name, children)
Container(path, children) == Node("container", path, children)
Label(text) == <<Field(text)>>
From(path) == Leaf("resolve", path)
Within(path) == Leaf("current", path)
Annotation == Leaf("annotation", <<>>)

Exists(node) == Action("check:exists", <<node>>)
Told(more) == Action("join", <<Constant("string", <<"message">>)>> \o more)
ToldKeys == Told(<<Action("join-with", <<Constant("string", <<",", " ">>), Node("splat", <<>>, <<Action("apply", <<>>)>>)>>)>>)
Keys(names) == Constant("texts", SetToSeq(names))
Several(values) == LET result == OneOrMore(values) IN Constant(result.of.kind, result.of.of)

MatchNode(rule, expected, actual) ==
    LET named == NameAndValues(rule)
    IN  Node("match", named[1], <<expected, actual, Constant("parameters", named[2])>>)
Equals(expected, actual) == MatchNode(Rule("equality"), expected, actual)

\* build_matching_rule_node: for a single item the rules are without their sizes.
RuleNode(expected, actual, list, forCollection) ==
    LET of(r) == MatchNode(IF forCollection THEN r ELSE ForSingleItem(r), expected, actual)
        nodes == [i \in DOMAIN list.rules |-> of(list.rules[i])]
    IN  IF Len(nodes) = 1 THEN nodes[1] ELSE Action(IF list.logic = "AND" THEN "and" ELSE "or", nodes)

\* A value is matched by the rules for its path, else it has to be equal.
ValueNode(path, expected, actual, context, forCollection) ==
    IF IsDefined(context, path) THEN RuleNode(expected, actual, Select(context, path), forCollection) ELSE Equals(expected, actual)

-----------------------------------------------------------------------------
(* Method, path, query and headers *)
Part2(name) == <<Root, Field(<<name>>)>>

SetupMethod(expected) ==
    Container(Label(<<"method">>),
              <<Annotation, Equals(Constant("string", UpperCase(expected.method)), Action("upper-case", <<From(Part2("method"))>>))>>)

SetupPath(expected, context) ==
    Container(Label(<<"path">>), <<Annotation, ValueNode(Part2("path"), Constant("string", expected.path), From(Part2("path")), context, FALSE)>>)

\* The keys and their values; a rule is looked up by the key alone.
SetupQuery(expected, context) ==
    LET at == Part2("query")
        keys == SetToSeq(DOMAIN expected.query[1])
        of(key) ==
            LET actual == From(Join(at, key))
            IN  Container(Label(key),
                          <<Annotation,
                            Action("if", <<Exists(actual), ValueNode(Join(<<Root>>, key), Several(expected.query[1][key]), actual, context, TRUE)>>)>>)
        entries(action) == Action(action, <<Keys(ToSet(keys)), From(at), ToldKeys>>)
    IN  Container(Label(<<"query">>),
                  IF expected.query = <<>> \/ DOMAIN expected.query[1] = {} THEN <<Action("expect:empty", <<From(at), Told(<<From(at)>>)>>)>>
                  ELSE [i \in DOMAIN keys |-> of(keys[i])] \o <<entries("expect:entries"), entries("expect:only-entries")>>)

\* build_parameterised_header_plan
ParameterisedHeader(path, value) ==
    LET parts == StripWhitespace(value, ";")
        wanted == Parameters(OtherParts(parts))
        names == SetToSeq(DOMAIN wanted)
        actual(n) == Within(<<Root, Field(<<"parameters">>)>> \o <<Part(n)>>)
        of(n) == Container(Label(n),
                    <<Action("if", <<Exists(actual(n)),
                                     Equals(Constant("string", LowerCase(wanted[n])), Action("lower-case", <<actual(n)>>)),
                                     Action("error", <<Constant("string", <<"message">>)>>)>>)>>)
    IN  Action("tee",
               <<Action("header:parse", <<From(path)>>),
                 Equals(Constant("string", FirstPart(parts)), Action("to-string", <<Within(<<Root, Field(<<"value">>)>>)>>))>>
               \o [i \in DOMAIN names |-> of(names[i])])

\* Of several values of a header with parameters each becomes a further child of one if.
SetupHeaders(expected, context) ==
    LET at == Part2("headers")
        headers == IF expected.headers = <<>> THEN <<>> ELSE expected.headers[1]
        value(path, h) ==
            IF IsDefined(context, Join(<<Root>>, h.key)) \/ LowerCase(h.key) \notin ParameterisedHeaders
            THEN <<ValueNode(Join(<<Root>>, h.key), Several(h.values), From(path), context, TRUE)>>
            ELSE IF Len(h.values) = 1 THEN <<ParameterisedHeader(path, h.values[1])>>
            ELSE [i \in DOMAIN h.values |->
                    Container(<<Index(IndexText(i - 1))>>, <<ParameterisedHeader(Append(path, Index(IndexText(i - 1))), h.values[i])>>)]
        of(h) == LET path == Join(at, h.key)
                 IN  Container(Label(h.key), <<Annotation, Action("if", <<Exists(From(path))>> \o value(path, h))>>)
    IN  Container(Label(<<"headers">>),
                  IF headers = <<>> THEN <<>>
                  ELSE [i \in DOMAIN headers |-> of(headers[i])]
                       \o <<Action("expect:entries", <<Action("lower-case", <<Keys({h.key : h \in ToSet(headers)})>>), From(at), ToldKeys>>)>>)

-----------------------------------------------------------------------------
(* JSON bodies *)
JsonNode(value) == Constant("json", value)
IsNested(value) == value.type \in {"array", "object"}

\* An annotation of an item comes before its rules, as if it were what to do.
ScalarItem(value, path, context) ==
    Action("if", <<Exists(Within(path))>> \o (IF IsDefined(context, path) THEN <<Annotation>> ELSE <<>>)
                 \o <<ValueNode(path, JsonNode(value), Within(path), context, FALSE)>>)

RECURSIVE ProcessBodyNode(_, _, _)

\* The items of an array that has rules are like its first one; of the other arrays
\* those items are never added that are arrays or objects themselves.
ProcessArray(value, path, context) ==
    LET items == value.items
        at(i) == Append(path, Index(IndexText(i - 1)))
        every == Append(path, StarIndex)
        scalars == SetToSortSeq({i \in DOMAIN items : ~ IsNested(items[i])}, <)
    IN  CASE IsDefined(context, path) ->
                <<Annotation, RuleNode(JsonNode(value), Within(path), Select(context, path), TRUE)>>
                \o IF items = <<>> THEN <<>>
                   ELSE <<Action("for-each", <<Within(path),
                            Container(every, IF IsNested(items[1]) THEN ProcessBodyNode(items[1], every, context)
                                             ELSE <<ScalarItem(items[1], every, context)>>)>>)>>
          [] ~ IsDefined(context, path) /\ items = <<>> ->
                <<Action("json:expect:empty", <<Constant("string", <<"array">>), Within(path)>>)>>
          [] OTHER ->
                <<Action("json:match:length", <<Constant("string", <<"array">>), Constant("number", Len(items)), Within(path)>>)>>
                \o [n \in DOMAIN scalars |->
                        Container(at(scalars[n]), <<ScalarItem(items[scalars[n]], at(scalars[n]), context)>>)]

\* Rules for the keys or the values of an object replace the check of its keys; its members are always compared.
ProcessObject(value, path, context) ==
    LET list == Select(context, path)
        type == Constant("string", <<"object">>)
        keys == SetToSeq(DOMAIN value.members)
        of(k) == Container(Append(path, Field(k)), ProcessBodyNode(value.members[k], Append(path, Field(k)), context))
    IN  (CASE \E r \in ToSet(list.rules) : r.kind \in KeysFreed ->
                <<Annotation, RuleNode(JsonNode(value), Within(path), list, TRUE)>>
           [] (\A r \in ToSet(list.rules) : r.kind \notin KeysFreed) /\ keys = <<>> ->
                <<Action("json:expect:empty", <<type, Within(path)>>)>>
           [] OTHER ->
                <<Action("json:expect:entries", <<type, Keys(ToSet(keys)), Within(path)>>),
                  Action("expect:only-entries", <<Keys(ToSet(keys)), Within(path)>>)>>)
        \o [i \in DOMAIN keys |-> of(keys[i])]

ProcessBodyNode(value, path, context) ==
    CASE value.type = "array" -> ProcessArray(value, path, context)
      [] value.type = "object" -> ProcessObject(value, path, context)
      [] OTHER -> (IF IsDefined(context, path) THEN <<Annotation>> ELSE <<>>)
                  \o <<ValueNode(path, JsonNode(value), Within(path), context, FALSE)>>

Parsing(action, nodes) == Action("tee", <<Action(action, <<From(Part2("body"))>>), Container(<<Root>>, nodes)>>)
BuildJson(value, context) == Parsing("json:parse", ProcessBodyNode(value, <<Root>>, context))

-----------------------------------------------------------------------------
(* XML bodies *)
DropIndices(path) == SelectSeq(path, LAMBDA t : t.kind \notin {"index", "star index"})
Only(list, kinds) == [list EXCEPT !.rules = SelectSeq(@, LAMBDA r : r.kind \in kinds)]
Without(list, kinds) == [list EXCEPT !.rules = SelectSeq(@, LAMBDA r : r.kind \notin kinds)]

\* The rules for the path, with and without its indices.
RulesWithoutIndices(path, context, kinds) ==
    LET both == AndRules(Without(Select(context, path), kinds), Without(Select(context, DropIndices(path)), kinds))
        first(i) == \A j \in 1..(i - 1) : both.rules[j] # both.rules[i]
    IN  [both EXCEPT !.rules = [n \in 1..Cardinality({i \in DOMAIN @ : first(i)}) |->
                                    @[SetToSortSeq({i \in DOMAIN @ : first(i)}, <)[n]]]]

ProcessText(path, element, context) ==
    LET at == Join(path, <<"#text">>)
        list == RulesWithoutIndices(at, context, TypeMatchers)
        actual == Action("to-string", <<Within(at)>>)
        expected == Constant("string", OwnText(element))
    IN  CASE list.rules # <<>> -> <<Annotation, RuleNode(expected, actual, list, FALSE)>>
          [] list.rules = <<>> /\ OwnText(element) = <<>> -> <<Action("expect:empty", <<actual>>)>>
          [] OTHER -> <<Equals(expected, actual)>>

ProcessAttributes(path, element, context) ==
    LET keys == SetToSeq(DOMAIN element.attributes)
        all == Action("xml:attributes", <<Within(path)>>)
        of(k) ==
            LET at == Append(path, Field(<<"@">> \o k))
                list == RulesWithoutIndices(at, context, {})
                expected == Constant("string", element.attributes[k])
                actual == Action("xml:value", <<Within(at)>>)
            IN  Container(at, <<Annotation,
                    Action("if", <<Exists(Within(at)),
                                   IF list.rules # <<>> THEN RuleNode(expected, actual, list, FALSE) ELSE Equals(expected, actual)>>)>>)
    IN  [i \in DOMAIN keys |-> of(keys[i])]
        \o <<Action("expect:entries", <<Keys(ToSet(keys)), all, ToldKeys>>), Action("expect:only-entries", <<Keys(ToSet(keys)), all>>)>>

\* ends_with, of texts: the path is for every element of a name, or of one that ends like it.
IsForEvery(path, name) == IsSuffix(name \o <<"[", "*", "]">>, BuildExpr(path))

RECURSIVE ProcessElement(_, _, _, _)

\* Children are grouped by their local names, under which no one finds an element that has a namespace.
ProcessChildren(path, element, context) ==
    LET names == SetToSeq(LocalNames(element))
        counted(p, of) ==
            <<Action("expect:count", <<Constant("number", Len(of)), Within(p), Told(<<Action("length", <<Within(p)>>)>>)>>)>>
            \o [i \in DOMAIN of |-> ProcessElement(of[i], <<Index(IndexText(i - 1))>>, path, context)]
        likeTheFirst(p, of) ==
            LET sizes == Only(Select(context, p), LengthTypes)
            IN  (IF sizes.rules = <<>> THEN <<>> ELSE <<Annotation, RuleNode(Constant("element", of[1]), Within(path), sizes, TRUE)>>)
                \o <<Action("for-each", <<Within(p), ProcessElement(of[1], <<Index(<<"0">>)>>, Append(p, StarIndex), context)>>)>>
        named(n) ==
            LET p == Join(path, n)
                of == WithLocalName(element, n)
            IN  IF TypeMatcherDefined(context, p) THEN likeTheFirst(p, of) ELSE counted(p, of)
    IN  <<IF names = <<>> THEN Action("expect:empty", <<Within(path)>>) ELSE Action("expect:only-entries", <<Keys(ToSet(names)), Within(path)>>)>>
        \o FlattenSeq([i \in DOMAIN names |-> named(names[i])])

ProcessElement(element, index, path, context) ==
    LET name == FullName(element.name)
        at == IF IsForEvery(path, name) THEN path ELSE Append(path, Field(name)) \o index
        attributes == IF DOMAIN element.attributes = {} THEN <<>>
                      ELSE <<Container(Label(<<"attributes">>), ProcessAttributes(at, element, context))>>
    IN  Action("if", <<Exists(Within(at)),
                       Container(at, attributes \o <<Container(Label(<<"#text">>), ProcessText(at, element, context))>>
                                     \o ProcessChildren(at, element, context)),
                       Action("error", <<Constant("string", <<"message">>)>>)>>)

BuildXml(element, context) == Parsing("xml:parse", <<ProcessElement(element, <<>>, <<Root>>, context)>>)

-----------------------------------------------------------------------------
(* The whole plan *)
BuildText(bytes) == Equals(Constant("string", bytes.text), Action("convert:UTF8", <<From(Part2("body"))>>))

ExpectedType(expected) == IF ContentTypeOf(expected) = Unknown THEN Plain ELSE ContentTypeOf(expected)
BodyPlan(type, bytes, context) ==
    CASE IsJson(type) -> BuildJson(bytes.json, context)
      [] ~ IsJson(type) /\ IsXml(type) -> BuildXml(bytes.xml, context)
      [] OTHER -> BuildText(bytes)

\* get_body_plan_builder, and the check of the type before it, whose message is an error.
SetupBody(expected, context) ==
    LET type == ExpectedType(expected)
        typed == MatchNode(Rule("equality"), Constant("string", ContentTypeText(type)), From(Part2("content-type")))
        complaint == Action("error", <<Constant("string", <<"Body type error">>), Action("apply", <<>>)>>)
    IN  Container(Label(<<"body">>),
                  CASE IsPresent(expected.body) ->
                          <<Action("if", <<[typed EXCEPT !.children = Append(@, complaint)], BodyPlan(type, expected.body.bytes, context)>>)>>
                    [] expected.body.kind = "missing" -> <<>>
                    [] OTHER -> <<Action("expect:empty", <<From(Part2("body"))>>)>>)

\* No plan can be made of a body that cannot be parsed.
CanBePlanned(expected) ==
    LET type == ExpectedType(expected)
    IN  IsPresent(expected.body) =>
          /\ IsJson(type) => expected.body.bytes.json.type # "garbage"
          /\ IsXml(type) /\ ~ IsJson(type) => expected.body.bytes.xml.kind # "garbage"

\* build_request_plan; a part of which nothing is asked is left out.
BuildRequestPlan(expected) ==
    LET for(category) == ContextFor(expected.rules, category, "NoUnexpectedKeys")
        parts == <<SetupMethod(expected), SetupPath(expected, for("path")), SetupQuery(expected, for("query")),
                   SetupHeaders(expected, for("header")), SetupBody(expected, for("body"))>>
    IN  Container(Label(<<"request">>), SelectSeq(parts, LAMBDA p : p.children # <<>>))

ExecuteRequestPlan(plan, actual) == Walk(plan, actual, Failed)

-----------------------------------------------------------------------------
(* What is read from the executed plan *)
IsContainer(node) == node.type = "container"
OwnError(node) == IF IsFailure(node.result) THEN <<node.result.of>> ELSE <<>>

\* child_errors, down to the containers below or further.
RECURSIVE ChildErrors(_, _)
ChildErrors(node, further) ==
    FlattenSeq([i \in DOMAIN node.children |->
        LET c == node.children[i] IN IF IsContainer(c) /\ ~ further THEN <<>> ELSE OwnError(c) \o ChildErrors(c, further)])
FirstError(node) == OwnError(node) \o ChildErrors(node, FALSE)
AllErrors(node) == OwnError(node) \o ChildErrors(node, TRUE)

\* query_mismatches and header_mismatches: what is said of no key is said of an empty one.
MismatchingKeys(node) ==
    LET keys == SelectSeq(node.children, LAMBDA c : IsContainer(c) /\ AllErrors(c) # <<>>)
    IN  {keys[i].arg : i \in DOMAIN keys} \union (IF ChildErrors(node, FALSE) = <<>> THEN {} ELSE {<<>>})

\* traverse_containers: the containers below in which something is an error.
RECURSIVE ErrorsBelow(_)
ErrorsBelow(node) ==
    LET own(c) == IF IsContainer(c) /\ ChildErrors(c, FALSE) # <<>> THEN {c.arg} ELSE {}
    IN  UNION {own(node.children[i]) \union ErrorsBelow(node.children[i]) : i \in DOMAIN node.children}

\* body_mismatches: an error without a text is not one.
MismatchingPaths(node) ==
    IF Truthy(node.result) THEN {}
    ELSE ErrorsBelow(node) \union (IF FirstError(node) = <<>> \/ FirstError(node)[1] = <<>> THEN {} ELSE {<<>>})

\* The paths of the mismatches, for each part of the request.
ReadPlan(executed) ==
    LET part(name) == LET found == SelectSeq(executed.children, LAMBDA c : c.arg = Label(<<name>>))
                      IN  IF found = <<>> THEN Container(<<>>, <<>>) ELSE found[1]
        ifAny(errors) == IF errors = <<>> THEN {} ELSE {<<>>}
    IN  [method |-> ifAny(FirstError(part("method"))), path |-> ifAny(AllErrors(part("path"))),
         query |-> MismatchingKeys(part("query")), headers |-> MismatchingKeys(part("headers")), body |-> MismatchingPaths(part("body"))]

\* match_request, if MATCHING_ENGINE is v2.
MatchRequestByPlan(expected, actual) == ReadPlan(ExecuteRequestPlan(BuildRequestPlan(expected), actual))
PlanAccepts(result) == UNION {result[p] : p \in DOMAIN result} = {}
=============================================================================
