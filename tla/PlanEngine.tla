----------------------------- MODULE PlanEngine -----------------------------
(***************************************************************************)
(* The second matching engine (pact_matching's engine): a request is       *)
(* matched by a plan, a tree of nodes, that is walked against the actual   *)
(* request and in the end carries a result in every node it came by.       *)
(*                                                                         *)
(* A node is [type, arg, children, result]. A value is [kind, of], a       *)
(* result [is, of]; a node that was not walked has the result Ok, as the   *)
(* engine takes a missing result for one. Of an error only whether it      *)
(* has a text matters. The pipelines, the stack's push and pop, and the    *)
(* checks for configurations that match_request never sets are left out:   *)
(* no plan has them. The value stack is its top, which is all that is      *)
(* looked at; what a failed match leaves on it is never looked at.         *)
(***************************************************************************)
EXTENDS InteractionMatching

Of(kind, of) == [is |-> "value", of |-> [kind |-> kind, of |-> of]]
Ok == [is |-> "ok"]
Failure(text) == [is |-> "error", of |-> text]
Failed == Failure(<<"message">>)
NoValue == Of("null", <<>>)
Verdict2(holds) == Of("bool", holds)
ExpectedThat(holds) == IF holds THEN Verdict2(TRUE) ELSE Failed

IsValue(result) == result.is = "value"
IsFailure(result) == result.is = "error"
IsOf(result, kind) == IsValue(result) /\ result.of.kind = kind

\* NodeResult::is_truthy; documents are never true.
Truthy(result) ==
    CASE result.is = "ok" -> TRUE
      [] result.is = "error" -> FALSE
      [] OTHER ->
            LET of == result.of.of
            IN  CASE result.of.kind = "bool" -> of
                  [] result.of.kind \in {"string", "texts", "list"} -> of # <<>>
                  [] result.of.kind = "map" -> DOMAIN of # {}
                  [] result.of.kind = "bytes" -> of.size # 0
                  [] result.of.kind = "number" -> of # 0
                  [] OTHER -> FALSE

\* and, or: a null is no operand.
Both(r, s) == IF IsOf(r, "null") THEN s ELSE Verdict2(Truthy(r) /\ Truthy(s))
OneOf(r, s) == IF IsOf(r, "null") THEN s ELSE Verdict2(Truthy(r) \/ Truthy(s))
AndThen(r, s) ==
    CASE IsFailure(r) \/ s.is = "ok" -> r
      [] ~ IsFailure(r) /\ s.is # "ok" /\ (r.is = "ok" \/ IsFailure(s)) -> s
      [] OTHER -> Both(r, s)

\* as_string, of which what is no text has some form.
Form == <<"form">>
AsString(result) ==
    CASE IsOf(result, "string") -> result.of.of
      [] ~ IsValue(result) \/ IsOf(result, "null") -> <<>>
      [] OTHER -> Form

-----------------------------------------------------------------------------
(* One rule for one value. *)
PlanText(value) == CASE value.kind = "string" -> value.of [] value.kind = "null" -> <<"NULL">> [] OTHER -> Form

\* Elements are compared by their local names; not-empty wants none of the nodes it should.
ElementSatisfies(rule, expected, actual) ==
    CASE rule.kind = "regex" -> actual.name.local \in rule.text
      [] rule.kind \in {"type", "equality"} -> expected.name.local = actual.name.local
      [] rule.kind \in LengthTypes -> SizeFits(rule, Len(actual.nodes))
      [] rule.kind = "not-empty" -> actual.nodes = <<>>
      [] OTHER -> FALSE

\* Matches for NodeValue; nothing is ever cascaded.
Satisfies(rule, e, a) ==
    CASE e.kind = "string" ->
            \A t \in IF a.kind = "texts" THEN ToSet(a.of) ELSE {PlanText(a)} : TextMatches(e.of, t, rule, FALSE)
      [] e.kind = "texts" -> ListMatches(e.of, IF a.kind = "texts" THEN a.of ELSE <<PlanText(a)>>, rule, FALSE)
      [] e.kind = "json" -> ValueMatches(e.of, IF a.kind = "json" THEN a.of ELSE Null, rule, FALSE)
      [] e.kind = "element" -> a.kind = "element" /\ ElementSatisfies(rule, e.of, a.of)
      [] OTHER -> FALSE

-----------------------------------------------------------------------------
(* Values of the actual request. *)
LastField(path) == Last(Fields(path)).name
ToMap(headers) ==
    LET entries == IF headers = <<>> THEN <<>> ELSE headers[1]
    IN  [k \in {LowerCase(h.key) : h \in ToSet(entries)} |->
            Last(SelectSeq(entries, LAMBDA h : LowerCase(h.key) = k)).values]
OneOrMore(values) == IF Len(values) = 1 THEN Of("string", values[1]) ELSE Of("texts", values)

\* HttpRequestValueResolver; an index of a header that is not there panics.
Resolve(path, request) ==
    LET part == path[2].name[1]
        map == IF part = "headers" THEN ToMap(request.headers) ELSE IF request.query = <<>> THEN NoAttributes ELSE request.query[1]
        key == IF part = "headers" THEN LowerCase(LastField(path)) ELSE LastField(path)
    IN  CASE part = "method" -> Of("string", request.method)
          [] part = "path" -> Of("string", request.path)
          [] part = "body" -> IF IsPresent(request.body) THEN Of("bytes", request.body.bytes) ELSE NoValue
          [] part = "content-type" ->
                IF ContentTypeOf(request) = Unknown THEN NoValue ELSE Of("string", ContentTypeText(ContentTypeOf(request)))
          [] part \in {"query", "headers"} ->
                CASE Len(path) = 2 \/ (Len(path) = 3 /\ Last(path) = Star) -> Of("map", map)
                  [] Len(path) = 3 /\ Last(path) # Star -> IF key \in DOMAIN map THEN OneOrMore(map[key]) ELSE NoValue
                  [] OTHER ->
                        IF part = "query" \/ Last(path).kind # "index" THEN Failed
                        ELSE IF key \in DOMAIN map THEN Of("string", map[key][NumberOf(Last(path).name) + 1]) ELSE NoValue

\* What a path leads to in a JSON value, for keys that a pointer writes as they are.
Pointed(value, path) ==
    LET step(found, token) ==
            CASE found = <<>> \/ token = Root -> found
              [] found # <<>> /\ token.kind = "field" ->
                    IF found[1].type = "object" /\ token.name \in DOMAIN found[1].members THEN <<found[1].members[token.name]>> ELSE <<>>
              [] OTHER ->
                    IF found[1].type = "array" /\ NumberOf(token.name) < Len(found[1].items)
                    THEN <<found[1].items[NumberOf(token.name) + 1]>> ELSE <<>>
    IN  FoldLeft(step, <<value>>, path)

\* The text nodes of an element, as they are.
OwnText(element) == FlattenSeq([i \in DOMAIN element.nodes |-> element.nodes[i].text])
LocalNames(element) == {c.name.local : c \in ToSet(Children(element))}
WithLocalName(element, name) == SelectSeq(Children(element), LAMBDA c : c.name.local = name)

\* query_graph and resolve_matching_node: what a path leads to from the elements of one name.
RECURSIVE Reached(_, _)
Reached(elements, path) ==
    IF path = <<>> THEN [i \in DOMAIN elements |-> Of("element", elements[i])]
    ELSE LET token == path[1]
             below(e) ==
                CASE token.name[1] = "@" ->
                        LET key == Tail(token.name) IN IF key \in DOMAIN e.attributes THEN <<Of("attribute", e.attributes[key])>> ELSE <<>>
                  [] token.name = <<"#text">> -> IF OwnText(e) = <<>> THEN <<>> ELSE <<Of("xml text", OwnText(e))>>
                  [] OTHER -> Reached(WithLocalName(e, token.name), Tail(path))
         IN  IF token.kind = "index"
             THEN LET i == NumberOf(token.name) + 1 IN Reached(IF i \in DOMAIN elements THEN <<elements[i]>> ELSE <<>>, Tail(path))
             ELSE FlattenSeq([i \in DOMAIN elements |-> below(elements[i])])

\* resolve_stack_value
Current(path, top) ==
    CASE IsOf(top, "json") ->
            LET found == Pointed(top.of.of, path) IN IF found = <<>> THEN NoValue ELSE Of("json", found[1])
      [] IsOf(top, "element") ->
            LET document == Element(Name(<<>>, <<>>), NoAttributes, <<top.of.of>>)
                found == Reached(<<document>>, Tail(path))
            IN  CASE path = <<Root>> -> top
                  [] path # <<Root>> /\ found = <<>> -> NoValue
                  [] path # <<Root>> /\ Len(found) = 1 -> found[1]
                  [] OTHER -> Of("list", found)
      [] OTHER -> Failed

-----------------------------------------------------------------------------
(* What the actions make of their arguments. *)
UpperCase(text) ==
    LET upper(c) == IF \E b \in {"A", "B", "Content-Type", "GET"} : LowerCase(<<b>>) = <<c>>
                    THEN CHOOSE b \in {"A", "B", "Content-Type", "GET"} : LowerCase(<<b>>) = <<c>> ELSE c
    IN  [i \in DOMAIN text |-> upper(text[i])]

ChangeCase(action, value) ==
    LET case(text) == IF action = "upper-case" THEN UpperCase(text) ELSE LowerCase(text)
    IN  CASE value.kind = "string" -> Of("string", case(value.of))
          [] value.kind = "texts" -> Of("texts", [i \in DOMAIN value.of |-> case(value.of[i])])
          [] value.kind = "json" -> Of("string", IF value.of.type = "string" THEN case(value.of.text) ELSE Form)
          [] OTHER -> Of(value.kind, value.of)

AsText(value) ==
    CASE value.kind = "texts" -> Of("texts", value.of)
      [] value.kind \in {"string", "xml text"} -> Of("string", value.of)
      [] value.kind = "null" -> Of("string", <<>>)
      [] value.kind = "json" -> Of("string", IF value.of.type = "string" THEN value.of.text ELSE Form)
      [] OTHER -> Of("string", Form)

\* header:parse
ParsedHeader(text) ==
    LET parts == StripWhitespace(text, ";")
        named == Parameters(OtherParts(parts))
    IN  Object((<<"value">> :> Text(FirstPart(parts))) @@ (<<"parameters">> :> Object([n \in DOMAIN named |-> Text(named[n])])))

\* json:parse and xml:parse
Document(action, kind, of) ==
    CASE kind # "bytes" -> NoValue
      [] kind = "bytes" /\ action = "json:parse" -> IF of.json.type = "garbage" THEN Failed ELSE Of("json", of.json)
      [] OTHER -> IF of.xml.kind = "garbage" THEN Failed ELSE Of("element", of.xml)

\* xml:value and xml:attributes of what is an attribute or an element
PartOfXml(action, kind, of) ==
    CASE action = "xml:value" /\ kind = "attribute" -> Of("string", of)
      [] action = "xml:attributes" /\ kind = "element" -> Of("map", [k \in DOMAIN of.attributes |-> <<of.attributes[k]>>])
      [] OTHER -> Failed

LengthOf(kind, of) == CASE kind = "null" -> 0 [] kind = "list" -> Len(of) [] OTHER -> 1

\* The actions of one argument, by its result; most take an error for a null.
Converted(action, result) ==
    LET kind == IF IsValue(result) THEN result.of.kind ELSE "null"
        of == IF IsValue(result) THEN result.of.of ELSE <<>>
    IN  CASE action = "check:exists" -> Verdict2(kind # "null")
          [] action = "header:parse" -> Of("json", ParsedHeader(AsString(result)))
          [] action = "length" -> Of("number", LengthOf(kind, of))
          [] action = "convert:UTF8" -> Of("string", IF kind = "bytes" THEN of.text ELSE of)
          [] action \in {"json:parse", "xml:parse"} -> Document(action, kind, of)
          [] OTHER -> IF IsValue(result) THEN PartOfXml(action, kind, of) ELSE NoValue

\* expect:empty; of an element, whether it has child elements.
IsEmptyValue(value) ==
    CASE value.kind \in {"string", "texts", "list", "xml text", "attribute"} -> value.of = <<>>
      [] value.kind = "map" -> DOMAIN value.of = {}
      [] value.kind = "bytes" -> value.of.size = 0
      [] value.kind = "json" -> ~ NotEmpty(value.of) /\ value.of.type \in {"null", "string", "array", "object"}
      [] value.kind = "element" -> Children(value.of) = <<>>
      [] OTHER -> value.kind = "null"

\* json:expect:empty, json:match:length and json:expect:entries of an array or an object.
JsonExpected(action, type, wanted, result) ==
    ExpectedThat(/\ IsOf(result, "json") /\ result.of.of.type = type
                 /\ CASE action = "json:expect:empty" -> ~ NotEmpty(result.of.of)
                      [] action = "json:match:length" -> Len(result.of.of.items) = wanted
                      [] action = "json:expect:entries" -> ToSet(wanted) \subseteq DOMAIN result.of.of.members)

\* The keys of a value that entries are expected of, if it may have any.
Quoted(item) == IF item.type = "string" THEN <<"\"">> \o item.text \o <<"\"">> ELSE item.text
KeysOf(result) ==
    CASE IsOf(result, "map") -> <<DOMAIN result.of.of>>
      [] IsOf(result, "texts") -> <<ToSet(result.of.of)>>
      [] IsOf(result, "string") -> <<{result.of.of}>>
      [] IsOf(result, "element") -> <<LocalNames(result.of.of)>>
      [] IsOf(result, "json") /\ result.of.of.type = "object" -> <<DOMAIN result.of.of.members>>
      [] IsOf(result, "json") /\ result.of.of.type = "array" -> <<{Quoted(i) : i \in ToSet(result.of.of.items)}>>
      [] OTHER -> <<>>

\* check_diff
Difference(action, expected, actual) == IF action = "expect:entries" THEN expected \ actual ELSE actual \ expected

CountOf(result) == IF IsOf(result, "list") THEN Len(result.of.of) ELSE IF IsOf(result, "element") THEN 1 ELSE -1

Strings(result) ==
    CASE IsOf(result, "string") -> <<result.of.of>>
      [] IsOf(result, "texts") -> result.of.of
      [] IsOf(result, "null") \/ IsOf(result, "list") \/ IsOf(result, "element") -> <<>>
      [] OTHER -> <<Form>>

ItemsOf(result) ==
    CASE IsOf(result, "json") /\ result.of.of.type = "array" -> Len(result.of.of.items)
      [] IsOf(result, "list") \/ IsOf(result, "texts") -> Len(result.of.of)
      [] OTHER -> 1

\* The actions whose arguments are evaluated until one fails.
Combined(action, results) ==
    LET texts == FlattenSeq([i \in DOMAIN results |-> Strings(results[i])])
        apart == FlattenSeq([i \in DOMAIN Tail(texts) |-> IF i = 1 THEN texts[2] ELSE texts[1] \o texts[i + 1]])
    IN  CASE action \in {"upper-case", "lower-case"} -> ChangeCase(action, results[1].of)
          [] action = "to-string" -> AsText(results[1].of)
          [] action = "and" -> FoldLeft(Both, NoValue, results)
          [] action = "or" -> FoldLeft(OneOf, NoValue, results)
          [] action = "join" -> Of("string", FlattenSeq(texts))
          [] action = "join-with" -> Of("string", IF texts = <<>> THEN <<>> ELSE apart)
          [] action = "error" -> Failure(FlattenSeq(texts))

-----------------------------------------------------------------------------
(* ExecutionPlanNode *)
Leaf(type, arg) == [type |-> type, arg |-> arg, children |-> <<>>, result |-> Ok]
With(node, result, children) == [node EXCEPT !.result = result, !.children = children]

\* inject_index, for nodes and the paths in them
InjectedPath(path, i) ==
    LET stars == {n \in DOMAIN path : path[n] = StarIndex}
    IN  IF stars = {} THEN path ELSE [path EXCEPT ![Min(stars)] = Index(IndexText(i))]
RECURSIVE Injected(_, _)
Injected(node, i) ==
    [node EXCEPT !.arg = IF node.type \in {"container", "current"} THEN InjectedPath(@, i) ELSE @,
                 !.children = <<>> \o [n \in DOMAIN @ |-> Injected(@[n], i)]]

RECURSIVE Walk(_, _, _)

WalkAll(nodes, request, top) == <<>> \o [i \in DOMAIN nodes |-> Walk(nodes[i], request, top)]
AllThen(nodes) == FoldLeft(AndThen, Ok, [i \in DOMAIN nodes |-> nodes[i].result])

\* The message of an action that fails is told by a further argument, if it has one: an error in
\* it leaves no message at all.
Complain(node, walked, request, top) ==
    LET more == SubSeq(node.children, Len(walked) + 1, Len(node.children))
        told == Walk(more[1], request, top)
    IN  IF more = <<>> THEN With(node, Failed, walked)
        ELSE With(node, Failure(AsString(told.result)), Append(walked, told))
Content(node, result, walked) ==
    With(node, result, walked \o SubSeq(node.children, Len(walked) + 1, Len(node.children)))

\* execute_match: the rule is made again of its name and values.
Match(node, request, top) ==
    LET walked == WalkAll(SubSeq(node.children, 1, 3), request, top)
        e == walked[1].result
        a == walked[2].result
        of(result) == IF result.is = "ok" THEN Verdict2(TRUE).of ELSE result.of
        rule == Create(node.arg, walked[3].result.of.of)
    IN  CASE IsFailure(e) -> Content(node, e, walked)
          [] ~ IsFailure(e) /\ IsFailure(a) -> Content(node, a, walked)
          [] OTHER ->
                CASE rule = None -> [node EXCEPT !.result = Failed]
                  [] rule # None /\ Satisfies(rule, of(e), of(a)) -> Content(node, Verdict2(TRUE), walked)
                  [] OTHER -> Complain(node, walked, request, Failed)

\* execute_if: what is not exists has the result of the third child, the result of the second is a verdict.
If(node, request, top) ==
    LET first == Walk(node.children[1], request, top)
        second == Walk(node.children[2], request, top)
        third == Walk(node.children[3], request, top)
        others == SubSeq(node.children, 3, Len(node.children))
    IN  CASE Truthy(first.result) -> With(node, Verdict2(Truthy(second.result)), <<first, second>> \o others)
          [] ~ Truthy(first.result) /\ others = <<>> -> With(node, Verdict2(FALSE), <<first, node.children[2]>>)
          [] OTHER -> With(node, third.result, <<first, node.children[2], third>> \o Tail(others))

\* execute_tee and execute_for_each: the rest, under the first result or once for each of its items.
Tee(node, request, top) ==
    LET first == Walk(node.children[1], request, top)
        walked == WalkAll(Tail(node.children), request, first.result)
    IN  IF IsFailure(first.result) THEN Content(node, first.result, <<first>>)
        ELSE With(node, Verdict2(Truthy(AllThen(walked))), <<first>> \o walked)

ForEach(node, request, top) ==
    LET first == Walk(node.children[1], request, top)
        rest == Tail(node.children)
        of(i) == [n \in DOMAIN rest |-> Injected(rest[n], i - 1)]
        walked == WalkAll(FlattenSeq([i \in 1..ItemsOf(first.result) |-> of(i)]), request, top)
    IN  IF IsFailure(first.result) THEN Content(node, first.result, <<first>>)
        ELSE With(node, Verdict2(Truthy(AllThen(walked))), <<first>> \o walked)

\* evaluate_children: the results of a splat are those of what it spreads; the first error ends it.
Evaluate(node, request, top) ==
    LET walked == WalkAll(node.children, request, top)
        results(n) == IF n.type = "splat" THEN [i \in DOMAIN n.children |-> n.children[i].result] ELSE <<n.result>>
        failed == {i \in DOMAIN walked : \E r \in DOMAIN results(walked[i]) : IsFailure(results(walked[i])[r])}
        all == FlattenSeq([i \in DOMAIN walked |-> results(walked[i])])
    IN  IF failed # {} THEN With(node, SelectSeq(results(walked[Min(failed)]), IsFailure)[1], SubSeq(walked, 1, Min(failed)))
        ELSE With(node, Combined(node.arg, SelectSeq(all, IsValue)), walked)

\* expect:empty, expect:entries, expect:only-entries and expect:count
ExpectEmpty(node, request, top) ==
    LET first == Walk(node.children[1], request, top)
    IN  CASE IsFailure(first.result) -> Content(node, first.result, <<first>>)
          [] IsValue(first.result) /\ ~ IsEmptyValue(first.result.of) -> Complain(node, <<first>>, request, top)
          [] OTHER -> Content(node, Verdict2(TRUE), <<first>>)

ExpectEntries(node, request, top) ==
    LET walked == WalkAll(SubSeq(node.children, 1, 2), request, top)
        expected == IF IsOf(walked[1].result, "texts") THEN ToSet(walked[1].result.of.of) ELSE {}
        actual == KeysOf(walked[2].result)
        difference == Difference(node.arg, expected, actual[1])
    IN  CASE actual = <<>> -> Content(node, Failed, walked)
          [] actual # <<>> /\ difference = {} -> Content(node, Ok, walked)
          [] OTHER -> Complain(node, walked, request, Of("texts", SetToSeq(difference)))

ExpectCount(node, request, top) ==
    LET walked == WalkAll(SubSeq(node.children, 1, 2), request, top)
    IN  IF CountOf(walked[2].result) = walked[1].result.of.of THEN Content(node, Ok, walked)
        ELSE Complain(node, walked, request, top)

JsonExpect(node, request, top) ==
    LET walked == WalkAll(node.children, request, top)
        wanted == IF Len(walked) = 3 THEN walked[2].result.of.of ELSE 0
    IN  With(node, JsonExpected(node.arg, walked[1].result.of.of[1], wanted, Last(walked).result), walked)

UnaryActions == {"check:exists", "header:parse", "length", "convert:UTF8", "json:parse", "xml:parse", "xml:value", "xml:attributes"}
\* execute_action
Execute(node, request, top) ==
    CASE node.arg = "if" -> If(node, request, top)
      [] node.arg = "tee" -> Tee(node, request, top)
      [] node.arg = "for-each" -> ForEach(node, request, top)
      [] node.arg = "apply" -> [node EXCEPT !.result = top]
      [] node.arg = "expect:empty" -> ExpectEmpty(node, request, top)
      [] node.arg \in {"expect:entries", "expect:only-entries"} -> ExpectEntries(node, request, top)
      [] node.arg = "expect:count" -> ExpectCount(node, request, top)
      [] node.arg \in {"json:expect:empty", "json:match:length", "json:expect:entries"} -> JsonExpect(node, request, top)
      [] node.arg \in UnaryActions ->
            LET walked == WalkAll(node.children, request, top) IN With(node, Converted(node.arg, walked[1].result), walked)
      [] OTHER -> Evaluate(node, request, top)

\* A splat hands on one node for each text of a list.
Spread(node) ==
    IF IsOf(node.result, "texts") THEN [i \in DOMAIN node.result.of.of |-> [node EXCEPT !.result = Of("string", node.result.of.of[i])]]
    ELSE <<node>>

\* walk_tree
Walk(node, request, top) ==
    CASE node.type = "container" ->
            LET walked == WalkAll(node.children, request, top) IN With(node, Verdict2(Truthy(AllThen(walked))), walked)
      [] node.type = "action" -> Execute(node, request, top)
      [] node.type = "match" -> Match(node, request, top)
      [] node.type = "value" -> [node EXCEPT !.result = node.arg]
      [] node.type = "resolve" -> [node EXCEPT !.result = Resolve(node.arg, request)]
      [] node.type = "current" -> [node EXCEPT !.result = Current(node.arg, top)]
      [] node.type = "splat" ->
            LET walked == WalkAll(node.children, request, top)
            IN  With(node, Ok, FlattenSeq([i \in DOMAIN walked |-> Spread(walked[i])]))
      [] OTHER -> node
=============================================================================
