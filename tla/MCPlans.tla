------------------------------- MODULE MCPlans -------------------------------
(***************************************************************************)
(* The second matching engine beside the first one, for the requests that  *)
(* the questions of MCInteractions and MCJson are about.                   *)
(***************************************************************************)
EXTENDS MCInteractions

Plan == INSTANCE RequestPlan

XmlBytes(document) == [Reading EXCEPT !.text = <<"d">>, !.xml = document]
WithBodyOf(type, bytes) ==
    Request([headers |-> Single(<<"content-type">>, <<ContentTypeText(type)>>), body |-> BodyOf("present", bytes, <<>>)], <<>>,
            IF input.rules.rules = <<>> THEN NoRules ELSE [c \in {"body"} |-> input.rules])

Documented == question \in {"plain", "below", "xml"}
Planned == IsHttp \/ (Documented /\ input.config = "NoUnexpectedKeys")
PlannedRequest(which) ==
    CASE IsHttp -> RequestOf(which)
      [] question = "xml" -> WithBodyOf(Xml, XmlBytes(input[which]))
      [] OTHER -> WithBodyOf(Json, JsonBytes(<<"j">>, input[which]))

EnginesAgree ==
    LET expected == PlannedRequest("expected")
        actual == PlannedRequest("actual")
    IN  AllMatched(MatchRequest(expected, actual)) <=> Plan!PlanAccepts(Plan!MatchRequestByPlan(expected, actual))

-----------------------------------------------------------------------------
\* The lists of values of all headers and parameters of a request.
ValueLists(request) ==
    (IF request.headers = <<>> THEN {} ELSE {h.values : h \in ToSet(request.headers[1])})
    \union (IF request.query = <<>> THEN {} ELSE {request.query[1][k] : k \in DOMAIN request.query[1]})
IsTrimmed(request) == \A values \in ValueLists(request) : values # <<>> /\ \A v \in ToSet(values) : Trim(v) = v
IsSingle(request) == \A values \in ValueLists(request) : Len(values) = 1

IsScalar(value) == value.type \notin {"array", "object"}
HasNestedItems(value) == \E i \in DOMAIN value.items : ~ IsScalar(value.items[i])
IsTidy(element) == \A n \in ToSet(element.nodes) : Trim(n.text) = n.text /\ n.name.space = <<>>

\* Every element that has no attributes is met by one that has none.
RECURSIVE NoNewAttributes(_, _)
NoNewAttributes(e, a) ==
    /\ DOMAIN e.attributes = {} => DOMAIN a.attributes = {}
    /\ \A i \in DOMAIN Children(e) \intersect DOMAIN Children(a) : NoNewAttributes(Children(e)[i], Children(a)[i])

\* Without rules the two engines accept the same requests. Left out is what the second one does
\* otherwise: it accepts one value as often as it is given or not at all, body types that differ, more attributes
\* of an element that is to have none, and anything for arrays and objects in arrays; it refuses values with
\* space around them and elements with a namespace; and it compares forms as texts.
EnginesAgreeOnExamples ==
    Planned /\ (IF Documented THEN input.rules.rules = <<>> ELSE input.rules = NoRules) =>
        LET expected == PlannedRequest("expected")
            actual == PlannedRequest("actual")
        IN  /\ IsTrimmed(expected) /\ IsTrimmed(actual)
            /\ IsSingle(expected) => IsSingle(actual)
            /\ question = "body" => IsPresent(expected.body) /\ Readable(expected) /\ Readable(actual) /\ ContentTypeOf(expected) = ContentTypeOf(actual)
            /\ question = "plain" => ~ HasNestedItems(input.expected) /\ \A k \in DOMAIN input.expected.members : ~ HasNestedItems(input.expected.members[k])
            /\ question = "xml" => IsTidy(input.expected) /\ IsTidy(input.actual) /\ NoNewAttributes(input.expected, input.actual)
            => EnginesAgree

\* A rule for a header or a parameter of one value, or for a member of an object, frees in the second engine
\* what it frees in the first, if it is the only rule and, for a header, has the header's own case.
EnginesAgreeOnRules ==
    /\ question \in {"headers", "query"} =>
         LET expected == PlannedRequest("expected")
             actual == PlannedRequest("actual")
             entries == UNION {ToSet(input.rules[c].rules) : c \in DOMAIN input.rules}
             own(e) == Len(e.path) = 2 /\ (question = "headers" => e.path[2].name = expected.headers[1][1].key)
         IN  /\ IsTrimmed(expected) /\ IsTrimmed(actual) /\ IsSingle(expected) /\ IsSingle(actual)
             /\ \A e \in entries : own(e) /\ e.list.rules[1].kind \in {"type", "regex", "equality"} /\ e.list.logic = "AND"
             => EnginesAgree
    /\ question = "below" /\ Planned /\ DOMAIN input.expected.members = {A} /\ IsScalar(input.expected.members[A])
         /\ (\A e \in ToSet(input.rules.rules) : MinMaxType(1, 1) \notin ToSet(e.list.rules)) => EnginesAgree

\* The plan of a document accepts that document, with rules for its elements and attributes, if the
\* elements of one name are alike.
PlanAcceptsItsDocument ==
    question = "xml" /\ Planned /\ input.expected = input.actual /\ IsTidy(input.expected)
      /\ Cardinality(ToSet(Children(input.expected))) <= 1
      /\ (input.expected.nodes = <<>> => input.rules # OnXml(<<Field(K)>>, WithMin("min-type", 1))) =>
        LET request == PlannedRequest("expected") IN Plan!PlanAccepts(Plan!MatchRequestByPlan(request, request))

\* The result that is read from the executed plan tells a mismatch exactly if the root of the plan is not
\* true. Left out are bodies of another type: the plan is false for them, and the mismatch that the code
\* means to report is lost (From<ExecutionPlan> for RequestMatchResult).
PlanTellsItsVerdict ==
    Planned /\ question # "xml" /\ (IF Documented THEN input.rules.rules = <<>> ELSE input.rules = NoRules) =>
        LET expected == PlannedRequest("expected")
            actual == PlannedRequest("actual")
            executed == Plan!ExecuteRequestPlan(Plan!BuildRequestPlan(expected), actual)
        IN  /\ Plan!CanBePlanned(expected)
            /\ IsPresent(expected.body) => ContentTypeText(Plan!ExpectedType(expected)) = ContentTypeText(ContentTypeOf(actual))
            => (Plan!Truthy(executed.result) <=> Plan!PlanAccepts(Plan!ReadPlan(executed)))
=============================================================================
