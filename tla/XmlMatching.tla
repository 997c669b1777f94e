----------------------------- MODULE XmlMatching -----------------------------
(***************************************************************************)
(* How an actual XML document is compared with the expected one under the  *)
(* matching rules of a body (pact_matching's xml.rs).                      *)
(* A node is an element or a text; the nodes of an element are in document *)
(* order. A name is its namespace, empty for none, and its local part.     *)
(***************************************************************************)
EXTENDS RuleMatching

Name(space, local) == [space |-> space, local |-> local]
Element(name, attributes, nodes) == [kind |-> "element", name |-> name, attributes |-> attributes, nodes |-> nodes, text |-> <<>>]
TextNode(t) == [Element(Name(<<>>, <<>>), <<>>, <<>>) EXCEPT !.kind = "text", !.text = t]

\* name(): what paths and groups call an element.
FullName(name) == IF name.space = <<>> THEN name.local ELSE name.space \o <<":">> \o name.local

\* Matches<&Element> for &Element: sizes count the texts and the comments among the children.
ElementMatches(expected, actual, rule, cascaded) ==
    CASE rule.kind = "regex" -> actual.name.local \in rule.text
      [] rule.kind \in {"type", "equality"} -> expected.name = actual.name
      [] rule.kind \in LengthTypes -> cascaded \/ SizeFits(rule, Len(actual.nodes))
      [] rule.kind = "not-empty" -> actual.nodes # <<>>
      [] OTHER -> FALSE

MatchElements(list, path, expected, actual) ==
    Verdict(list, path, {r \in ToSet(list.rules) : ~ ElementMatches(expected, actual, r, list.cascaded)})

Children(element) == SelectSeq(element.nodes, LAMBDA n : n.kind = "element")
ChildNames(element) == {FullName(c.name) : c \in ToSet(Children(element))}
ChildrenNamed(element, name) == SelectSeq(Children(element), LAMBDA c : FullName(c.name) = name)

ElementText(element) == FlattenSeq([i \in DOMAIN element.nodes |-> Trim(element.nodes[i].text)])

\* compare_text
CompareElementText(path, expected, actual, context) ==
    CompareTexts(Join(path, <<"#text">>), ElementText(expected), ElementText(actual), context)

\* compare_attributes: of more attributes than expected only the number is reported.
CompareAttributes(path, expected, actual, context) ==
    LET wanted == Cardinality(DOMAIN expected)
        given == Cardinality(DOMAIN actual)
        at(k) == Join(path, <<"@">> \o k)
    IN  IF wanted = 0 /\ given # 0 /\ context.config = "NoUnexpectedKeys" THEN {Mismatch(path, "attributes")}
        ELSE Unless(IF context.config = "AllowUnexpectedKeys" THEN wanted <= given ELSE wanted = given, Mismatch(path, "attributes"))
             \union UNION {IF k \in DOMAIN actual THEN CompareTexts(at(k), expected[k], actual[k], context)
                           ELSE {Mismatch(at(k), "missing")} : k \in DOMAIN expected}

RECURSIVE CompareElement(_, _, _, _)

\* The children of one name: all like the first expected one if a type rule is defined, else pair by pair.
CompareGroup(path, expected, actual, context) ==
    IF TypeMatcherDefined(context, path) THEN UNION {CompareElement(path, expected[1], a, context) : a \in ToSet(actual)}
    ELSE UNION {IF i \notin DOMAIN expected THEN Unless(context.config = "AllowUnexpectedKeys", Mismatch(path, "unexpected child"))
                ELSE IF i \notin DOMAIN actual THEN {Mismatch(path, "missing child")}
                ELSE CompareElement(path, expected[i], actual[i], context) : i \in DOMAIN expected \union DOMAIN actual}

CompareChildren(path, expected, actual, context) ==
    LET unexpected == {n \in ChildNames(actual) \ ChildNames(expected) :
                          context.config = "NoUnexpectedKeys" \/ TypeMatcherDefined(context, Join(path, n))}
        shared == ChildNames(actual) \intersect ChildNames(expected)
    IN  IF Children(expected) = <<>> /\ Children(actual) # <<>> /\ context.config = "NoUnexpectedKeys"
        THEN {Mismatch(path, "children")}
        ELSE {Mismatch(path, "unexpected child") : n \in unexpected}
             \union {Mismatch(path, "missing child") : n \in ChildNames(expected) \ ChildNames(actual)}
             \union UNION {CompareGroup(Join(path, n), ChildrenNamed(expected, n), ChildrenNamed(actual, n), context) : n \in shared}

\* An element that does not match itself is not looked into.
CompareElement(path, expected, actual, context) ==
    LET own == IF IsDefined(context, path) THEN MatchElements(Select(context, path), path, expected, actual)
               ELSE Unless(ElementMatches(expected, actual, Rule("equality"), FALSE), Mismatch(path, "equality"))
    IN  IF own # {} THEN own
        ELSE CompareAttributes(path, expected.attributes, actual.attributes, context)
             \union CompareChildren(path, expected, actual, context)
             \union CompareElementText(path, expected, actual, context)

\* match_xml of two bodies that are present; a body that cannot be parsed is "garbage".
MatchXml(expected, actual, context) ==
    LET garbage == {v \in {expected, actual} : v.kind = "garbage"}
    IN  IF garbage # {} THEN {Mismatch(<<Root>>, "unparsable")}
        ELSE CompareElement(Join(<<Root>>, FullName(expected.name)), expected, actual, context)
=============================================================================
