---------------------------- MODULE MCIntegration ----------------------------
(***************************************************************************)
(* Integration JSON, beside the questions of MCJson: a document of depth   *)
(* two and an actual value for it, or a document for a form.               *)
(***************************************************************************)
EXTENDS IntegrationJson, BodyMatching, MCJson

TypeOf(doc) == Matcher(<<Rule("type")>>, doc)
AnInteger == Matcher(<<Rule("integer")>>, Value("integer", <<"1">>))

DocLeaves == {Text(<<"s">>), Value("integer", <<"1">>)}
Leafs == DocLeaves \union {TypeOf(d) : d \in DocLeaves} \union {AnInteger}
Members(docs) == {Object(m) : m \in UNION {[ks -> docs] : ks \in SUBSET {<<"a">>, <<"0">>}}}
Alike(docs) == {List(<<>>)} \union {List(<<d>>) : d \in docs} \union {List(<<d, d>>) : d \in docs}
Flat == Leafs \union Members(Leafs) \union {List(s) : s \in SeqOf(Leafs, 2)}
Free == {TypeOf(d) : d \in Members(Leafs) \union Alike(Leafs)}
EveryMember == {Matcher(<<Rule("values")>>, Object(<<"a">> :> d)) : d \in Leafs}
Documents2 == Flat \union Free \union EveryMember \union {Object(<<"a">> :> d) : d \in Free} \union {List(<<d>>) : d \in Free}
                \union {ContainsAllOf(s) : s \in SeqOf(Leafs \union {Object(<<"a">> :> d) : d \in Leafs}, 2)}
                \union {TypeOf(Object(<<"a">> :> d)) : d \in Alike(Leafs)} \union {TypeOf(d) : d \in Alike(Members(Leafs))}

FormMembers == Leafs \union {Null, TypeOf(Null), Unreadable, List(<<TypeOf(Text(<<"s">>)), Null>>), TypeOf(List(<<Text(<<"s">>)>>))}
Forms == {Object(m) : m \in UNION {[ks -> FormMembers] : ks \in SUBSET {<<"a">>, <<"b">>}}} \union Leafs

Half == Value("decimal", <<"1", ".", "5">>)
Mixed == {List(<<Value("integer", <<"1">>), Half>>), Object(<<"a">> :> Half), Object(<<"a">> :> List(<<Half>>))}

AskDocument ==
    /\ Pick("document")
    /\ \E d \in Documents2, a \in JsonValues \union Mixed, c \in JsonConfigs : input' = [doc |-> d, actual |-> a, config |-> c]
AskForm == Ask("form", Forms)

IntegrationKinds == {"document", "form"}
IntegrationNext == AskDocument \/ AskForm

-----------------------------------------------------------------------------
RECURSIVE Accepts(_, _, _, _)
Accepts(doc, actual, exact, free) ==
    CASE doc.type = "matcher" /\ doc.rules = <<Rule("type")>> -> Accepts(doc.value, actual, exact, TRUE)
      [] doc.type = "matcher" /\ doc.rules = <<Rule("integer")>> -> actual.type = "integer"
      [] doc.type = "matcher" /\ doc.rules = <<Rule("values")>> ->
            /\ actual.type = "object"
            /\ \A k \in DOMAIN actual.members : Accepts(doc.value.members[<<"a">>], actual.members[k], exact, FALSE)
      [] doc.type = "variants" ->
            /\ actual.type = "array"
            /\ \A d \in ToSet(doc.docs) : \E i \in DOMAIN actual.items : Accepts(d, actual.items[i], exact, FALSE)
      [] doc.type = "object" ->
            /\ actual.type = "object"
            /\ DOMAIN doc.members \subseteq DOMAIN actual.members
            /\ exact => DOMAIN doc.members = DOMAIN actual.members
            /\ \A k \in DOMAIN doc.members : Accepts(doc.members[k], actual.members[k], exact, free)
      [] doc.type = "array" ->
            /\ actual.type = "array"
            /\ ~ free => Len(actual.items) = Len(doc.items)
            /\ doc.items = <<>> \/ \A i \in DOMAIN actual.items : Accepts(doc.items[IF i > Len(doc.items) THEN 1 ELSE i], actual.items[i], exact, free)
      [] OTHER -> IF free THEN SameType(doc, actual) ELSE doc = actual

\* The example and the rules that are made of a document accept what the document says: a value in
\* a matcher stands for its like, wherever it is, and every other value for itself (process_object).
DocumentsMeanWhatTheySay ==
    question = "document" =>
        LET made == ProcessJson(input.doc, EmptyCategory("body"))
        IN  Compare(made.example, input.actual, made.rules, input.config) = {}
              <=> Accepts(input.doc, input.actual, input.config = "NoUnexpectedKeys", FALSE)

FormBytes(pairs) == [form |-> <<pairs>>]

\* A form that is sent as it was described matches, and only what the form has kept has rules
\* (handle_form_urlencoded_invalid_value).
FormsMatchThemselves ==
    question = "form" =>
        LET made == ProcessForm(input, EmptyCategory("body"))
        IN  /\ MatchForm(FormBytes(made.pairs), FormBytes(made.pairs), Context(made.rules, "NoUnexpectedKeys")) = {}
            /\ \A e \in ToSet(made.rules.rules) : FirstField(e.path) # <<>> =>
                  \E p \in ToSet(made.pairs) : p.name = FirstField(e.path)[1]
=============================================================================
