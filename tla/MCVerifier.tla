----------------------------- MODULE MCVerifier -----------------------------
(* Instances of Verifier: up to two pacts of up to two interactions with   *)
(* none, one or two provider states, two tags.                             *)
EXTENDS Verifier

Interaction(states, pending, selected) ==
  [states |-> states, pending |-> pending, selected |-> selected]

PactOf(source, pending, plugin, interactions) ==
  [load |-> "ok", source |-> source, nested |-> FALSE, wanted |-> TRUE,
   pending |-> pending, plugin |-> plugin, interactions |-> interactions]

Plain    == Interaction(<<>>, FALSE, TRUE)
InState  == Interaction(<<"a">>, FALSE, TRUE)
InStates == Interaction(<<"a", "b">>, FALSE, TRUE)
Pending  == Interaction(<<"b">>, TRUE, TRUE)
Filtered == Interaction(<<"b">>, FALSE, FALSE)

Missing(how) == [PactOf("broker", FALSE, FALSE, <<>>) EXCEPT !.load = how]

SomePacts ==
  { PactOf("broker", FALSE, FALSE, <<InStates, Plain>>),
    PactOf("broker", TRUE, FALSE, <<InState>>),
    PactOf("url", FALSE, TRUE, <<Filtered, Pending>>),
    PactOf("broker", FALSE, FALSE, <<Filtered>>),
    PactOf("file", FALSE, FALSE, <<Pending, InState>>),
    PactOf("file", FALSE, FALSE, <<>>),
    [PactOf("file", FALSE, FALSE, <<InState>>) EXCEPT !.wanted = FALSE],
    [PactOf("file", FALSE, FALSE, <<InState>>) EXCEPT !.nested = TRUE],
    Missing("notFound"), Missing("failed") }

MCFetchable == { <<a>> : a \in SomePacts } \union { <<a, b>> : a, b \in SomePacts }

MCConfigs ==
  { c \in [teardown : BOOLEAN, publish : BOOLEAN, version : BOOLEAN,
           noPactsIsError : BOOLEAN, client : BOOLEAN] :
      /\ ~c.client => c.publish /\ c.noPactsIsError
      /\ ~c.version => c.publish /\ c.client /\ c.noPactsIsError /\ ~c.teardown
      /\ ~c.noPactsIsError => c.publish /\ ~c.teardown }

OnePact == { <<PactOf("broker", pending, FALSE, <<InStates, Plain>>)>> : pending \in BOOLEAN }

MCTags == <<"main", "test">>

MCStateNames == {"", "a", "b"}
=============================================================================
