---------------------------- MODULE MCPactMerge ----------------------------
(* Instances of PactMerge for TLC. *)
EXTENDS PactMerge, FiniteSets

CONSTANT none

Described(d, s, t, w) ==
  [desc |-> d, states |-> s, type |-> t, key |-> none, what |-> w]

\* One interaction per pact, each with a provider state: what a consumer test
\* that writes its pact when its mock server stops produces.
SingleWithState ==
  {<<Described(d, s, t, w)>> : d \in 1..2, s \in {<<1>>, <<2>>, <<1, 2>>},
                                 t \in {1, 2}, w \in {1, 2}}

SingleHttp ==
  {<<Described(d, s, 1, w)>> : d \in 1..3, s \in {<<1>>, <<2>>}, w \in {1, 2}}

\* No states at all: the description is all there is.
SingleStateless ==
  {<<Described(d, <<>>, 1, w)>> : d \in 1..5, w \in {1, 2}}

\* Pacts of several interactions that are in order.
Ordered ==
  LET one(d, s) == Described(d, s, 1, 1)
      cells == {<<1, <<1>>>>, <<1, <<2>>>>, <<2, <<1>>>>, <<3, <<1>>>>}
      before(x, y) == Then(Cmp(x[1], y[1]), CmpSeq(x[2], y[2])) = "less"
  IN {[k \in DOMAIN q |-> one(q[k][1], q[k][2])] :
        q \in {SetToSortSeq(S, before) : S \in (SUBSET cells) \ {{}}}}

InOrder == [v4      |-> SingleWithState \cup Ordered,
            http    |-> SingleHttp \cup Ordered,
            message |-> SingleStateless]

\* What the theorems about the merge suppose.
ASSUME \A f \in DOMAIN InOrder : Mergeable(f, InOrder[f])

\* Two interactions of one test, in the order the test defined them.
InDefinitionOrder ==
  [v4 |-> {<<Described(2, <<1>>, 1, 1), Described(1, <<1>>, 1, 1)>>,
           <<Described(3, <<1>>, 1, 1)>>}]
=============================================================================
