----------------------------- MODULE MCPactFile -----------------------------
(* Instances of PactFile for TLC. *)
EXTENDS PactFile, TLC

CONSTANTS w1, w2, w3, p1, p2, k1, k2, k3, b1, b2

\* One test process whose threads all write the same pact file.
OneProcess == w1 :> p1 @@ w2 :> p1 @@ w3 :> p1

\* Two test processes started side by side.
TwoProcesses == w1 :> p1 @@ w2 :> p2

\* The pacts overlap in k1, where w3 disagrees with the others.
ThreePacts == w1 :> (k1 :> b1 @@ k2 :> b1)
           @@ w2 :> (k1 :> b1 @@ k3 :> b1)
           @@ w3 :> (k1 :> b2)

TwoPacts == w1 :> (k1 :> b1) @@ w2 :> (k2 :> b1)

ExistingPact == k2 :> b2

Disagree == {<<b1, b2>>, <<b2, b1>>}
=============================================================================
