---------------------------- MODULE PactContent ----------------------------
(***************************************************************************)
(* A pact as the file protocol sees it: a partial function from the keys   *)
(* that identify interactions (description and provider states) to their   *)
(* bodies, and what merge makes of two of them.  PactMerge has the         *)
(* sequences of interactions that this abstracts.                          *)
(***************************************************************************)

CONSTANTS
  Keys, Bodies,       \* what identifies an interaction, and what it says
  ConflictingBodies,  \* pairs that conflicts_with reports
  V4                  \* TRUE for V4Pact::merge, FALSE for the V3 merge

ASSUME ContentAssumption ==
  /\ ConflictingBodies \in SUBSET (Bodies \X Bodies)
  /\ V4 \in BOOLEAN

\* All the pacts over Keys and Bodies.
Pact == UNION {[D -> Bodies] : D \in SUBSET Keys}

\* Mutant of Merge: what only the existing pact has is forgotten.
MMerge(self, other) ==
  [k \in DOMAIN self |-> IF V4 \/ k \notin DOMAIN other THEN self[k] ELSE other[k]]

\* pact.merge(existing): a V4 pact keeps its own interaction when both have
\* it, a V3 pact keeps the existing one.
Merge(self, other) ==
  [k \in (DOMAIN self) \cup (DOMAIN other) |->
     IF k \in DOMAIN self /\ (V4 \/ k \notin DOMAIN other)
     THEN self[k] ELSE other[k]]

\* RequestResponsePact::merge refuses to merge conflicting interactions.
MergeConflict(self, other) ==
  /\ ~V4
  /\ \E k \in (DOMAIN self) \cap (DOMAIN other) :
       <<self[k], other[k]>> \in ConflictingBodies

=============================================================================
