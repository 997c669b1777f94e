----------------------------- MODULE PactStore -----------------------------
(***************************************************************************)
(* What a pact file promises to the threads that write it: a store that    *)
(* changes by one whole write_pact at a time.                              *)
(***************************************************************************)
EXTENDS PactContent

CONSTANTS Writers, PactOf, Overwriters, InitialPact, NoPact, Broken

VARIABLE store

\* The first write of a file that is not there.
First(w) ==
  /\ store = NoPact
  /\ store' = PactOf[w]

\* A write into an existing pact, unless the two conflict.
Add(w) ==
  /\ w \notin Overwriters
  /\ store \in Pact
  /\ ~MergeConflict(PactOf[w], store)
  /\ store' = Merge(PactOf[w], store)

\* overwrite = true takes no notice of what was there, broken or not.
Replace(w) ==
  /\ w \in Overwriters
  /\ store' = PactOf[w]

\* A writer died or gave up half way: no pact can be read until an overwrite.
Break == store' = Broken

StoreNext == Break \/ \E w \in Writers : First(w) \/ Add(w) \/ Replace(w)

StoreSpec == store = InitialPact /\ [][StoreNext]_store
=============================================================================
