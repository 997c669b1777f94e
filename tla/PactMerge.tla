----------------------------- MODULE PactMerge -----------------------------
(***************************************************************************)
(* The merge of the interactions of two pacts: V4Pact::merge,              *)
(* RequestResponsePact::merge and MessagePact::merge of pact_models, over  *)
(* itertools' merge_join_by, as write_pact applies it to a pact file time  *)
(* after time.                                                             *)
(*                                                                         *)
(* Descriptions, state names, types and keys are strings in the code and   *)
(* numbers here: only their order and equality matter.                     *)
(***************************************************************************)
EXTENDS Naturals, Sequences, SequencesExt, FiniteSets

CONSTANTS
  Inputs,     \* what is written: for each format, a set of pacts, which are
              \* sequences of interactions
  NoKey,      \* key: None
  MaxWrites,  \* bound on the writes in one behaviour
  NoPact,     \* no pact file yet
  Broken      \* a file that cannot be read, which this module never makes

\* An interaction; "what" stands for all that the merge does not look at.
Interaction ==
  [desc : Nat, states : Seq(Nat), type : Nat, key : {NoKey} \cup Nat, what : Nat]

ASSUME MergeAssumption ==
  /\ DOMAIN Inputs \subseteq {"v4", "http", "message"}
  /\ \A f \in DOMAIN Inputs : \A p \in Inputs[f] : p \in Seq(Interaction)
  /\ MaxWrites \in Nat

VARIABLES
  format,    \* which of the three merges: the kind of the pact
  pact,      \* the interactions in the pact file, in order
  writes,    \* writes so far
  written,   \* history: identities whose write returned Ok
  last       \* history: [pact, ok] of the last write

vars == <<format, pact, writes, written, last>>

-----------------------------------------------------------------------------
(* Ord::cmp on strings, lists of strings, and two comparisons in a row.    *)

Cmp(a, b) == IF a < b THEN "less" ELSE IF a > b THEN "greater" ELSE "equal"

CmpSeq(s, t) ==
  LET differ == {i \in 1..Len(s) : i <= Len(t) /\ s[i] # t[i]} IN
  IF differ = {} THEN Cmp(Len(s), Len(t))
  ELSE LET i == CHOOSE i \in differ : \A j \in differ : i <= j IN Cmp(s[i], t[i])

Then(c, d) == IF c = "equal" THEN d ELSE c

\* Mutant of CompareV4: the type is left out.
MCompareV4(a, b) == Then(Cmp(a.desc, b.desc), CmpSeq(a.states, b.states))

\* The closure of merge_join_by.  The states are compared only if the left
\* interaction has some.
CompareV4(a, b) ==
  IF a.key # NoKey /\ b.key # NoKey
  THEN Cmp(a.key, b.key)
  ELSE LET states == IF a.states = <<>> THEN "equal" ELSE CmpSeq(a.states, b.states)
       IN Then(Cmp(a.desc, b.desc), Then(states, Cmp(a.type, b.type)))

CompareV3(a, b) ==
  Then(Cmp(a.desc, b.desc),
       IF a.states = <<>> THEN "equal" ELSE CmpSeq(a.states, b.states))

Compare(f, a, b) == IF f = "v4" THEN CompareV4(a, b) ELSE CompareV3(a, b)

\* Mutant of Both: the existing interaction stays.
MBoth(a, b) == b

\* EitherOrBoth::Both: a V4 pact keeps its own interaction.
Both(a, b) == IF format = "v4" THEN a ELSE b

\* MergeJoinBy::next: the first i interactions of self and the first j of other
\* are merged, and the next one is the smaller of the two that follow.
Advance(self, other, walk) ==
  LET i == walk.i + 1
      j == walk.j + 1
      order == IF walk.j = Len(other) THEN "less"
               ELSE IF walk.i = Len(self) THEN "greater"
               ELSE Compare(format, self[i], other[j])
      merged == CASE order = "less"    -> self[i]
                  [] order = "greater" -> other[j]
                  [] OTHER             -> Both(self[i], other[j])
  IN IF walk.i = Len(self) /\ walk.j = Len(other) THEN walk
     ELSE [i   |-> IF order = "greater" THEN walk.i ELSE i,
           j   |-> IF order = "less" THEN walk.j ELSE j,
           out |-> Append(walk.out, merged)]

\* merge_join_by walks the two lists once, as if both were in order.
MergeJoin(self, other) ==
  LET steps == Len(self) + Len(other)
      walk[n \in 0 .. steps] ==
        IF n = 0 THEN [i |-> 0, j |-> 0, out |-> <<>>]
        ELSE Advance(self, other, walk[n - 1])
  IN  walk[steps].out

\* RequestResponseInteraction::conflicts_with, for all pairs.  A body, header
\* or matching rule that differs is no conflict; "what" stands for the rest.
Conflict(self, other) ==
  /\ format = "http"
  /\ \E i \in DOMAIN self, j \in DOMAIN other :
       /\ self[i].desc = other[j].desc
       /\ self[i].states = other[j].states
       /\ self[i].what # other[j].what

\* Mutant of Place: equals are turned round.
MPlace(s, i) ==
  Cardinality({j \in DOMAIN s : \/ s[j].desc < s[i].desc
                                \/ s[j].desc = s[i].desc /\ j >= i})

\* Where sorted_by, which is stable, puts the i-th interaction.
Place(s, i) ==
  Cardinality({j \in DOMAIN s : \/ s[j].desc < s[i].desc
                                \/ s[j].desc = s[i].desc /\ j <= i})

\* V4Pact::to_json sorts the interactions by description.
Serialised(s) ==
  IF format = "v4"
  THEN [k \in DOMAIN s |-> s[CHOOSE i \in DOMAIN s : Place(s, i) = k]]
  ELSE s

-----------------------------------------------------------------------------
\* What tells interactions apart.
IdentityOf(f, i) ==
  IF f = "v4" THEN <<i.desc, i.states, i.type>> ELSE <<i.desc, i.states>>

Identity(i) == IdentityOf(format, i)

Identities(s) == {Identity(s[i]) : i \in DOMAIN s}

\* The interactions of a list.
Items(s) == {s[i] : i \in DOMAIN s}

\* What the merge takes for granted of the pacts of a format: each is in the
\* order of the comparison, and where two interactions have one description,
\* either both have states or none has.  Interactions with keys are merged by
\* key and written by description, so they are left out.
Mergeable(f, pacts) ==
  LET all == UNION {Items(p) : p \in pacts} IN
  /\ \A x \in all : x.key = NoKey
  /\ \A x, y \in all : x.desc = y.desc => (x.states = <<>> <=> y.states = <<>>)
  /\ \A p \in pacts : \A i, j \in DOMAIN p :
       i < j => Compare(f, p[i], p[j]) = "less"

Init ==
  /\ format \in DOMAIN Inputs
  /\ pact = <<>>
  /\ writes = 0
  /\ written = {}
  /\ last = [pact |-> <<>>, ok |-> TRUE]

\* write_pact without overwrite; the first one finds no file.
WritePact(p) ==
  /\ writes < MaxWrites
  /\ writes' = writes + 1
  /\ IF writes > 0 /\ Conflict(p, pact)
       THEN /\ last' = [pact |-> p, ok |-> FALSE]
            /\ UNCHANGED <<pact, written>>
       ELSE /\ last' = [pact |-> p, ok |-> TRUE]
            /\ pact' = Serialised(IF writes > 0 THEN MergeJoin(p, pact) ELSE p)
            /\ written' = written \cup Identities(p)
  /\ UNCHANGED format

Next == \E p \in Inputs[format] : WritePact(p)

Spec == Init /\ [][Next]_vars

-----------------------------------------------------------------------------
TypeOK ==
  /\ format \in DOMAIN Inputs
  /\ writes \in 0..MaxWrites
  /\ last.ok \in BOOLEAN
  /\ Identities(pact) \subseteq UNION {Identities(p) : p \in Inputs[format]}

\* No interaction that was written is missing from the file, whatever was
\* merged since: "the two pacts will be merged together".
NothingLost == written \subseteq Identities(pact)

\* The same interaction is not in the file twice (the tests
\* pact_merge_removes_duplicates), however often it was written.
NoDuplicates ==
  \A i, j \in DOMAIN pact : i # j => Identity(pact[i]) # Identity(pact[j])

\* Writing a pact again changes nothing in the file: a test suite can be
\* run any number of times.
RewriteIsIdempotent ==
  [][last'.ok /\ last.ok /\ writes > 0 /\ last'.pact = last.pact
       => pact' = pact]_vars

\* A V4 write leaves the interactions of the pact that is being written as it
\* has them; the V3 formats keep what was in the file.
WhoWins ==
  [][\A i \in DOMAIN last'.pact :
       LET new == last'.pact[i] IN
       last'.ok =>
         \E j \in DOMAIN pact' :
           /\ Identity(pact'[j]) = Identity(new)
           /\ pact'[j] = new \/ (format # "v4" /\ Contains(pact, pact'[j]))]_vars

\* A merge of pacts that are in order is in order: by description, and by
\* states where the descriptions are the same ("returns a new Pact with the
\* interactions sorted").
MergeSorts ==
  (writes > 1 /\ last.ok) => \A i \in 1..(Len(pact) - 1) :
    Then(Cmp(pact[i].desc, pact[i + 1].desc),
         CmpSeq(pact[i].states, pact[i + 1].states)) # "greater"

\* After any sequence of writes the file is a set of interactions that has all
\* that was written, once each, in order.
FileIsSound == TypeOK /\ NothingLost /\ NoDuplicates /\ MergeSorts

-----------------------------------------------------------------------------
(* What a file is to the threads that write it, as PactFile has it: each   *)
(* write is one merge of two contents.                                     *)

\* A list of interactions as a function from what tells them apart.
ContentOf(f, s) ==
  [k \in {IdentityOf(f, x) : x \in Items(s)} |->
     CHOOSE x \in Items(s) : IdentityOf(f, x) = k]

\* All the interactions that are written in a format.
Universe(f) == UNION {Items(p) : p \in Inputs[f]}

Store(f) == INSTANCE PactStore WITH
  Keys        <- {IdentityOf(f, x) : x \in Universe(f)},
  Bodies      <- Universe(f),
  ConflictingBodies <-
    {pair \in Universe(f) \X Universe(f) : f = "http" /\ pair[1].what # pair[2].what},
  V4          <- f = "v4",
  Writers     <- Inputs[f],
  PactOf      <- [p \in Inputs[f] |-> ContentOf(f, p)],
  Overwriters <- {},
  InitialPact <- NoPact,
  store       <- IF writes = 0 THEN NoPact ELSE ContentOf(f, pact)
=============================================================================
