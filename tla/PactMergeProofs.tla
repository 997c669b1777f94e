-------------------------- MODULE PactMergeProofs --------------------------
(***************************************************************************)
(* That a pact file of any number of interactions keeps all that is        *)
(* written to it, each once and in order, whatever the pacts, as long as   *)
(* they are in order themselves (Mergeable).                               *)
(***************************************************************************)
EXTENDS PactMerge, SublistProofs, FiniteSetTheorems

-----------------------------------------------------------------------------
(* The order of lists of state names.                                      *)

\* s comes before t: they agree on the first k names, and then s ends or has
\* the smaller name.
PartsAt(s, t, k) ==
  /\ k \in Nat /\ k <= Len(s) /\ k < Len(t)
  /\ \A i \in 1 .. k : s[i] = t[i]
  /\ k = Len(s) \/ s[k + 1] < t[k + 1]

StatesBefore(s, t) == \E k \in Nat : PartsAt(s, t, k)

LEMMA LessThanLess ==
  ASSUME NEW a \in Nat, NEW b \in Nat, NEW c \in Nat, a < b, b < c
  PROVE  a < c
OBVIOUS

LEMMA NamesAreNumbers ==
  ASSUME NEW s \in Seq(Nat)
  PROVE  Len(s) \in Nat /\ DOMAIN s = 1 .. Len(s) /\ \A i \in 1 .. Len(s) : s[i] \in Nat
OBVIOUS

LEMMA StatesBeforeIsStrict ==
  ASSUME NEW s \in Seq(Nat), NEW t \in Seq(Nat), StatesBefore(s, t)
  PROVE  s # t /\ ~StatesBefore(t, s)
<1>1. PICK k \in Nat : PartsAt(s, t, k)
  BY DEF StatesBefore
<1>2. /\ k <= Len(s) /\ k < Len(t) /\ Len(s) \in Nat /\ Len(t) \in Nat
      /\ \A i \in 1 .. k : s[i] = t[i]
      /\ k = Len(s) \/ s[k + 1] < t[k + 1]
  BY <1>1, NamesAreNumbers DEF PartsAt
<1>3. (k < Len(s) => s[k + 1] \in Nat) /\ t[k + 1] \in Nat
  BY <1>2, NamesAreNumbers
<1>4. s # t
  BY <1>2, <1>3
<1>5. ASSUME NEW m \in Nat, PartsAt(t, s, m) PROVE FALSE
  <2>1. /\ m <= Len(t) /\ m < Len(s)
        /\ \A i \in 1 .. m : t[i] = s[i]
        /\ m = Len(t) \/ t[m + 1] < s[m + 1]
    BY <1>5 DEF PartsAt
  <2>2. t[m + 1] \in Nat \/ m = Len(t)
    <3>1. m # Len(t) => m + 1 \in 1 .. Len(t)
      BY <1>2, <2>1
    <3> QED
      BY <3>1, NamesAreNumbers
  <2>3. CASE k < m
    <3>1. k + 1 \in 1 .. m
      BY <2>3
    <3>2. t[k + 1] = s[k + 1] /\ s[k + 1] < t[k + 1]
      BY <1>2, <2>1, <2>3, <3>1
    <3> QED
      BY <1>3, <3>2
  <2>4. CASE m < k
    <3>1. m + 1 \in 1 .. k
      BY <2>4
    <3>2. t[m + 1] = s[m + 1] /\ m # Len(t)
      BY <1>2, <2>4, <3>1
    <3>3. t[m + 1] < s[m + 1] /\ t[m + 1] \in Nat
      BY <2>1, <2>2, <3>2
    <3> QED
      BY <3>2, <3>3
  <2>5. CASE k = m
    BY <1>2, <1>3, <2>1, <2>5
  <2> QED
    BY <2>3, <2>4, <2>5
<1> QED
  BY <1>4, <1>5 DEF StatesBefore

LEMMA StatesBeforeIsTransitive ==
  ASSUME NEW s \in Seq(Nat), NEW t \in Seq(Nat), NEW u \in Seq(Nat),
         StatesBefore(s, t), StatesBefore(t, u)
  PROVE  StatesBefore(s, u)
<1>1. PICK k \in Nat : PartsAt(s, t, k)
  BY DEF StatesBefore
<1>2. PICK m \in Nat : PartsAt(t, u, m)
  BY DEF StatesBefore
<1>3. /\ k <= Len(s) /\ k < Len(t) /\ Len(s) \in Nat /\ Len(t) \in Nat
      /\ \A i \in 1 .. k : s[i] = t[i]
      /\ k = Len(s) \/ s[k + 1] < t[k + 1]
  BY <1>1, NamesAreNumbers DEF PartsAt
<1>4. /\ m <= Len(t) /\ m < Len(u) /\ Len(u) \in Nat
      /\ \A i \in 1 .. m : t[i] = u[i]
      /\ m = Len(t) \/ t[m + 1] < u[m + 1]
  BY <1>2, NamesAreNumbers DEF PartsAt
<1>5. CASE k < m
  <2>1. \A i \in 1 .. k : s[i] = u[i]
    BY <1>3, <1>4, <1>5
  <2>2. k + 1 \in 1 .. m
    BY <1>5
  <2>3. t[k + 1] = u[k + 1]
    BY <1>4, <2>2
  <2>4. PartsAt(s, u, k)
    BY <1>3, <1>4, <1>5, <2>1, <2>3 DEF PartsAt
  <2> QED
    BY <2>4 DEF StatesBefore
<1>6. CASE m < k
  <2>1. \A i \in 1 .. m : s[i] = u[i]
    BY <1>3, <1>4, <1>6
  <2>2. m + 1 \in 1 .. k
    BY <1>6
  <2>3. s[m + 1] = t[m + 1] /\ m # Len(t)
    BY <1>3, <1>6, <2>2
  <2>4. PartsAt(s, u, m)
    BY <1>3, <1>4, <1>6, <2>1, <2>3 DEF PartsAt
  <2> QED
    BY <2>4 DEF StatesBefore
<1>7. CASE k = m
  <2>1. \A i \in 1 .. k : s[i] = u[i]
    BY <1>3, <1>4, <1>7
  <2>2. t[k + 1] < u[k + 1] /\ t[k + 1] \in Nat /\ u[k + 1] \in Nat
    <3>1. k + 1 \in 1 .. Len(t) /\ k + 1 \in 1 .. Len(u)
      BY <1>3, <1>4, <1>7
    <3>2. t[k + 1] \in Nat /\ u[k + 1] \in Nat
      BY <3>1, NamesAreNumbers
    <3> QED
      BY <1>3, <1>4, <1>7, <3>2
  <2>3. k = Len(s) \/ s[k + 1] < u[k + 1]
    <3>1. CASE k < Len(s)
      <4>1. s[k + 1] < t[k + 1]
        BY <1>3, <3>1
      <4>2. k + 1 \in 1 .. Len(s)
        BY <1>3, <3>1
      <4>3. s[k + 1] \in Nat
        BY <4>2, NamesAreNumbers
      <4> QED
        BY <2>2, <4>1, <4>3, LessThanLess, Zenon
    <3> QED
      BY <1>3, <3>1
  <2>4. PartsAt(s, u, k)
    BY <1>3, <1>4, <1>7, <2>1, <2>3 DEF PartsAt
  <2> QED
    BY <2>4 DEF StatesBefore
<1> QED
  BY <1>5, <1>6, <1>7

\* CmpSeq says which of the two comes first.
LEMMA CmpSeqIsOrder ==
  ASSUME NEW s \in Seq(Nat), NEW t \in Seq(Nat)
  PROVE  /\ CmpSeq(s, t) \in {"less", "greater", "equal"}
         /\ CmpSeq(s, t) = "less" <=> StatesBefore(s, t)
         /\ CmpSeq(s, t) = "greater" <=> StatesBefore(t, s)
         /\ CmpSeq(s, t) = "equal" <=> s = t
<1> DEFINE differ == {i \in 1 .. Len(s) : i <= Len(t) /\ s[i] # t[i]}
           Says == \/ CmpSeq(s, t) = "less" /\ StatesBefore(s, t)
                   \/ CmpSeq(s, t) = "greater" /\ StatesBefore(t, s)
                   \/ CmpSeq(s, t) = "equal" /\ s = t
<1> SUFFICES Says
  BY StatesBeforeIsStrict
<1>1. Len(s) \in Nat /\ Len(t) \in Nat
  OBVIOUS
<1>n. /\ \A i \in 1 .. Len(s) : s[i] \in Nat
      /\ \A i \in 1 .. Len(t) : t[i] \in Nat
  OBVIOUS
<1>2. CASE differ = {}
  <2>1. \A i \in 1 .. Len(s) : i <= Len(t) => s[i] = t[i]
    BY <1>2
  <2>2. CmpSeq(s, t) = Cmp(Len(s), Len(t))
    BY <1>2 DEF CmpSeq
  <2>3. CASE Len(s) < Len(t)
    <3>1. PartsAt(s, t, Len(s))
      BY <1>1, <2>1, <2>3 DEF PartsAt
    <3> QED
      BY <1>1, <2>2, <2>3, <3>1 DEF Cmp, StatesBefore
  <2>4. CASE Len(t) < Len(s)
    <3>1. PartsAt(t, s, Len(t))
      BY <1>1, <2>1, <2>4 DEF PartsAt
    <3> QED
      BY <1>1, <2>2, <2>4, <3>1 DEF Cmp, StatesBefore
  <2>5. CASE Len(t) = Len(s)
    <3>1. DOMAIN s = DOMAIN t /\ \A i \in DOMAIN s : s[i] = t[i]
      BY <1>1, <2>1, <2>5
    <3>2. s = t
      BY <3>1
    <3> QED
      BY <1>1, <2>2, <2>5, <3>2 DEF Cmp
  <2> QED
    BY <1>1, <2>3, <2>4, <2>5
<1>3. CASE differ # {}
  <2>1. \E i \in differ : \A j \in differ : i <= j
    <3>1. differ \subseteq Nat
      OBVIOUS
    <3> HIDE DEF differ
    <3> QED
      BY <1>3, <3>1, LeastNatural
  <2> DEFINE first == CHOOSE i \in differ : \A j \in differ : i <= j
  <2>2. first \in differ /\ \A j \in differ : first <= j
    BY <2>1
  <2>3. CmpSeq(s, t) = Cmp(s[first], t[first])
    BY <1>3 DEF CmpSeq
  <2> HIDE DEF first
  <2>4. first \in 1 .. Len(s) /\ first \in 1 .. Len(t) /\ s[first] # t[first]
    BY <1>1, <2>2
  <2>5. s[first] \in Nat /\ t[first] \in Nat
    BY <1>n, <2>4, Zenon
  <2>6. ASSUME NEW i \in 1 .. first - 1 PROVE s[i] = t[i]
    <3> HIDE DEF differ, Says
    <3>f. first \in Nat /\ first <= Len(s) /\ first <= Len(t)
      BY <1>1, <2>4
    <3>i. i \in Nat /\ 1 <= i /\ i < first
      BY <3>f
    <3>1. i \in 1 .. Len(s) /\ i <= Len(t) /\ ~(first <= i)
      BY <1>1, <3>f, <3>i
    <3> USE DEF differ
    <3>2. i \notin differ
      BY <2>2, <3>1
    <3> QED
      BY <3>1, <3>2
  <2> DEFINE k == first - 1
  <2>7. k \in Nat /\ k + 1 = first /\ k < Len(s) /\ k < Len(t)
    BY <1>1, <2>4
  <2>8. CASE s[first] < t[first]
    <3>1. PartsAt(s, t, k)
      BY <1>1, <2>6, <2>7, <2>8 DEF PartsAt
    <3>2. Cmp(s[first], t[first]) = "less"
      BY <2>5, <2>8 DEF Cmp
    <3> QED
      BY <2>3, <2>7, <3>1, <3>2 DEF StatesBefore
  <2>9. CASE t[first] < s[first]
    <3>1. PartsAt(t, s, k)
      BY <1>1, <2>6, <2>7, <2>9 DEF PartsAt
    <3>2. Cmp(s[first], t[first]) = "greater"
      BY <2>5, <2>9 DEF Cmp
    <3> QED
      BY <2>3, <2>7, <3>1, <3>2 DEF StatesBefore
  <2> QED
    BY <2>4, <2>5, <2>8, <2>9
<1> QED
  BY <1>2, <1>3

-----------------------------------------------------------------------------
(* The order of interactions.                                              *)

\* Interactions that the comparison can put in order.
Uniform(I) ==
  /\ I \subseteq Interaction
  /\ \A x \in I : x.key = NoKey
  /\ \A x, y \in I : x.desc = y.desc => (x.states = <<>> <=> y.states = <<>>)

Same(f, x, y) ==
  x.desc = y.desc /\ x.states = y.states /\ (f = "v4" => x.type = y.type)

Before(f, x, y) ==
  \/ x.desc < y.desc
  \/ x.desc = y.desc /\ StatesBefore(x.states, y.states)
  \/ x.desc = y.desc /\ x.states = y.states /\ f = "v4" /\ x.type < y.type

LEMMA FieldsOfInteraction ==
  ASSUME NEW x \in Interaction
  PROVE  x.desc \in Nat /\ x.states \in Seq(Nat) /\ x.type \in Nat
BY DEF Interaction

\* Of two interactions either one comes first or they are the same.
LEMMA BeforeIsTotal ==
  ASSUME NEW f, NEW x \in Interaction, NEW y \in Interaction
  PROVE  Before(f, x, y) \/ Before(f, y, x) \/ Same(f, x, y)
<1>1. /\ x.desc \in Nat /\ x.states \in Seq(Nat) /\ x.type \in Nat
      /\ y.desc \in Nat /\ y.states \in Seq(Nat) /\ y.type \in Nat
  BY FieldsOfInteraction
<1>2. \/ StatesBefore(x.states, y.states)
      \/ StatesBefore(y.states, x.states)
      \/ x.states = y.states
  BY <1>1, CmpSeqIsOrder
<1> QED
  BY <1>1, <1>2 DEF Before, Same

LEMMA BeforeIsStrict ==
  ASSUME NEW f, NEW x \in Interaction, NEW y \in Interaction, Before(f, x, y)
  PROVE  ~Before(f, y, x) /\ ~Same(f, x, y) /\ ~Same(f, y, x)
<1>1. /\ x.desc \in Nat /\ x.states \in Seq(Nat) /\ x.type \in Nat
      /\ y.desc \in Nat /\ y.states \in Seq(Nat) /\ y.type \in Nat
  BY FieldsOfInteraction
<1>2. /\ ~(StatesBefore(x.states, y.states) /\ StatesBefore(y.states, x.states))
      /\ x.states = y.states =>
           ~StatesBefore(x.states, y.states) /\ ~StatesBefore(y.states, x.states)
  BY <1>1, StatesBeforeIsStrict
<1> QED
  BY <1>1, <1>2 DEF Before, Same

LEMMA BeforeIsTransitive ==
  ASSUME NEW f, NEW x \in Interaction, NEW y \in Interaction, NEW z \in Interaction,
         Before(f, x, y) \/ Same(f, x, y), Before(f, y, z) \/ Same(f, y, z)
  PROVE  Before(f, x, z) \/ (Same(f, x, y) /\ Same(f, y, z))
<1>1. /\ x.desc \in Nat /\ x.states \in Seq(Nat) /\ x.type \in Nat
      /\ y.desc \in Nat /\ y.states \in Seq(Nat) /\ y.type \in Nat
      /\ z.desc \in Nat /\ z.states \in Seq(Nat) /\ z.type \in Nat
  BY FieldsOfInteraction
<1>2. StatesBefore(x.states, y.states) /\ StatesBefore(y.states, z.states)
        => StatesBefore(x.states, z.states)
  BY <1>1, StatesBeforeIsTransitive
<1> QED
  BY <1>1, <1>2 DEF Before, Same

\* The closure of merge_join_by is this order, where no interaction has a key
\* and those with the same description agree on having states.
LEMMA CompareIsOrder ==
  ASSUME NEW I, Uniform(I), NEW f, NEW x \in I, NEW y \in I
  PROVE  /\ Compare(f, x, y) \in {"less", "greater", "equal"}
         /\ Compare(f, x, y) = "less" <=> Before(f, x, y)
         /\ Compare(f, x, y) = "greater" <=> Before(f, y, x)
         /\ Compare(f, x, y) = "equal" <=> Same(f, x, y)
<1> DEFINE Says == \/ Compare(f, x, y) = "less" /\ Before(f, x, y)
                   \/ Compare(f, x, y) = "greater" /\ Before(f, y, x)
                   \/ Compare(f, x, y) = "equal" /\ Same(f, x, y)
<1>1. x \in Interaction /\ y \in Interaction
  BY DEF Uniform
<1> SUFFICES Says
  <2>1. Same(f, y, x) <=> Same(f, x, y)
    BY DEF Same
  <2>2. Before(f, x, y) => ~Before(f, y, x) /\ ~Same(f, x, y)
    BY <1>1, BeforeIsStrict
  <2>3. Before(f, y, x) => ~Before(f, x, y) /\ ~Same(f, x, y)
    BY <1>1, <2>1, BeforeIsStrict
  <2> QED
    BY <2>2, <2>3
<1>2. /\ x.desc \in Nat /\ x.states \in Seq(Nat) /\ x.type \in Nat
      /\ y.desc \in Nat /\ y.states \in Seq(Nat) /\ y.type \in Nat
      /\ x.key = NoKey
      /\ x.desc = y.desc => (x.states = <<>> <=> y.states = <<>>)
  BY <1>1, FieldsOfInteraction DEF Uniform
<1> DEFINE states == IF x.states = <<>> THEN "equal" ELSE CmpSeq(x.states, y.states)
<1>3. Compare(f, x, y) =
        IF f = "v4" THEN Then(Cmp(x.desc, y.desc), Then(states, Cmp(x.type, y.type)))
        ELSE Then(Cmp(x.desc, y.desc), states)
  BY <1>2 DEF Compare, CompareV4, CompareV3
<1>4. x.desc = y.desc => \/ states = "less" /\ StatesBefore(x.states, y.states)
                         \/ states = "greater" /\ StatesBefore(y.states, x.states)
                         \/ states = "equal" /\ x.states = y.states
  BY <1>2, CmpSeqIsOrder
<1> HIDE DEF states
<1>5. CASE x.desc = y.desc
  <2>1. Cmp(x.desc, y.desc) = "equal"
    BY <1>2, <1>5 DEF Cmp
  <2>2. CASE f = "v4"
    <3>1. Compare(f, x, y) = Then(states, Cmp(x.type, y.type))
      BY <1>3, <2>1, <2>2 DEF Then
    <3>2. CASE states = "equal"
      <4>1. Compare(f, x, y) = Cmp(x.type, y.type) /\ x.states = y.states
        BY <1>4, <1>5, <3>1, <3>2 DEF Then
      <4> QED
        BY <1>2, <1>5, <2>2, <4>1 DEF Cmp, Before, Same
    <3>3. CASE states # "equal"
      <4>1. Compare(f, x, y) = states
        BY <3>1, <3>3 DEF Then
      <4> QED
        BY <1>4, <1>5, <3>3, <4>1 DEF Before
    <3> QED
      BY <3>2, <3>3
  <2>3. CASE f # "v4"
    <3>1. Compare(f, x, y) = states
      BY <1>3, <2>1, <2>3 DEF Then
    <3> QED
      BY <1>4, <1>5, <2>3, <3>1 DEF Before, Same
  <2> QED
    BY <2>2, <2>3
<1>6. CASE x.desc # y.desc
  <2>1. \/ Cmp(x.desc, y.desc) = "less" /\ x.desc < y.desc
        \/ Cmp(x.desc, y.desc) = "greater" /\ y.desc < x.desc
    BY <1>2, <1>6 DEF Cmp
  <2>2. Compare(f, x, y) = Cmp(x.desc, y.desc)
    BY <1>3, <2>1 DEF Then
  <2> QED
    BY <2>1, <2>2 DEF Before
<1> QED
  BY <1>5, <1>6

-----------------------------------------------------------------------------
(* The walk of merge_join_by over two lists that are in order.             *)

Ascending(f, s) == \A i, j \in DOMAIN s : i < j => Before(f, s[i], s[j])

\* What the merge keeps of the interactions of self, and of those of other.
KeptOfSelf(f, self, other, p) ==
  f = "v4" \/ \A q \in DOMAIN other : ~Same(f, self[p], other[q])

KeptOfOther(f, self, other, q) ==
  f # "v4" \/ \A p \in DOMAIN self : ~Same(f, self[p], other[q])

KeptUpTo(f, self, other, i, j) ==
  {self[p] : p \in {n \in 1 .. i : KeptOfSelf(f, self, other, n)}}
    \cup {other[q] : q \in {n \in 1 .. j : KeptOfOther(f, self, other, n)}}

\* All that is passed in one list comes before all that is left in the other.
Level(f, self, other, i, j) ==
  \A p \in DOMAIN self, q \in DOMAIN other :
    /\ p <= i /\ q > j => Before(f, self[p], other[q])
    /\ p > i /\ q <= j => Before(f, other[q], self[p])

\* A walk that is on its way.
Joined(f, I, self, other, walk) ==
  /\ walk = [i |-> walk.i, j |-> walk.j, out |-> walk.out]
  /\ walk.i \in 0 .. Len(self) /\ walk.j \in 0 .. Len(other)
  /\ walk.out \in Seq(I) /\ Ascending(f, walk.out)
  /\ Items(walk.out) = KeptUpTo(f, self, other, walk.i, walk.j)
  /\ Level(f, self, other, walk.i, walk.j)

LEMMA ItemsAppend ==
  ASSUME NEW I, NEW s \in Seq(I), NEW x \in I
  PROVE  Items(Append(s, x)) = Items(s) \cup {x}
<1> DEFINE t == Append(s, x)
<1>1. /\ DOMAIN s = 1 .. Len(s) /\ Len(s) \in Nat /\ DOMAIN t = 1 .. Len(s) + 1
      /\ t[Len(s) + 1] = x /\ \A k \in 1 .. Len(s) : t[k] = s[k]
  OBVIOUS
<1> HIDE DEF t
<1>2. Items(t) \subseteq Items(s) \cup {x}
  <2> SUFFICES ASSUME NEW k \in DOMAIN t PROVE t[k] \in Items(s) \cup {x}
    BY DEF Items
  <2>1. k = Len(s) + 1 \/ k \in 1 .. Len(s)
    BY <1>1
  <2> QED
    BY <1>1, <2>1 DEF Items
<1>3. Items(s) \cup {x} \subseteq Items(t)
  <2>1. ASSUME NEW k \in DOMAIN s PROVE s[k] \in Items(t)
    <3>1. k \in DOMAIN t /\ t[k] = s[k]
      BY <1>1
    <3> QED
      BY <3>1 DEF Items
  <2>2. x \in Items(t)
    <3>1. Len(s) + 1 \in DOMAIN t
      BY <1>1
    <3> QED
      BY <1>1, <3>1 DEF Items
  <2> QED
    BY <2>1, <2>2 DEF Items
<1>4. Items(t) = Items(s) \cup {x}
  BY <1>2, <1>3
<1> QED
  BY <1>4 DEF t

LEMMA AscendingAppend ==
  ASSUME NEW f, NEW I, NEW s \in Seq(I), NEW x \in I, Ascending(f, s),
         \A y \in Items(s) : Before(f, y, x)
  PROVE  Ascending(f, Append(s, x))
<1> DEFINE t == Append(s, x)
<1>1. /\ DOMAIN s = 1 .. Len(s) /\ Len(s) \in Nat /\ DOMAIN t = 1 .. Len(s) + 1
      /\ t[Len(s) + 1] = x /\ \A k \in 1 .. Len(s) : t[k] = s[k]
  OBVIOUS
<1> HIDE DEF t
<1> SUFFICES ASSUME NEW i \in DOMAIN t, NEW j \in DOMAIN t, i < j
             PROVE  Before(f, t[i], t[j])
  BY DEF Ascending, t
<1>2. i \in 1 .. Len(s) /\ t[i] = s[i] /\ t[i] \in Items(s)
  BY <1>1 DEF Items
<1>3. CASE j = Len(s) + 1
  BY <1>1, <1>2, <1>3
<1>4. CASE j \in 1 .. Len(s)
  BY <1>1, <1>2, <1>4 DEF Ascending
<1> QED
  BY <1>1, <1>3, <1>4

\* What is taken in one step: from self if that is the smaller or the two are
\* the same, and from other likewise.
LEMMA KeptOneMoreOfSelf ==
  ASSUME NEW f, NEW self, NEW other, NEW i \in Nat, NEW j \in Nat
  PROVE  KeptUpTo(f, self, other, i + 1, j) =
           KeptUpTo(f, self, other, i, j)
             \cup (IF KeptOfSelf(f, self, other, i + 1) THEN {self[i + 1]} ELSE {})
<1>1. 1 .. i + 1 = (1 .. i) \cup {i + 1}
  OBVIOUS
<1> DEFINE P == {n \in 1 .. i : KeptOfSelf(f, self, other, n)}
           more == IF KeptOfSelf(f, self, other, i + 1) THEN {i + 1} ELSE {}
<1>2. {n \in 1 .. i + 1 : KeptOfSelf(f, self, other, n)} = P \cup more
  BY <1>1
<1> HIDE DEF P
<1>3. KeptUpTo(f, self, other, i + 1, j) =
        {self[p] : p \in P \cup more}
          \cup {other[q] : q \in {n \in 1 .. j : KeptOfOther(f, self, other, n)}}
  BY <1>2 DEF KeptUpTo
<1>4. KeptUpTo(f, self, other, i, j) =
        {self[p] : p \in P}
          \cup {other[q] : q \in {n \in 1 .. j : KeptOfOther(f, self, other, n)}}
  BY DEF KeptUpTo, P
<1> QED
  BY <1>3, <1>4

LEMMA KeptOneMoreOfOther ==
  ASSUME NEW f, NEW self, NEW other, NEW i \in Nat, NEW j \in Nat
  PROVE  KeptUpTo(f, self, other, i, j + 1) =
           KeptUpTo(f, self, other, i, j)
             \cup (IF KeptOfOther(f, self, other, j + 1) THEN {other[j + 1]} ELSE {})
<1>1. 1 .. j + 1 = (1 .. j) \cup {j + 1}
  OBVIOUS
<1> DEFINE Q == {n \in 1 .. j : KeptOfOther(f, self, other, n)}
           more == IF KeptOfOther(f, self, other, j + 1) THEN {j + 1} ELSE {}
<1>2. {n \in 1 .. j + 1 : KeptOfOther(f, self, other, n)} = Q \cup more
  BY <1>1
<1> HIDE DEF Q
<1>3. KeptUpTo(f, self, other, i, j + 1) =
        {self[p] : p \in {n \in 1 .. i : KeptOfSelf(f, self, other, n)}}
          \cup {other[q] : q \in Q \cup more}
  BY <1>2 DEF KeptUpTo
<1>4. KeptUpTo(f, self, other, i, j) =
        {self[p] : p \in {n \in 1 .. i : KeptOfSelf(f, self, other, n)}}
          \cup {other[q] : q \in Q}
  BY DEF KeptUpTo, Q
<1> QED
  BY <1>3, <1>4

\* One step keeps the two lists level.
LEMMA LevelAfterSelf ==
  ASSUME NEW f, NEW I \in SUBSET Interaction,
         NEW self \in Seq(I), NEW other \in Seq(I),
         Ascending(f, self), Ascending(f, other),
         NEW i \in 0 .. Len(self), NEW j \in 0 .. Len(other), Level(f, self, other, i, j),
         i < Len(self), j < Len(other) => Before(f, self[i + 1], other[j + 1])
  PROVE  Level(f, self, other, i + 1, j) /\ KeptOfSelf(f, self, other, i + 1)
<1>1. /\ DOMAIN self = 1 .. Len(self) /\ DOMAIN other = 1 .. Len(other)
      /\ Len(self) \in Nat /\ Len(other) \in Nat /\ i + 1 \in DOMAIN self
      /\ \A p \in DOMAIN self : self[p] \in Interaction
      /\ \A q \in DOMAIN other : other[q] \in Interaction
  OBVIOUS
<1>2. ASSUME NEW q \in DOMAIN other, q > j PROVE Before(f, self[i + 1], other[q])
  <2>1. j < Len(other) /\ j + 1 \in DOMAIN other
    BY <1>1, <1>2
  <2>2. CASE q = j + 1
    BY <2>1, <2>2
  <2>3. CASE q > j + 1
    <3>1. Before(f, other[j + 1], other[q])
      BY <2>1, <2>3 DEF Ascending
    <3>2. Before(f, self[i + 1], other[j + 1]) /\ ~Same(f, self[i + 1], other[j + 1])
      BY <1>1, <2>1, BeforeIsStrict
    <3> QED
      BY <1>1, <2>1, <3>1, <3>2, BeforeIsTransitive
  <2> QED
    BY <1>1, <1>2, <2>2, <2>3
<1>3. Level(f, self, other, i + 1, j)
  <2> SUFFICES ASSUME NEW p \in DOMAIN self, NEW q \in DOMAIN other
               PROVE  /\ p <= i + 1 /\ q > j => Before(f, self[p], other[q])
                      /\ p > i + 1 /\ q <= j => Before(f, other[q], self[p])
    BY DEF Level
  <2>1. p <= i + 1 <=> (p <= i \/ p = i + 1)
    BY <1>1
  <2>2. p > i + 1 => p > i
    BY <1>1
  <2> QED
    BY <1>2, <2>1, <2>2 DEF Level
<1>4. ASSUME NEW q \in DOMAIN other PROVE ~Same(f, self[i + 1], other[q])
  <2>1. CASE q <= j
    <3>1. Before(f, other[q], self[i + 1])
      BY <1>1, <2>1 DEF Level
    <3> QED
      BY <1>1, <3>1, BeforeIsStrict
  <2>2. CASE q > j
    BY <1>1, <1>2, <2>2, BeforeIsStrict
  <2> QED
    BY <1>1, <2>1, <2>2
<1> QED
  BY <1>3, <1>4 DEF KeptOfSelf

LEMMA LevelAfterOther ==
  ASSUME NEW f, NEW I \in SUBSET Interaction,
         NEW self \in Seq(I), NEW other \in Seq(I),
         Ascending(f, self), Ascending(f, other),
         NEW i \in 0 .. Len(self), NEW j \in 0 .. Len(other), Level(f, self, other, i, j),
         j < Len(other), i < Len(self) => Before(f, other[j + 1], self[i + 1])
  PROVE  Level(f, self, other, i, j + 1) /\ KeptOfOther(f, self, other, j + 1)
<1>1. /\ DOMAIN self = 1 .. Len(self) /\ DOMAIN other = 1 .. Len(other)
      /\ Len(self) \in Nat /\ Len(other) \in Nat /\ j + 1 \in DOMAIN other
      /\ \A p \in DOMAIN self : self[p] \in Interaction
      /\ \A q \in DOMAIN other : other[q] \in Interaction
  OBVIOUS
<1>2. ASSUME NEW p \in DOMAIN self, p > i PROVE Before(f, other[j + 1], self[p])
  <2>1. i < Len(self) /\ i + 1 \in DOMAIN self
    BY <1>1, <1>2
  <2>2. CASE p = i + 1
    BY <2>1, <2>2
  <2>3. CASE p > i + 1
    <3>1. Before(f, self[i + 1], self[p])
      BY <2>1, <2>3 DEF Ascending
    <3>2. Before(f, other[j + 1], self[i + 1]) /\ ~Same(f, other[j + 1], self[i + 1])
      BY <1>1, <2>1, BeforeIsStrict
    <3> QED
      BY <1>1, <2>1, <3>1, <3>2, BeforeIsTransitive
  <2> QED
    BY <1>1, <1>2, <2>2, <2>3
<1>3. Level(f, self, other, i, j + 1)
  <2> SUFFICES ASSUME NEW p \in DOMAIN self, NEW q \in DOMAIN other
               PROVE  /\ p <= i /\ q > j + 1 => Before(f, self[p], other[q])
                      /\ p > i /\ q <= j + 1 => Before(f, other[q], self[p])
    BY DEF Level
  <2>1. q <= j + 1 <=> (q <= j \/ q = j + 1)
    BY <1>1
  <2>2. q > j + 1 => q > j
    BY <1>1
  <2> QED
    BY <1>2, <2>1, <2>2 DEF Level
<1>4. ASSUME NEW p \in DOMAIN self PROVE ~Same(f, self[p], other[j + 1])
  <2>1. CASE p <= i
    <3>1. Before(f, self[p], other[j + 1])
      BY <1>1, <2>1 DEF Level
    <3> QED
      BY <1>1, <3>1, BeforeIsStrict
  <2>2. CASE p > i
    BY <1>1, <1>2, <2>2, BeforeIsStrict
  <2> QED
    BY <1>1, <2>1, <2>2
<1> QED
  BY <1>3, <1>4 DEF KeptOfOther

LEMMA LevelAfterBoth ==
  ASSUME NEW f, NEW I \in SUBSET Interaction,
         NEW self \in Seq(I), NEW other \in Seq(I),
         Ascending(f, self), Ascending(f, other),
         NEW i \in 0 .. Len(self), NEW j \in 0 .. Len(other), Level(f, self, other, i, j),
         i < Len(self), j < Len(other), Same(f, self[i + 1], other[j + 1])
  PROVE  Level(f, self, other, i + 1, j + 1)
<1>1. /\ DOMAIN self = 1 .. Len(self) /\ DOMAIN other = 1 .. Len(other)
      /\ Len(self) \in Nat /\ Len(other) \in Nat
      /\ i + 1 \in DOMAIN self /\ j + 1 \in DOMAIN other
      /\ \A p \in DOMAIN self : self[p] \in Interaction
      /\ \A q \in DOMAIN other : other[q] \in Interaction
  OBVIOUS
<1> SUFFICES ASSUME NEW p \in DOMAIN self, NEW q \in DOMAIN other
             PROVE  /\ p <= i + 1 /\ q > j + 1 => Before(f, self[p], other[q])
                    /\ p > i + 1 /\ q <= j + 1 => Before(f, other[q], self[p])
  BY DEF Level
<1>2. Same(f, other[j + 1], self[i + 1])
  BY DEF Same
<1>3. ASSUME p = i + 1, q > j + 1 PROVE Before(f, self[p], other[q])
  <2>1. Before(f, other[j + 1], other[q])
    BY <1>1, <1>3 DEF Ascending
  <2>2. ~Same(f, other[j + 1], other[q])
    BY <1>1, <2>1, BeforeIsStrict
  <2> QED
    BY <1>1, <1>3, <2>1, <2>2, BeforeIsTransitive
<1>4. ASSUME q = j + 1, p > i + 1 PROVE Before(f, other[q], self[p])
  <2>1. Before(f, self[i + 1], self[p])
    BY <1>1, <1>4 DEF Ascending
  <2>2. ~Same(f, self[i + 1], self[p])
    BY <1>1, <2>1, BeforeIsStrict
  <2> QED
    BY <1>1, <1>2, <1>4, <2>1, <2>2, BeforeIsTransitive
<1>5. /\ p <= i + 1 <=> (p <= i \/ p = i + 1)
      /\ q <= j + 1 <=> (q <= j \/ q = j + 1)
      /\ p > i + 1 => p > i
      /\ q > j + 1 => q > j
  BY <1>1
<1> QED
  BY <1>3, <1>4, <1>5 DEF Level

\* What is merged so far comes before all that is left.
LEMMA KeptComeBefore ==
  ASSUME NEW f, NEW I \in SUBSET Interaction,
         NEW self \in Seq(I), NEW other \in Seq(I),
         Ascending(f, self), Ascending(f, other),
         NEW i \in 0 .. Len(self), NEW j \in 0 .. Len(other), Level(f, self, other, i, j),
         NEW y \in KeptUpTo(f, self, other, i, j)
  PROVE  /\ i < Len(self) => Before(f, y, self[i + 1])
         /\ j < Len(other) => Before(f, y, other[j + 1])
<1>1. /\ DOMAIN self = 1 .. Len(self) /\ DOMAIN other = 1 .. Len(other)
      /\ Len(self) \in Nat /\ Len(other) \in Nat
  OBVIOUS
<1>2. CASE \E p \in 1 .. i : y = self[p]
  <2>1. PICK p \in 1 .. i : y = self[p]
    BY <1>2
  <2>2. p \in DOMAIN self /\ p <= i
    BY <1>1
  <2>3. i < Len(self) => i + 1 \in DOMAIN self /\ p < i + 1
    BY <1>1, <2>2
  <2>4. j < Len(other) => j + 1 \in DOMAIN other /\ j + 1 > j
    BY <1>1
  <2> QED
    BY <2>1, <2>2, <2>3, <2>4 DEF Level, Ascending
<1>3. CASE \E q \in 1 .. j : y = other[q]
  <2>1. PICK q \in 1 .. j : y = other[q]
    BY <1>3
  <2>2. q \in DOMAIN other /\ q <= j
    BY <1>1
  <2>3. j < Len(other) => j + 1 \in DOMAIN other /\ q < j + 1
    BY <1>1, <2>2
  <2>4. i < Len(self) => i + 1 \in DOMAIN self /\ i + 1 > i
    BY <1>1
  <2> QED
    BY <2>1, <2>2, <2>3, <2>4 DEF Level, Ascending
<1> QED
  BY <1>2, <1>3 DEF KeptUpTo

\* A walk that goes on with one more interaction.
LEMMA JoinedGoesOn ==
  ASSUME NEW f, NEW I, NEW self, NEW other, NEW walk, Joined(f, I, self, other, walk),
         NEW i \in 0 .. Len(self), NEW j \in 0 .. Len(other), NEW x \in I,
         Level(f, self, other, i, j),
         KeptUpTo(f, self, other, i, j) = KeptUpTo(f, self, other, walk.i, walk.j) \cup {x},
         \A y \in KeptUpTo(f, self, other, walk.i, walk.j) : Before(f, y, x)
  PROVE  Joined(f, I, self, other, [i |-> i, j |-> j, out |-> Append(walk.out, x)])
<1> DEFINE out == Append(walk.out, x)
<1>1. /\ walk.out \in Seq(I) /\ Ascending(f, walk.out)
      /\ Items(walk.out) = KeptUpTo(f, self, other, walk.i, walk.j)
  BY DEF Joined
<1>2. out \in Seq(I)
  BY <1>1
<1>3. Items(out) = KeptUpTo(f, self, other, i, j)
  BY <1>1, ItemsAppend
<1>4. Ascending(f, out)
  BY <1>1, AscendingAppend
<1> HIDE DEF out
<1>5. Joined(f, I, self, other, [i |-> i, j |-> j, out |-> out])
  BY <1>2, <1>3, <1>4 DEF Joined
<1> QED
  BY <1>5 DEF out

LEMMA AdvanceKeeps ==
  ASSUME NEW I, Uniform(I), NEW self \in Seq(I), NEW other \in Seq(I),
         Ascending(format, self), Ascending(format, other),
         NEW walk, Joined(format, I, self, other, walk)
  PROVE  /\ Joined(format, I, self, other, Advance(self, other, walk))
         /\ \/ Advance(self, other, walk).i + Advance(self, other, walk).j > walk.i + walk.j
            \/ Advance(self, other, walk) = walk /\ walk.i = Len(self) /\ walk.j = Len(other)
<1> DEFINE i == walk.i
           j == walk.j
           a == self[i + 1]
           b == other[j + 1]
           Step(order, merged) ==
             [i   |-> IF order = "greater" THEN i ELSE i + 1,
              j   |-> IF order = "less" THEN j ELSE j + 1,
              out |-> Append(walk.out, merged)]
           order == IF j = Len(other) THEN "less"
                    ELSE IF i = Len(self) THEN "greater" ELSE Compare(format, a, b)
           taken == CASE order = "less"    -> a
                      [] order = "greater" -> b
                      [] OTHER             -> Both(a, b)
           next == Advance(self, other, walk)
<1>e. ~(i = Len(self) /\ j = Len(other)) => next = Step(order, taken)
  BY DEF Advance
<1>1. /\ i \in 0 .. Len(self) /\ j \in 0 .. Len(other) /\ Level(format, self, other, i, j)
      /\ Len(self) \in Nat /\ Len(other) \in Nat
      /\ I \in SUBSET Interaction
  BY DEF Joined, Uniform
<1>2. (i < Len(self) => a \in I) /\ (j < Len(other) => b \in I)
  BY <1>1
<1>3. i < Len(self) /\ j < Len(other) =>
        /\ Compare(format, a, b) \in {"less", "greater", "equal"}
        /\ Compare(format, a, b) = "less" <=> Before(format, a, b)
        /\ Compare(format, a, b) = "greater" <=> Before(format, b, a)
        /\ Compare(format, a, b) = "equal" <=> Same(format, a, b)
  BY <1>2, CompareIsOrder
<1>4. \A y \in KeptUpTo(format, self, other, i, j) :
        /\ i < Len(self) => Before(format, y, a)
        /\ j < Len(other) => Before(format, y, b)
  BY <1>1, KeptComeBefore
<1>5. /\ KeptUpTo(format, self, other, i + 1, j) =
           KeptUpTo(format, self, other, i, j)
             \cup (IF KeptOfSelf(format, self, other, i + 1) THEN {a} ELSE {})
      /\ KeptUpTo(format, self, other, i, j + 1) =
           KeptUpTo(format, self, other, i, j)
             \cup (IF KeptOfOther(format, self, other, j + 1) THEN {b} ELSE {})
      /\ KeptUpTo(format, self, other, i + 1, j + 1) =
           KeptUpTo(format, self, other, i, j)
             \cup (IF KeptOfSelf(format, self, other, i + 1) THEN {a} ELSE {})
             \cup (IF KeptOfOther(format, self, other, j + 1) THEN {b} ELSE {})
  <2>1. i \in Nat /\ j \in Nat /\ i + 1 \in Nat
    BY <1>1
  <2> HIDE DEF i, j
  <2>2. ASSUME NEW m \in Nat
        PROVE  KeptUpTo(format, self, other, i + 1, m) =
                 KeptUpTo(format, self, other, i, m)
                   \cup (IF KeptOfSelf(format, self, other, i + 1) THEN {a} ELSE {})
    BY <2>1, KeptOneMoreOfSelf
  <2>3. ASSUME NEW m \in Nat
        PROVE  KeptUpTo(format, self, other, m, j + 1) =
                 KeptUpTo(format, self, other, m, j)
                   \cup (IF KeptOfOther(format, self, other, j + 1) THEN {b} ELSE {})
    BY <2>1, KeptOneMoreOfOther
  <2> QED
    BY <2>1, <2>2, <2>3
<1>6. CASE i = Len(self) /\ j = Len(other)
  BY <1>6 DEF Advance
\* Left: the next one of self is the smaller, or the only one.
<1>7. CASE i < Len(self) /\ (j < Len(other) => Compare(format, a, b) = "less")
  <2>1. next = Step("less", a)
    <3>1. order = "less" /\ ~(i = Len(self) /\ j = Len(other))
      BY <1>1, <1>7
    <3>2. taken = a
      BY <3>1
    <3> HIDE DEF order, taken
    <3> QED
      BY <1>e, <3>1, <3>2
  <2>2. Level(format, self, other, i + 1, j) /\ KeptOfSelf(format, self, other, i + 1)
    BY <1>1, <1>3, <1>7, LevelAfterSelf
  <2>3. i + 1 \in 0 .. Len(self) /\ a \in I
    BY <1>1, <1>2, <1>7
  <2>4. next = [i |-> i + 1, j |-> j, out |-> Append(walk.out, a)]
    BY <2>1
  <2>5. KeptUpTo(format, self, other, i + 1, j) = KeptUpTo(format, self, other, i, j) \cup {a}
    BY <1>5, <2>2
  <2>6. \A y \in KeptUpTo(format, self, other, i, j) : Before(format, y, a)
    BY <1>4, <1>7
  <2> HIDE DEF next, a, b
  <2>7. Joined(format, I, self, other, [i |-> i + 1, j |-> j, out |-> Append(walk.out, a)])
    BY <1>1, <2>2, <2>3, <2>5, <2>6, JoinedGoesOn
  <2>8. next.i + next.j > i + j
    BY <1>1, <2>4
  <2>9. Joined(format, I, self, other, next)
    BY <2>4, <2>7
  <2> QED
    BY <2>8, <2>9 DEF next
\* Right, likewise.
<1>8. CASE j < Len(other) /\ (i < Len(self) => Compare(format, a, b) = "greater")
  <2>1. next = Step("greater", b)
    <3>1. order = "greater" /\ ~(i = Len(self) /\ j = Len(other))
      BY <1>1, <1>8
    <3>2. taken = b
      BY <3>1
    <3> HIDE DEF order, taken
    <3> QED
      BY <1>e, <3>1, <3>2
  <2>2. Level(format, self, other, i, j + 1) /\ KeptOfOther(format, self, other, j + 1)
    BY <1>1, <1>3, <1>8, LevelAfterOther
  <2>3. j + 1 \in 0 .. Len(other) /\ b \in I
    BY <1>1, <1>2, <1>8
  <2>4. next = [i |-> i, j |-> j + 1, out |-> Append(walk.out, b)]
    BY <2>1
  <2>5. KeptUpTo(format, self, other, i, j + 1) = KeptUpTo(format, self, other, i, j) \cup {b}
    BY <1>5, <2>2
  <2>6. \A y \in KeptUpTo(format, self, other, i, j) : Before(format, y, b)
    BY <1>4, <1>8
  <2> HIDE DEF next, a, b
  <2>7. Joined(format, I, self, other, [i |-> i, j |-> j + 1, out |-> Append(walk.out, b)])
    BY <1>1, <2>2, <2>3, <2>5, <2>6, JoinedGoesOn
  <2>8. next.i + next.j > i + j
    BY <1>1, <2>4
  <2>9. Joined(format, I, self, other, next)
    BY <2>4, <2>7
  <2> QED
    BY <2>8, <2>9 DEF next
\* Both: the V4 merge keeps the one of self, the others that of other.
<1>9. CASE i < Len(self) /\ j < Len(other) /\ Compare(format, a, b) = "equal"
  <2> DEFINE x == Both(a, b)
  <2>1. next = Step("equal", x)
    <3>1. order = "equal" /\ ~(i = Len(self) /\ j = Len(other))
      BY <1>1, <1>9
    <3>2. taken = x
      BY <3>1
    <3> HIDE DEF order, taken, x
    <3> QED
      BY <1>e, <3>1, <3>2
  <2>2. Same(format, a, b) /\ Level(format, self, other, i + 1, j + 1)
    BY <1>1, <1>3, <1>9, LevelAfterBoth
  <2>3. i + 1 \in 0 .. Len(self) /\ j + 1 \in 0 .. Len(other) /\ a \in I /\ b \in I
    BY <1>1, <1>2, <1>9
  <2>4. next = [i |-> i + 1, j |-> j + 1, out |-> Append(walk.out, x)]
    BY <2>1
  <2>5. /\ KeptOfSelf(format, self, other, i + 1) <=> format = "v4"
        /\ KeptOfOther(format, self, other, j + 1) <=> format # "v4"
    <3>1. i + 1 \in DOMAIN self /\ j + 1 \in DOMAIN other
      BY <1>1, <1>9
    <3> QED
      BY <2>2, <3>1 DEF KeptOfSelf, KeptOfOther
  <2>6. x \in I /\ KeptUpTo(format, self, other, i + 1, j + 1) =
                     KeptUpTo(format, self, other, i, j) \cup {x}
    <3> HIDE DEF a, b, i, j
    <3>1. CASE format = "v4"
      BY <1>5, <2>3, <2>5, <3>1 DEF Both
    <3>2. CASE format # "v4"
      BY <1>5, <2>3, <2>5, <3>2 DEF Both
    <3> QED
      BY <3>1, <3>2
  <2>7. \A y \in KeptUpTo(format, self, other, i, j) : Before(format, y, x)
    BY <1>4, <1>9 DEF Both
  <2> HIDE DEF next, a, b, x
  <2>8. Joined(format, I, self, other, [i |-> i + 1, j |-> j + 1, out |-> Append(walk.out, x)])
    BY <1>1, <2>2, <2>3, <2>6, <2>7, JoinedGoesOn
  <2>9. next.i + next.j > i + j
    BY <1>1, <2>4
  <2>10. Joined(format, I, self, other, next)
    BY <2>4, <2>8
  <2> QED
    BY <2>9, <2>10 DEF next
<1> QED
  BY <1>1, <1>3, <1>6, <1>7, <1>8, <1>9

\* walk[n] is the walk after n interactions.
WalksUpTo(walk, self, other, m) ==
  walk = [n \in 0 .. m |-> IF n = 0 THEN [i |-> 0, j |-> 0, out |-> <<>>]
                           ELSE Advance(self, other, walk[n - 1])]

\* There is such a walk, whatever the lists.
LEMMA WalkExists ==
  ASSUME NEW self, NEW other, NEW steps \in Nat
  PROVE  \E walk : WalksUpTo(walk, self, other, steps)
<1> DEFINE start == [i |-> 0, j |-> 0, out |-> <<>>]
           T == {m \in Nat : \E walk : WalksUpTo(walk, self, other, m)}
<1>1. 0 \in T
  <2>1. WalksUpTo([n \in 0 .. 0 |-> start], self, other, 0)
    BY DEF WalksUpTo
  <2> QED
    BY <2>1
<1>2. ASSUME NEW m \in Nat, m \in T PROVE m + 1 \in T
  <2>1. PICK g : WalksUpTo(g, self, other, m)
    BY <1>2
  <2> DEFINE h == [n \in 0 .. m + 1 |-> IF n = m + 1 THEN Advance(self, other, g[m]) ELSE g[n]]
  <2>2. ASSUME NEW n \in 0 .. m + 1
        PROVE  h[n] = IF n = 0 THEN start ELSE Advance(self, other, h[n - 1])
    <3>1. CASE n = m + 1
      <4>1. h[n] = Advance(self, other, g[m]) /\ h[n - 1] = g[m] /\ n # 0
        BY <3>1
      <4> HIDE DEF h
      <4> QED
        BY <4>1
    <3>2. CASE n \in 0 .. m
      <4>1. h[n] = g[n] /\ (n # 0 => h[n - 1] = g[n - 1])
        BY <3>2
      <4>2. g[n] = IF n = 0 THEN start ELSE Advance(self, other, g[n - 1])
        BY <2>1, <3>2 DEF WalksUpTo
      <4> HIDE DEF h
      <4> QED
        BY <4>1, <4>2
    <3> QED
      BY <3>1, <3>2
  <2>3. h = [n \in 0 .. m + 1 |-> h[n]]
    OBVIOUS
  <2> HIDE DEF h
  <2>4. WalksUpTo(h, self, other, m + 1)
    BY <2>2, <2>3 DEF WalksUpTo
  <2> QED
    BY <2>4
<1> HIDE DEF T
<1>3. steps \in T
  BY <1>1, <1>2, InductionOverNat
<1> QED
  BY <1>3 DEF T

\* The merge of two lists in order is in order, and has what is kept of both.
LEMMA MergeJoinIsMerge ==
  ASSUME NEW I, Uniform(I), NEW self \in Seq(I), NEW other \in Seq(I),
         Ascending(format, self), Ascending(format, other)
  PROVE  /\ MergeJoin(self, other) \in Seq(I)
         /\ Ascending(format, MergeJoin(self, other))
         /\ Items(MergeJoin(self, other)) =
              KeptUpTo(format, self, other, Len(self), Len(other))
<1> DEFINE steps == Len(self) + Len(other)
           walk == CHOOSE g : WalksUpTo(g, self, other, steps)
<1>1. steps \in Nat /\ Len(self) \in Nat /\ Len(other) \in Nat
  OBVIOUS
<1>2. WalksUpTo(walk, self, other, steps)
  <2> HIDE DEF steps
  <2>1. \E g : WalksUpTo(g, self, other, steps)
    BY <1>1, WalkExists
  <2> QED
    BY <2>1
<1>3. MergeJoin(self, other) = walk[steps].out
  BY DEF MergeJoin, WalksUpTo
<1> HIDE DEF walk
<1> DEFINE Good(n) == /\ Joined(format, I, self, other, walk[n])
                      /\ walk[n].i + walk[n].j >= n
           T == {n \in Nat : n <= steps => Good(n)}
<1>4. 0 \in T
  <2> DEFINE start == [i |-> 0, j |-> 0, out |-> <<>>]
  <2>1. walk[0] = start
    BY <1>1, <1>2 DEF WalksUpTo
  <2>2. KeptUpTo(format, self, other, 0, 0) = {}
    BY DEF KeptUpTo
  <2>3. Level(format, self, other, 0, 0)
    BY DEF Level
  <2>4. <<>> \in Seq(I) /\ Ascending(format, <<>>) /\ Items(<<>>) = {}
    BY DEF Ascending, Items
  <2>5. start = [i |-> start.i, j |-> start.j, out |-> start.out]
        /\ start.i = 0 /\ start.j = 0 /\ start.out = <<>>
    OBVIOUS
  <2>6. 0 \in 0 .. Len(self) /\ 0 \in 0 .. Len(other)
    BY <1>1
  <2> HIDE DEF start
  <2>7. Joined(format, I, self, other, start)
    BY <2>2, <2>3, <2>4, <2>5, <2>6 DEF Joined
  <2>8. Joined(format, I, self, other, walk[0]) /\ walk[0].i + walk[0].j >= 0
    BY <2>1, <2>5, <2>7
  <2> QED
    BY <2>8
<1>5. ASSUME NEW n \in Nat, n \in T PROVE n + 1 \in T
  <2> SUFFICES ASSUME n + 1 <= steps PROVE Good(n + 1)
    OBVIOUS
  <2>1. Joined(format, I, self, other, walk[n]) /\ walk[n].i + walk[n].j >= n
    BY <1>1, <1>5
  <2>2. walk[n + 1] = Advance(self, other, walk[n])
    <3>1. n + 1 \in 0 .. steps /\ n + 1 # 0 /\ (n + 1) - 1 = n
      BY <1>1
    <3> HIDE DEF steps
    <3> QED
      BY <1>2, <3>1 DEF WalksUpTo
  <2> DEFINE w == walk[n]
             next == Advance(self, other, w)
  <2>3. /\ Joined(format, I, self, other, next)
        /\ \/ next.i + next.j > w.i + w.j
           \/ next = w /\ w.i = Len(self) /\ w.j = Len(other)
    BY <2>1, AdvanceKeeps
  <2>4. next.i \in Nat /\ next.j \in Nat /\ w.i \in Nat /\ w.j \in Nat
    <3> HIDE DEF next, w
    <3>1. Joined(format, I, self, other, w)
      BY <2>1 DEF w
    <3> QED
      BY <1>1, <2>3, <3>1 DEF Joined
  <2>5. next.i + next.j >= n + 1
    <3>w. w.i + w.j >= n
      BY <2>1
    <3> HIDE DEF next, w
    <3>1. CASE next.i + next.j > w.i + w.j
      BY <2>4, <3>w, <3>1
    <3>2. CASE next.i = Len(self) /\ next.j = Len(other)
      BY <1>1, <3>2
    <3> QED
      BY <2>3, <3>1, <3>2
  <2> QED
    BY <2>2, <2>3, <2>5
<1> HIDE DEF T
<1>6. steps \in T
  <2> HIDE DEF steps, Good
  <2> QED
    BY <1>1, <1>4, <1>5, InductionOverNat
<1>7. Good(steps)
  BY <1>1, <1>6 DEF T
<1>8. walk[steps].i = Len(self) /\ walk[steps].j = Len(other)
  <2>1. walk[steps].i \in 0 .. Len(self) /\ walk[steps].j \in 0 .. Len(other)
    BY <1>7 DEF Joined
  <2> DEFINE w == walk[steps]
  <2>2. w.i \in 0 .. Len(self) /\ w.j \in 0 .. Len(other) /\ w.i + w.j >= Len(self) + Len(other)
    BY <1>7, <2>1
  <2> HIDE DEF w
  <2>3. w.i = Len(self) /\ w.j = Len(other)
    BY <1>1, <2>2
  <2> QED
    BY <2>3 DEF w
<1> QED
  BY <1>3, <1>7, <1>8 DEF Joined

-----------------------------------------------------------------------------
(* Lists that are in order.                                                *)

\* Writing a list that is in order does not change the order.
LEMMA SerialisedKeeps ==
  ASSUME NEW I \in SUBSET Interaction, NEW s \in Seq(I), Ascending(format, s)
  PROVE  Serialised(s) = s
<1>1. DOMAIN s = 1 .. Len(s) /\ Len(s) \in Nat /\ s = [k \in DOMAIN s |-> s[k]]
  OBVIOUS
<1>2. ASSUME NEW i \in DOMAIN s PROVE Place(s, i) = i
  <2> DEFINE P == {j \in DOMAIN s : s[j].desc < s[i].desc \/ (s[j].desc = s[i].desc /\ j <= i)}
  <2>1. ASSUME NEW j \in DOMAIN s PROVE j \in P <=> j <= i
    <3>1. s[i].desc \in Nat /\ s[j].desc \in Nat
      BY FieldsOfInteraction
    <3>2. j < i => s[j].desc <= s[i].desc
      <4>1. j < i => Before(format, s[j], s[i])
        BY DEF Ascending
      <4> QED
        BY <3>1, <4>1 DEF Before
    <3>3. i < j => s[i].desc <= s[j].desc
      <4>1. i < j => Before(format, s[i], s[j])
        BY DEF Ascending
      <4> QED
        BY <3>1, <4>1 DEF Before
    <3> QED
      BY <1>1, <3>1, <3>2, <3>3
  <2>2. P = 1 .. i
    BY <1>1, <2>1
  <2>3. Cardinality(1 .. i) = i
    <3>1. i \in Int /\ 1 \in Int /\ ~(1 > i) /\ (i - 1) + 1 = i
      BY <1>1
    <3> QED
      BY <3>1, FS_Interval
  <2> QED
    BY <2>2, <2>3 DEF Place
<1> DEFINE from(k) == CHOOSE i \in DOMAIN s : Place(s, i) = k
<1>3. ASSUME NEW k \in DOMAIN s PROVE from(k) = k
  <2>1. \A i \in DOMAIN s : Place(s, i) = k <=> i = k
    BY <1>2
  <2> HIDE DEF Place
  <2> QED
    BY <2>1
<1>4. format = "v4" => Serialised(s) = [k \in DOMAIN s |-> s[from(k)]]
  BY DEF Serialised
<1>5. format # "v4" => Serialised(s) = s
  BY DEF Serialised
<1> HIDE DEF from
<1>6. [k \in DOMAIN s |-> s[from(k)]] = [k \in DOMAIN s |-> s[k]]
  BY <1>3
<1> QED
  BY <1>1, <1>4, <1>5, <1>6

\* No two interactions of a list that is in order are the same.
LEMMA AscendingDistinct ==
  ASSUME NEW f, NEW I \in SUBSET Interaction, NEW s \in Seq(I), Ascending(f, s)
  PROVE  \A x, y \in Items(s) : Same(f, x, y) => x = y
<1>1. DOMAIN s = 1 .. Len(s) /\ \A i \in DOMAIN s : s[i] \in Interaction
  OBVIOUS
<1>2. ASSUME NEW i \in DOMAIN s, NEW j \in DOMAIN s, i # j PROVE ~Same(f, s[i], s[j])
  <2>1. Before(f, s[i], s[j]) \/ Before(f, s[j], s[i])
    BY <1>1, <1>2 DEF Ascending
  <2> QED
    BY <1>1, <2>1, BeforeIsStrict
<1> QED
  BY <1>2 DEF Items

\* A list in order is told by what is in it.
LEMMA AscendingAgrees ==
  ASSUME NEW f, NEW I \in SUBSET Interaction, NEW s \in Seq(I), NEW t \in Seq(I),
         Ascending(f, s), Ascending(f, t), Items(s) = Items(t)
  PROVE  \A n \in DOMAIN s : n \in DOMAIN t /\ s[n] = t[n]
<1>1. /\ DOMAIN s = 1 .. Len(s) /\ DOMAIN t = 1 .. Len(t) /\ Len(s) \in Nat /\ Len(t) \in Nat
      /\ \A n \in DOMAIN s : s[n] \in Interaction
      /\ \A n \in DOMAIN t : t[n] \in Interaction
  OBVIOUS
<1> DEFINE T == {n \in DOMAIN s : ~(n \in DOMAIN t /\ s[n] = t[n])}
<1> SUFFICES ASSUME T # {} PROVE FALSE
  OBVIOUS
<1>2. PICK n \in T : \A m \in T : n <= m
  <2>1. T \subseteq Nat
    BY <1>1
  <2> HIDE DEF T
  <2> QED
    BY <2>1, LeastNatural
<1>3. n \in DOMAIN s /\ ~(n \in DOMAIN t /\ s[n] = t[n])
  BY <1>2
<1>4. \A m \in 1 .. n - 1 : m \in DOMAIN s /\ m \in DOMAIN t /\ s[m] = t[m]
  <2> TAKE m \in 1 .. n - 1
  <2>1. m \in DOMAIN s /\ ~(n <= m)
    BY <1>1, <1>3
  <2> QED
    BY <1>2, <2>1
<1> HIDE DEF T
<1>5. PICK k \in DOMAIN t : t[k] = s[n]
  BY <1>3 DEF Items
<1>6. ~(k < n)
  <2> SUFFICES ASSUME k < n PROVE FALSE
    OBVIOUS
  <2>1. k \in DOMAIN s /\ s[k] = s[n]
    BY <1>1, <1>3, <1>4, <1>5
  <2>2. Before(f, s[k], s[n])
    BY <1>3, <2>1 DEF Ascending
  <2> QED
    BY <1>1, <1>3, <2>1, <2>2, BeforeIsStrict
<1>7. n < k /\ n \in DOMAIN t
  BY <1>1, <1>3, <1>5, <1>6
<1>8. Before(f, t[n], s[n])
  BY <1>5, <1>7 DEF Ascending
<1>9. PICK m \in DOMAIN s : s[m] = t[n]
  BY <1>7 DEF Items
<1>10. CASE m < n
  <2>1. m \in DOMAIN t /\ t[m] = t[n]
    BY <1>1, <1>3, <1>4, <1>9, <1>10
  <2>2. Before(f, t[m], t[n])
    BY <1>7, <1>10, <2>1 DEF Ascending
  <2> QED
    BY <1>1, <1>7, <2>1, <2>2, BeforeIsStrict
<1>11. CASE m = n
  BY <1>3, <1>7, <1>9, <1>11
<1>12. CASE n < m
  <2>1. Before(f, s[n], t[n])
    BY <1>3, <1>9, <1>12 DEF Ascending
  <2> QED
    BY <1>1, <1>3, <1>7, <1>8, <2>1, BeforeIsStrict
<1> QED
  BY <1>1, <1>3, <1>9, <1>10, <1>11, <1>12

LEMMA AscendingUnique ==
  ASSUME NEW f, NEW I \in SUBSET Interaction, NEW s \in Seq(I), NEW t \in Seq(I),
         Ascending(f, s), Ascending(f, t), Items(s) = Items(t)
  PROVE  s = t
<1>1. \A n \in DOMAIN s : n \in DOMAIN t /\ s[n] = t[n]
  BY AscendingAgrees
<1>2. \A n \in DOMAIN t : n \in DOMAIN s
  BY AscendingAgrees
<1>3. DOMAIN s = DOMAIN t
  BY <1>1, <1>2
<1> QED
  BY <1>1, <1>3

-----------------------------------------------------------------------------
(* The inductive invariant.                                                *)

\* The file is in order and has all that was written, and the pact that was
\* written last as the merge leaves it.
MergeInv ==
  /\ format \in DOMAIN Inputs
  /\ writes \in 0 .. MaxWrites
  /\ writes = 0 => pact = <<>>
  /\ pact \in Seq(Universe(format))
  /\ Ascending(format, pact)
  /\ written \subseteq Identities(pact)
  /\ last.ok \in BOOLEAN
  /\ last.ok /\ writes > 0 =>
       /\ last.pact \in Inputs[format]
       /\ \A x \in Items(last.pact) : \E y \in Items(pact) :
            Same(format, x, y) /\ (format = "v4" => y = x)

LEMMA SameIsIdentity ==
  ASSUME NEW f, NEW x, NEW y
  PROVE  IdentityOf(f, x) = IdentityOf(f, y) <=> Same(f, x, y)
BY DEF IdentityOf, Same

LEMMA IdentitiesOfItems ==
  ASSUME NEW s
  PROVE  Identities(s) = {Identity(x) : x \in Items(s)}
BY DEF Identities, Items

LEMMA UniverseIsUniform ==
  ASSUME NEW f \in DOMAIN Inputs, Mergeable(f, Inputs[f])
  PROVE  /\ Uniform(Universe(f))
         /\ \A p \in Inputs[f] : p \in Seq(Universe(f)) /\ Ascending(f, p)
<1>1. \A p \in Inputs[f] : p \in Seq(Interaction)
  BY MergeAssumption
<1>2. Uniform(Universe(f))
  <2>1. Universe(f) \subseteq Interaction
    <3> SUFFICES ASSUME NEW p \in Inputs[f], NEW i \in DOMAIN p PROVE p[i] \in Interaction
      BY DEF Universe, Items
    <3> QED
      BY <1>1
  <2> QED
    BY <2>1 DEF Uniform, Universe, Mergeable
<1>3. ASSUME NEW p \in Inputs[f] PROVE p \in Seq(Universe(f)) /\ Ascending(f, p)
  <2>1. p \in Seq(Interaction) /\ \A i \in DOMAIN p : p[i] \in Universe(f)
    BY <1>1 DEF Universe, Items
  <2>2. p \in Seq(Universe(f))
    BY <2>1
  <2>3. ASSUME NEW i \in DOMAIN p, NEW j \in DOMAIN p, i < j PROVE Before(f, p[i], p[j])
    <3>1. Compare(f, p[i], p[j]) = "less"
      BY <2>3 DEF Mergeable
    <3> QED
      BY <1>2, <2>1, <3>1, CompareIsOrder
  <2> QED
    BY <2>2, <2>3 DEF Ascending
<1> QED
  BY <1>2, <1>3

\* What the merge of two lists has of each.
LEMMA KeptHasBoth ==
  ASSUME NEW f, NEW I, NEW self \in Seq(I), NEW other \in Seq(I)
  PROVE  LET kept == KeptUpTo(f, self, other, Len(self), Len(other)) IN
         /\ kept \subseteq Items(self) \cup Items(other)
         /\ f = "v4" => Items(self) \subseteq kept
         /\ f # "v4" => Items(other) \subseteq kept
         /\ \A x \in Items(self) : \/ x \in kept
                                   \/ \E y \in Items(other) : y \in kept /\ Same(f, x, y)
         /\ \A y \in Items(other) : \/ y \in kept
                                    \/ \E x \in Items(self) : x \in kept /\ Same(f, x, y)
<1> DEFINE kept == KeptUpTo(f, self, other, Len(self), Len(other))
<1>1. DOMAIN self = 1 .. Len(self) /\ DOMAIN other = 1 .. Len(other)
  OBVIOUS
<1>2. kept = {self[p] : p \in {n \in DOMAIN self : KeptOfSelf(f, self, other, n)}}
               \cup {other[q] : q \in {n \in DOMAIN other : KeptOfOther(f, self, other, n)}}
  BY <1>1 DEF KeptUpTo
<1> HIDE DEF kept
<1>3. kept \subseteq Items(self) \cup Items(other)
  BY <1>2 DEF Items
<1>4. /\ f = "v4" => Items(self) \subseteq kept
      /\ f # "v4" => Items(other) \subseteq kept
  BY <1>2 DEF Items, KeptOfSelf, KeptOfOther
<1>5. ASSUME NEW p \in DOMAIN self
      PROVE  self[p] \in kept \/ \E y \in Items(other) : y \in kept /\ Same(f, self[p], y)
  <2>1. CASE KeptOfSelf(f, self, other, p)
    BY <1>2, <2>1
  <2>2. CASE ~KeptOfSelf(f, self, other, p)
    <3>1. f # "v4" /\ \E q \in DOMAIN other : Same(f, self[p], other[q])
      BY <2>2 DEF KeptOfSelf
    <3> QED
      BY <1>4, <3>1 DEF Items
  <2> QED
    BY <2>1, <2>2
<1>6. ASSUME NEW q \in DOMAIN other
      PROVE  other[q] \in kept \/ \E x \in Items(self) : x \in kept /\ Same(f, x, other[q])
  <2>1. CASE KeptOfOther(f, self, other, q)
    BY <1>2, <2>1
  <2>2. CASE ~KeptOfOther(f, self, other, q)
    <3>1. f = "v4" /\ \E p \in DOMAIN self : Same(f, self[p], other[q])
      BY <2>2 DEF KeptOfOther
    <3> QED
      BY <1>4, <3>1 DEF Items
  <2> QED
    BY <2>1, <2>2
<1>7. /\ \A x \in Items(self) : \/ x \in kept
                                \/ \E y \in Items(other) : y \in kept /\ Same(f, x, y)
      /\ \A y \in Items(other) : \/ y \in kept
                                 \/ \E x \in Items(self) : x \in kept /\ Same(f, x, y)
  BY <1>5, <1>6 DEF Items
<1> QED
  BY <1>3, <1>4, <1>7 DEF kept

\* What a write makes of the file.
LEMMA WriteMerges ==
  ASSUME MergeInv, Mergeable(format, Inputs[format]),
         NEW p \in Inputs[format], WritePact(p), last'.ok
  PROVE  /\ pact' \in Seq(Universe(format)) /\ Ascending(format, pact')
         /\ Items(pact') = KeptUpTo(format, p, pact, Len(p), Len(pact))
         /\ written' = written \cup Identities(p)
         /\ last' = [pact |-> p, ok |-> TRUE]
<1> DEFINE U == Universe(format)
<1>1. Uniform(U) /\ p \in Seq(U) /\ Ascending(format, p) /\ U \in SUBSET Interaction
  BY UniverseIsUniform DEF MergeInv, Uniform
<1>2. pact \in Seq(U) /\ Ascending(format, pact) /\ writes \in Nat /\ (writes = 0 => pact = <<>>)
  BY DEF MergeInv
<1>3. /\ last' = [pact |-> p, ok |-> TRUE]
      /\ pact' = Serialised(IF writes > 0 THEN MergeJoin(p, pact) ELSE p)
      /\ written' = written \cup Identities(p)
  BY DEF WritePact
<1> HIDE DEF U
<1>4. CASE writes > 0
  <2>1. /\ MergeJoin(p, pact) \in Seq(U) /\ Ascending(format, MergeJoin(p, pact))
        /\ Items(MergeJoin(p, pact)) = KeptUpTo(format, p, pact, Len(p), Len(pact))
    BY <1>1, <1>2, MergeJoinIsMerge
  <2>2. pact' = MergeJoin(p, pact)
    BY <1>1, <1>3, <1>4, <2>1, SerialisedKeeps
  <2> QED
    BY <1>3, <2>1, <2>2 DEF U
<1>5. CASE writes = 0
  <2>1. pact' = p
    BY <1>1, <1>3, <1>5, SerialisedKeeps
  <2>2. Items(p) = KeptUpTo(format, p, <<>>, Len(p), Len(<<>>))
    <3>1. DOMAIN p = 1 .. Len(p) /\ 1 .. Len(<<>>) = {} /\ DOMAIN <<>> = {}
      BY <1>1
    <3>2. \A n \in DOMAIN p : KeptOfSelf(format, p, <<>>, n)
      BY <3>1 DEF KeptOfSelf
    <3> QED
      BY <3>1, <3>2 DEF Items, KeptUpTo
  <2> QED
    BY <1>1, <1>2, <1>3, <1>5, <2>1, <2>2 DEF U
<1> QED
  BY <1>2, <1>4, <1>5

LEMMA MergeInvInit == ASSUME Init PROVE MergeInv
<1>1. Identities(<<>>) = {}
  BY DEF Identities
<1>2. <<>> \in Seq(Universe(format)) /\ Ascending(format, <<>>)
  BY DEF Ascending
<1> QED
  BY <1>1, <1>2, MergeAssumption DEF Init, MergeInv

LEMMA MergeInvNext ==
  ASSUME MergeInv, Mergeable(format, Inputs[format]), [Next]_vars
  PROVE  MergeInv'
<1>1. CASE UNCHANGED vars
  BY <1>1 DEF MergeInv, vars, Identities, Identity
<1>2. ASSUME NEW p \in Inputs[format], WritePact(p) PROVE MergeInv'
  <2>1. /\ format' = format /\ writes' \in 0 .. MaxWrites /\ writes' # 0
        /\ format \in DOMAIN Inputs /\ writes \in Nat
    BY <1>2, MergeAssumption DEF WritePact, MergeInv
  <2>2. CASE ~last'.ok
    <3>1. UNCHANGED <<pact, written>> /\ last'.ok = FALSE
      BY <1>2, <2>2 DEF WritePact
    <3> QED
      BY <2>1, <3>1 DEF MergeInv, Identities, Identity
  <2>3. CASE last'.ok
    <3>1. /\ pact' \in Seq(Universe(format)) /\ Ascending(format, pact')
          /\ Items(pact') = KeptUpTo(format, p, pact, Len(p), Len(pact))
          /\ written' = written \cup Identities(p)
          /\ last' = [pact |-> p, ok |-> TRUE]
      BY <1>2, <2>3, WriteMerges
    <3>2. p \in Seq(Universe(format)) /\ pact \in Seq(Universe(format))
      BY <2>1, UniverseIsUniform DEF MergeInv
    <3> DEFINE kept == KeptUpTo(format, p, pact, Len(p), Len(pact))
    <3>3. /\ format = "v4" => Items(p) \subseteq kept
          /\ \A x \in Items(p) : \/ x \in kept
                                 \/ \E y \in Items(pact) : y \in kept /\ Same(format, x, y)
          /\ \A y \in Items(pact) : \/ y \in kept
                                    \/ \E x \in Items(p) : x \in kept /\ Same(format, x, y)
      BY <3>2, KeptHasBoth
    <3> HIDE DEF kept
    <3>4. Items(pact') = kept
      BY <3>1 DEF kept
    <3>5. \A x \in Items(p) : \E y \in kept : Same(format, x, y) /\ (format = "v4" => y = x)
      BY <3>3 DEF Same
    <3>6. \A z \in Items(pact) \cup Items(p) : \E y \in kept : Identity(y) = Identity(z)
      BY <3>3, <3>5, SameIsIdentity DEF Identity
    <3>7. Identities(pact)' = {Identity(x) : x \in kept}
      BY <2>1, <3>4 DEF Identities, Identity, Items
    <3>8. written' \subseteq Identities(pact)'
      <4>1. written \subseteq Identities(pact)
        BY DEF MergeInv
      <4> QED
        BY <3>1, <3>6, <3>7, <4>1, IdentitiesOfItems
    <3>9. last'.ok = TRUE /\ last'.pact = p
      BY <3>1
    <3> QED
      BY <2>1, <3>1, <3>4, <3>5, <3>8, <3>9 DEF MergeInv
  <2> QED
    BY <2>2, <2>3
<1> QED
  BY <1>1, <1>2 DEF Next

\* Every pact that is written is in order (Mergeable).
InputsMergeable == \A f \in DOMAIN Inputs : Mergeable(f, Inputs[f])

\* The file is in order and has all that was ever written (write_pact without
\* overwrite, time after time).
THEOREM MergeInvariant ==
  ASSUME InputsMergeable
  PROVE  Spec => []MergeInv
<1>1. Init => MergeInv
  BY MergeInvInit
<1>2. MergeInv /\ [Next]_vars => MergeInv'
  <2> SUFFICES ASSUME MergeInv, [Next]_vars PROVE MergeInv'
    OBVIOUS
  <2>1. Mergeable(format, Inputs[format])
    BY DEF MergeInv, InputsMergeable
  <2> QED
    BY <2>1, MergeInvNext
<1> QED
  BY <1>1, <1>2, PTL DEF Spec

-----------------------------------------------------------------------------
(* What follows.                                                           *)

LEMMA ItemsOfFile ==
  ASSUME MergeInv, InputsMergeable
  PROVE  /\ Uniform(Universe(format))
         /\ \A i \in DOMAIN pact : pact[i] \in Universe(format) /\ pact[i] \in Interaction
<1>1. Uniform(Universe(format)) /\ pact \in Seq(Universe(format))
  BY UniverseIsUniform DEF MergeInv, InputsMergeable
<1> QED
  BY <1>1 DEF Uniform

\* After any number of writes of any pacts that are in order, the file has all
\* that was written, each interaction once, in order: V4Pact::merge and the two
\* V3 merges, as write_pact applies them.
THEOREM FileSound ==
  ASSUME InputsMergeable
  PROVE  Spec => []FileIsSound
<1>1. MergeInv => FileIsSound
  <2> SUFFICES ASSUME MergeInv PROVE FileIsSound
    OBVIOUS
  <2>1. /\ Uniform(Universe(format)) /\ DOMAIN pact = 1 .. Len(pact) /\ Len(pact) \in Nat
        /\ \A i \in DOMAIN pact : pact[i] \in Universe(format) /\ pact[i] \in Interaction
    BY ItemsOfFile DEF MergeInv
  <2>2. TypeOK
    <3>1. ASSUME NEW i \in DOMAIN pact
          PROVE  \E p \in Inputs[format] : Identity(pact[i]) \in Identities(p)
      BY <2>1 DEF Universe, Items, Identities
    <3>2. Identities(pact) \subseteq UNION {Identities(p) : p \in Inputs[format]}
      BY <3>1 DEF Identities
    <3> QED
      BY <3>2 DEF TypeOK, MergeInv
  <2>3. NothingLost
    BY DEF NothingLost, MergeInv
  <2>4. NoDuplicates
    <3> SUFFICES ASSUME NEW i \in DOMAIN pact, NEW j \in DOMAIN pact, i # j
                 PROVE  Identity(pact[i]) # Identity(pact[j])
      BY DEF NoDuplicates
    <3>1. Before(format, pact[i], pact[j]) \/ Before(format, pact[j], pact[i])
      BY <2>1 DEF MergeInv, Ascending
    <3>2. ~Same(format, pact[i], pact[j])
      BY <2>1, <3>1, BeforeIsStrict
    <3> QED
      BY <3>2, SameIsIdentity DEF Identity
  <2>5. MergeSorts
    <3> SUFFICES ASSUME NEW i \in 1 .. Len(pact) - 1
                 PROVE  Then(Cmp(pact[i].desc, pact[i + 1].desc),
                             CmpSeq(pact[i].states, pact[i + 1].states)) # "greater"
      BY DEF MergeSorts
    <3> DEFINE x == pact[i]
               y == pact[i + 1]
    <3>1. i \in DOMAIN pact /\ i + 1 \in DOMAIN pact /\ i < i + 1
      BY <2>1
    <3>2. x \in Interaction /\ y \in Interaction /\ Before(format, x, y)
      BY <2>1, <3>1 DEF MergeInv, Ascending
    <3> HIDE DEF x, y
    <3>3. /\ x.desc \in Nat /\ x.states \in Seq(Nat) /\ y.desc \in Nat /\ y.states \in Seq(Nat)
      BY <3>2, FieldsOfInteraction
    <3>4. /\ StatesBefore(x.states, y.states) => CmpSeq(x.states, y.states) = "less"
          /\ x.states = y.states => CmpSeq(x.states, y.states) = "equal"
      BY <3>3, CmpSeqIsOrder
    <3>5. Then(Cmp(x.desc, y.desc), CmpSeq(x.states, y.states)) # "greater"
      BY <3>2, <3>3, <3>4 DEF Before, Then, Cmp
    <3> QED
      BY <3>5 DEF x, y
  <2> QED
    BY <2>2, <2>3, <2>4, <2>5 DEF FileIsSound
<1> QED
  BY <1>1, MergeInvariant, PTL

\* Writing the same pact twice in a row leaves the file as the first write left
\* it, whatever the pact and however long the file: a V4 merge finds all of the
\* pact in the file as it is, a V3 merge keeps what the file has.
THEOREM RewriteChangesNothing ==
  ASSUME InputsMergeable
  PROVE  Spec => RewriteIsIdempotent
<1>1. MergeInv /\ [Next]_vars =>
        [last'.ok /\ last.ok /\ writes > 0 /\ last'.pact = last.pact => pact' = pact]_vars
  <2> SUFFICES ASSUME MergeInv, NEW p \in Inputs[format], WritePact(p),
                      last'.ok, last.ok, writes > 0, last'.pact = last.pact
               PROVE  pact' = pact
    BY DEF Next
  <2>1. /\ pact' \in Seq(Universe(format)) /\ Ascending(format, pact')
        /\ Items(pact') = KeptUpTo(format, p, pact, Len(p), Len(pact))
        /\ last'.pact = p
    BY WriteMerges DEF MergeInv, InputsMergeable
  <2>2. /\ Uniform(Universe(format)) /\ p \in Seq(Universe(format))
        /\ pact \in Seq(Universe(format)) /\ Ascending(format, pact)
        /\ \A x \in Items(p) : \E y \in Items(pact) :
             Same(format, x, y) /\ (format = "v4" => y = x)
    BY <2>1, UniverseIsUniform DEF MergeInv, InputsMergeable
  <2>3. Universe(format) \in SUBSET Interaction
    BY <2>2 DEF Uniform
  <2>4. \A y, z \in Items(pact) : Same(format, y, z) => y = z
    BY <2>2, <2>3, AscendingDistinct
  <2> DEFINE kept == KeptUpTo(format, p, pact, Len(p), Len(pact))
  <2>5. kept = Items(pact)
    <3>1. CASE format = "v4"
      <4>1. Items(p) \subseteq Items(pact) /\ Items(p) \subseteq kept
        BY <2>2, <3>1, KeptHasBoth
      <4>2. kept \subseteq Items(pact)
        BY <2>2, <4>1, KeptHasBoth
      <4>3. ASSUME NEW y \in Items(pact) PROVE y \in kept
        <5>1. y \in kept \/ \E x \in Items(p) : x \in kept /\ Same(format, x, y)
          BY <2>2, KeptHasBoth
        <5> QED
          BY <2>4, <4>1, <5>1
      <4> QED
        BY <4>2, <4>3
    <3>2. CASE format # "v4"
      <4>1. Items(pact) \subseteq kept
        BY <2>2, <3>2, KeptHasBoth
      <4>2. kept \subseteq Items(pact)
        <5>1. \A n \in DOMAIN p : ~KeptOfSelf(format, p, pact, n)
          BY <2>2, <3>2 DEF KeptOfSelf, Items
        <5>2. DOMAIN p = 1 .. Len(p) /\ DOMAIN pact = 1 .. Len(pact)
          BY <2>2
        <5> QED
          BY <5>1, <5>2 DEF KeptUpTo, Items
      <4> QED
        BY <4>1, <4>2
    <3> QED
      BY <3>1, <3>2
  <2> HIDE DEF kept
  <2>6. Items(pact') = Items(pact)
    BY <2>1, <2>5 DEF kept
  <2> QED
    BY <2>1, <2>2, <2>3, <2>6, AscendingUnique
<1> QED
  BY <1>1, MergeInvariant, PTL DEF Spec, RewriteIsIdempotent

\* What a write leaves of the pact that is written: a V4 merge has its own
\* interactions as they are, the V3 merges those that the file did not have.
THEOREM RightOneWins ==
  ASSUME InputsMergeable
  PROVE  Spec => WhoWins
<1> DEFINE Won == \A i \in DOMAIN last'.pact :
                    LET new == last'.pact[i] IN
                    last'.ok => \E j \in DOMAIN pact' :
                      /\ Identity(pact'[j]) = Identity(new)
                      /\ pact'[j] = new \/ (format # "v4" /\ Contains(pact, pact'[j]))
<1>1. MergeInv /\ [Next]_vars => [Won]_vars
  <2> SUFFICES ASSUME MergeInv, NEW p \in Inputs[format], WritePact(p), last'.ok,
                      NEW x \in Items(last'.pact)
               PROVE  \E j \in DOMAIN pact' :
                        /\ Identity(pact'[j]) = Identity(x)
                        /\ pact'[j] = x \/ (format # "v4" /\ Contains(pact, pact'[j]))
    BY DEF Next, Items
  <2>1. /\ Items(pact') = KeptUpTo(format, p, pact, Len(p), Len(pact))
        /\ last'.pact = p
    BY WriteMerges DEF MergeInv, InputsMergeable
  <2>2. p \in Seq(Universe(format)) /\ pact \in Seq(Universe(format))
    BY UniverseIsUniform DEF MergeInv, InputsMergeable
  <2> DEFINE kept == KeptUpTo(format, p, pact, Len(p), Len(pact))
  <2>3. /\ format = "v4" => Items(p) \subseteq kept
        /\ x \in kept \/ \E y \in Items(pact) : y \in kept /\ Same(format, x, y)
    BY <2>1, <2>2, KeptHasBoth
  <2> HIDE DEF kept
  <2>4. PICK y \in kept : /\ Same(format, x, y)
                          /\ y = x \/ (format # "v4" /\ y \in Items(pact))
    BY <2>1, <2>3 DEF Same
  <2>5. PICK j \in DOMAIN pact' : pact'[j] = y
    BY <2>1 DEF Items, kept
  <2>6. y \in Items(pact) => Contains(pact, y)
    <3>1. DOMAIN pact = 1 .. Len(pact)
      BY <2>2
    <3> QED
      BY <3>1 DEF Items, Contains
  <2>7. Identity(y) = Identity(x)
    BY <2>4, SameIsIdentity DEF Identity
  <2> QED
    BY <2>4, <2>5, <2>6, <2>7
<1> HIDE DEF Won
<1>2. Spec => [][Won]_vars
  BY <1>1, MergeInvariant, PTL DEF Spec
<1> QED
  BY <1>2 DEF Won, WhoWins

-----------------------------------------------------------------------------
(* The list is a store of contents, as PactFile takes it to be.            *)

LEMMA ContentHas ==
  ASSUME NEW f, NEW I \in SUBSET Interaction, NEW s \in Seq(I), Ascending(f, s),
         NEW x \in Items(s)
  PROVE  IdentityOf(f, x) \in DOMAIN ContentOf(f, s) /\ ContentOf(f, s)[IdentityOf(f, x)] = x
<1>1. \A y \in Items(s) : IdentityOf(f, y) = IdentityOf(f, x) => y = x
  BY AscendingDistinct, SameIsIdentity
<1>2. (CHOOSE y \in Items(s) : IdentityOf(f, y) = IdentityOf(f, x)) = x
  BY <1>1
<1> QED
  BY <1>2 DEF ContentOf

LEMMA ContentDomain ==
  ASSUME NEW f, NEW s
  PROVE  DOMAIN ContentOf(f, s) = {IdentityOf(f, x) : x \in Items(s)}
BY DEF ContentOf

\* The merge of two lists is the merge of their contents.
LEMMA ContentOfMerge ==
  ASSUME NEW f \in DOMAIN Inputs, NEW I \in SUBSET Interaction,
         NEW self \in Seq(I), NEW other \in Seq(I), NEW both \in Seq(I),
         Ascending(f, self), Ascending(f, other), Ascending(f, both),
         Items(both) = KeptUpTo(f, self, other, Len(self), Len(other))
  PROVE  ContentOf(f, both) = Store(f)!Merge(ContentOf(f, self), ContentOf(f, other))
<1> DEFINE S == ContentOf(f, self)
           O == ContentOf(f, other)
           B == ContentOf(f, both)
           Ours(k) == k \in DOMAIN S /\ (f = "v4" \/ k \notin DOMAIN O)
<1>1. /\ f = "v4" => Items(self) \subseteq Items(both)
      /\ f # "v4" => Items(other) \subseteq Items(both)
      /\ Items(both) \subseteq Items(self) \cup Items(other)
      /\ \A x \in Items(self) : \/ x \in Items(both)
                                \/ \E y \in Items(other) : y \in Items(both) /\ Same(f, x, y)
      /\ \A y \in Items(other) : \/ y \in Items(both)
                                 \/ \E x \in Items(self) : x \in Items(both) /\ Same(f, x, y)
  BY KeptHasBoth
<1>2. /\ DOMAIN S = {IdentityOf(f, x) : x \in Items(self)}
      /\ DOMAIN O = {IdentityOf(f, x) : x \in Items(other)}
      /\ DOMAIN B = {IdentityOf(f, x) : x \in Items(both)}
  BY ContentDomain
<1>3. DOMAIN B = DOMAIN S \cup DOMAIN O
  BY <1>1, <1>2, SameIsIdentity
<1>4. ASSUME NEW k \in DOMAIN B PROVE B[k] = IF Ours(k) THEN S[k] ELSE O[k]
  <2>1. CASE Ours(k)
    <3>1. PICK x \in Items(self) : k = IdentityOf(f, x)
      BY <1>2, <2>1
    <3>2. x \in Items(both)
      <4>1. ASSUME NEW y \in Items(other) PROVE f = "v4" \/ ~Same(f, x, y)
        BY <1>2, <2>1, <3>1, SameIsIdentity
      <4> QED
        BY <1>1, <4>1
    <3>3. S[k] = x /\ B[k] = x
      BY <3>1, <3>2, ContentHas
    <3> HIDE DEF S, O, B
    <3> QED
      BY <2>1, <3>3
  <2>2. CASE ~Ours(k)
    <3>1. k \in DOMAIN O
      BY <1>3, <2>2
    <3>2. PICK y \in Items(other) : k = IdentityOf(f, y)
      BY <1>2, <3>1
    <3>3. y \in Items(both)
      <4>1. ASSUME f = "v4", NEW x \in Items(self) PROVE ~Same(f, x, y)
        BY <1>2, <2>2, <3>2, <4>1, SameIsIdentity
      <4> QED
        BY <1>1, <4>1
    <3>4. O[k] = y /\ B[k] = y
      BY <3>2, <3>3, ContentHas
    <3> HIDE DEF S, O, B
    <3> QED
      BY <2>2, <3>4
  <2> QED
    BY <2>1, <2>2
<1>5. B = [k \in DOMAIN B |-> B[k]]
  BY DEF ContentOf
<1>6. Store(f)!Merge(S, O) = [k \in DOMAIN S \cup DOMAIN O |-> IF Ours(k) THEN S[k] ELSE O[k]]
  BY DEF Store!Merge
<1> HIDE DEF S, O, B, Ours
<1>7. B = Store(f)!Merge(S, O)
  BY <1>3, <1>4, <1>5, <1>6
<1> QED
  BY <1>7 DEF S, O, B

\* A pact file of any number of interactions that is written without overwrite
\* is the store of PactStore, which PactFile implements too: a write stores the
\* merge of two contents, or is refused and changes nothing.
THEOREM MergeImplementsStore ==
  ASSUME InputsMergeable, NEW f \in DOMAIN Inputs
  PROVE  Spec /\ format = f => Store(f)!StoreSpec
<1> DEFINE bar == IF writes = 0 THEN NoPact ELSE ContentOf(f, pact)
<1>1. Init => bar = NoPact
  BY DEF Init
<1>2. MergeInv /\ format = f /\ [Next]_vars => [Store(f)!StoreNext]_bar /\ (format = f)'
  <2> SUFFICES ASSUME MergeInv, format = f, [Next]_vars
               PROVE  [Store(f)!StoreNext]_bar /\ (format = f)'
    OBVIOUS
  <2>1. CASE UNCHANGED vars
    BY <2>1 DEF vars
  <2>2. ASSUME NEW p \in Inputs[f], WritePact(p)
        PROVE  [Store(f)!StoreNext]_bar /\ (format = f)'
    <3> DEFINE U == Universe(f)
               P == ContentOf(f, p)
               O == ContentOf(f, pact)
    <3>1. /\ format' = f /\ writes \in Nat /\ bar' = ContentOf(f, pact')
          /\ writes # 0 => bar = O
          /\ writes = 0 => bar = NoPact /\ pact = <<>>
      <4>1. format' = f /\ writes' = writes + 1 /\ writes \in Nat /\ (writes = 0 => pact = <<>>)
        BY <2>2, MergeAssumption DEF WritePact, MergeInv
      <4>2. writes' # 0
        BY <4>1
      <4> QED
        BY <4>1, <4>2
    <3> HIDE DEF bar
    <3>2. /\ Uniform(U) /\ U \in SUBSET Interaction
          /\ p \in Seq(U) /\ Ascending(f, p)
          /\ pact \in Seq(U) /\ Ascending(f, pact)
      BY UniverseIsUniform DEF MergeInv, InputsMergeable, Uniform
    <3>3. CASE ~last'.ok
      <4>1. writes # 0 /\ pact' = pact
        BY <2>2, <3>3 DEF WritePact
      <4>2. bar' = bar
        BY <3>1, <4>1
      <4> QED
        BY <3>1, <4>2
    <3>4. CASE last'.ok
      <4>1. /\ pact' \in Seq(U) /\ Ascending(f, pact')
            /\ Items(pact') = KeptUpTo(f, p, pact, Len(p), Len(pact))
        BY <2>2, <3>4, WriteMerges DEF InputsMergeable
      <4>2. ContentOf(f, pact') = Store(f)!Merge(P, O)
        BY <3>2, <4>1, ContentOfMerge
      <4>3. CASE writes = 0
        <5>1. bar = NoPact
          BY <3>1, <4>3
        <5>2. pact' = p
          BY <2>2, <3>2, <3>4, <4>3, SerialisedKeeps DEF WritePact
        <5>3. bar' = [w \in Inputs[f] |-> ContentOf(f, w)][p]
          BY <3>1, <5>2
        <5>4. Store(f)!First(p)
          BY <5>1, <5>3 DEF Store!First, bar
        <5> QED
          BY <3>1, <5>4 DEF Store!StoreNext, bar
      <4>4. CASE writes > 0
        <5>1. bar = O
          <6>1. writes # 0
            BY <4>4
          <6> HIDE DEF O
          <6> QED
            BY <3>1, <6>1
        <5>2. O \in Store(f)!Pact
          <6>1. \A x \in Items(pact) : x \in U
            BY <3>2 DEF Items
          <6>2. O \in [{IdentityOf(f, x) : x \in Items(pact)} -> U]
            BY <6>1 DEF ContentOf
          <6>3. {IdentityOf(f, x) : x \in Items(pact)} \subseteq {IdentityOf(f, x) : x \in U}
            BY <6>1
          <6> QED
            BY <6>2, <6>3 DEF Store!Pact
        <5>3. ~Store(f)!MergeConflict(P, O)
          <6> SUFFICES ASSUME Store(f)!MergeConflict(P, O) PROVE FALSE
            OBVIOUS
          <6>1. PICK k \in DOMAIN P \cap DOMAIN O : f = "http" /\ P[k].what # O[k].what
            BY DEF Store!MergeConflict
          <6>d. /\ DOMAIN P = {IdentityOf(f, x) : x \in Items(p)}
                /\ DOMAIN O = {IdentityOf(f, y) : y \in Items(pact)}
            BY ContentDomain
          <6>c. /\ \A x \in Items(p) : P[IdentityOf(f, x)] = x
                /\ \A y \in Items(pact) : O[IdentityOf(f, y)] = y
            BY <3>2, ContentHas
          <6> HIDE DEF P, O
          <6>2. PICK x \in Items(p) : k = IdentityOf(f, x)
            BY <6>1, <6>d
          <6>3. PICK y \in Items(pact) : k = IdentityOf(f, y)
            BY <6>1, <6>d
          <6>4. P[k] = x /\ O[k] = y
            BY <6>c, <6>2, <6>3
          <6>5. x.desc = y.desc /\ x.states = y.states /\ x.what # y.what
            <7>1. Same(f, x, y)
              BY <6>2, <6>3, SameIsIdentity
            <7> QED
              BY <6>1, <6>4, <7>1 DEF Same
          <6>6. Conflict(p, pact)
            BY <6>1, <6>5 DEF Conflict, Items
          <6> QED
            BY <2>2, <3>4, <4>4, <6>6 DEF WritePact
        <5>4. bar' = Store(f)!Merge([w \in Inputs[f] |-> ContentOf(f, w)][p], bar)
          BY <3>1, <4>2, <5>1
        <5>5. Store(f)!Add(p)
          BY <5>1, <5>2, <5>3, <5>4 DEF Store!Add, bar
        <5> QED
          BY <3>1, <5>5 DEF Store!StoreNext, bar
      <4>5. writes = 0 \/ writes > 0
        BY DEF MergeInv
      <4> QED
        BY <4>3, <4>4, <4>5
    <3> QED
      BY <3>3, <3>4
  <2>3. UNCHANGED vars \/ \E p \in Inputs[f] : WritePact(p)
    BY DEF Next
  <2> HIDE DEF bar
  <2> QED
    BY <2>1, <2>2, <2>3
<1> HIDE DEF bar
<1>3. Spec /\ format = f => (bar = NoPact) /\ [][Store(f)!StoreNext]_bar
  BY <1>1, <1>2, MergeInvariant, PTL DEF Spec
<1> QED
  BY <1>3 DEF bar, Store!StoreSpec
=============================================================================
