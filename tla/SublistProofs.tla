--------------------------- MODULE SublistProofs ---------------------------
(***************************************************************************)
(* What Within keeps, for lists of any length.  The library's induction    *)
(* theorems are about operators; here induction over the naturals is a     *)
(* fact about sets, from the well-foundedness of the order.                *)
(***************************************************************************)
EXTENDS Sublists, Integers, TLAPS, WellFoundedInduction

\* A set of naturals that is not empty has a least element.
LEMMA LeastNatural ==
  ASSUME NEW T, T \subseteq Nat, T # {}
  PROVE  \E x \in T : \A y \in T : x <= y
<1>1. \E x \in T : \A y \in T : <<y, x>> \notin OpToRel(<, Nat)
  BY NatLessThanWellFounded, WFMin
<1>2. PICK x \in T : \A y \in T : <<y, x>> \notin OpToRel(<, Nat)
  BY <1>1
<1>3. \A y \in T : ~(y < x)
  BY <1>2 DEF OpToRel
<1> QED
  BY <1>3

\* Induction, about the set of the numbers for which the claim holds.
LEMMA InductionOverNat ==
  ASSUME NEW T, 0 \in T, \A n \in Nat : n \in T => n + 1 \in T
  PROVE  Nat \subseteq T
<1> SUFFICES ASSUME Nat \ T # {} PROVE FALSE
  OBVIOUS
<1>1. PICK x \in Nat \ T : \A y \in Nat \ T : x <= y
  BY LeastNatural
<1>2. x - 1 \in Nat /\ x - 1 \in T
  BY <1>1
<1> QED
  BY <1>1, <1>2

-----------------------------------------------------------------------------
\* One more item of the list is looked at.
Longer(kept, list, S, n) ==
  IF list[n] \in S THEN Append(kept[n - 1], list[n]) ELSE kept[n - 1]

\* kept[n] is what is kept of the first n items, up to m.
KeepsUpTo(kept, list, S, m) ==
  kept = [n \in 0 .. m |-> IF n = 0 THEN <<>> ELSE Longer(kept, list, S, n)]

\* There is such a function, whatever the list.
LEMMA KeepsUpToExists ==
  ASSUME NEW X, NEW list \in Seq(X), NEW S
  PROVE  \E kept : KeepsUpTo(kept, list, S, Len(list))
<1> DEFINE T == {m \in Nat : m <= Len(list) => \E kept : KeepsUpTo(kept, list, S, m)}
<1>1. 0 \in T
  <2>1. KeepsUpTo([n \in 0 .. 0 |-> <<>>], list, S, 0)
    BY DEF KeepsUpTo
  <2> QED
    BY <2>1
<1>2. ASSUME NEW m \in Nat, m \in T PROVE m + 1 \in T
  <2> SUFFICES ASSUME m + 1 <= Len(list)
               PROVE  \E kept : KeepsUpTo(kept, list, S, m + 1)
    OBVIOUS
  <2>1. PICK g : KeepsUpTo(g, list, S, m)
    BY <1>2
  <2> DEFINE h == [n \in 0 .. m + 1 |-> IF n = m + 1 THEN Longer(g, list, S, n) ELSE g[n]]
  <2>2. ASSUME NEW n \in 0 .. m + 1
        PROVE  h[n] = IF n = 0 THEN <<>> ELSE Longer(h, list, S, n)
    <3>1. CASE n = m + 1
      <4>1. h[n] = Longer(g, list, S, n) /\ h[n - 1] = g[n - 1] /\ n # 0
        BY <3>1
      <4> HIDE DEF h
      <4> QED
        BY <4>1 DEF Longer
    <3>2. CASE n \in 0 .. m
      <4>1. h[n] = g[n] /\ (n # 0 => h[n - 1] = g[n - 1])
        BY <3>2
      <4>2. g[n] = IF n = 0 THEN <<>> ELSE Longer(g, list, S, n)
        BY <2>1, <3>2 DEF KeepsUpTo
      <4> HIDE DEF h
      <4> QED
        BY <4>1, <4>2 DEF Longer
    <3> QED
      BY <3>1, <3>2
  <2>3. h = [n \in 0 .. m + 1 |-> h[n]]
    OBVIOUS
  <2> HIDE DEF h
  <2>4. KeepsUpTo(h, list, S, m + 1)
    BY <2>2, <2>3 DEF KeepsUpTo
  <2> QED
    BY <2>4
<1> HIDE DEF T
<1>3. Len(list) \in T
  BY <1>1, <1>2, InductionOverNat
<1> QED
  BY <1>3 DEF T

\* So Within is the last value of such a function.
LEMMA WithinKeeps ==
  ASSUME NEW X, NEW list \in Seq(X), NEW S
  PROVE  \E kept : /\ KeepsUpTo(kept, list, S, Len(list))
                   /\ Within(list, S) = kept[Len(list)]
<1> DEFINE kept == CHOOSE g : KeepsUpTo(g, list, S, Len(list))
<1>1. KeepsUpTo(kept, list, S, Len(list))
  BY KeepsUpToExists
<1>2. Within(list, S) = kept[Len(list)]
  BY DEF Within, KeepsUpTo, Longer
<1> QED
  BY <1>1, <1>2

\* The items kept are items of the list that are in S, and all of those.
LEMMA WithinIsList ==
  ASSUME NEW X, NEW list \in Seq(X), NEW S
  PROVE  /\ Within(list, S) \in Seq(X \cap S)
         /\ Len(Within(list, S)) <= Len(list)
         /\ \A j \in DOMAIN list : list[j] \in S =>
              \E k \in DOMAIN Within(list, S) : Within(list, S)[k] = list[j]
<1>1. PICK kept : /\ KeepsUpTo(kept, list, S, Len(list))
                  /\ Within(list, S) = kept[Len(list)]
  BY WithinKeeps
<1>k. /\ kept[0] = <<>>
      /\ \A n \in 0 .. Len(list) : n # 0 => kept[n] = Longer(kept, list, S, n)
  BY <1>1 DEF KeepsUpTo
<1> DEFINE Good(n) == /\ kept[n] \in Seq(X \cap S)
                      /\ Len(kept[n]) <= n
                      /\ \A j \in 1 .. n : list[j] \in S =>
                           \E k \in DOMAIN kept[n] : kept[n][k] = list[j]
           T == {n \in Nat : n <= Len(list) => Good(n)}
<1>2. 0 \in T
  <2>1. <<>> \in Seq(X \cap S) /\ Len(<<>>) = 0
    OBVIOUS
  <2>2. Good(0)
    BY <1>k, <2>1
  <2> QED
    BY <2>2
<1>3. ASSUME NEW n \in Nat, n \in T PROVE n + 1 \in T
  <2> SUFFICES ASSUME n + 1 <= Len(list) PROVE Good(n + 1)
    OBVIOUS
  <2>1. Good(n)
    BY <1>3
  <2>2. kept[n + 1] = IF list[n + 1] \in S THEN Append(kept[n], list[n + 1]) ELSE kept[n]
    <3>1. n + 1 \in 0 .. Len(list) /\ n + 1 # 0 /\ (n + 1) - 1 = n
      OBVIOUS
    <3>2. kept[n + 1] = Longer(kept, list, S, n + 1)
      BY <1>k, <3>1
    <3> QED
      BY <3>1, <3>2 DEF Longer
  <2>3. list[n + 1] \in X
    OBVIOUS
  <2>4. CASE list[n + 1] \notin S
    BY <2>1, <2>2, <2>4
  <2>5. CASE list[n + 1] \in S
    <3>1. kept[n + 1] = Append(kept[n], list[n + 1]) /\ list[n + 1] \in X \cap S
      BY <2>2, <2>3, <2>5
    <3>2. /\ kept[n + 1] \in Seq(X \cap S)
          /\ Len(kept[n + 1]) = Len(kept[n]) + 1
          /\ kept[n + 1][Len(kept[n]) + 1] = list[n + 1]
          /\ \A k \in 1 .. Len(kept[n]) : kept[n + 1][k] = kept[n][k]
      BY <2>1, <3>1
    <3>3. ASSUME NEW j \in 1 .. n + 1, list[j] \in S
          PROVE  \E k \in DOMAIN kept[n + 1] : kept[n + 1][k] = list[j]
      <4>1. CASE j = n + 1
        BY <2>1, <3>2, <4>1
      <4>2. CASE j \in 1 .. n
        <5>1. PICK k \in DOMAIN kept[n] : kept[n][k] = list[j]
          BY <2>1, <3>3, <4>2
        <5>2. k \in 1 .. Len(kept[n]) /\ DOMAIN kept[n + 1] = 1 .. Len(kept[n]) + 1
          BY <2>1, <3>2, <5>1
        <5>3. k \in DOMAIN kept[n + 1] /\ kept[n + 1][k] = list[j]
          BY <3>2, <5>1, <5>2
        <5> QED
          BY <5>3
      <4> QED
        BY <4>1, <4>2
    <3> QED
      BY <2>1, <3>2, <3>3
  <2> QED
    BY <2>4, <2>5
<1> HIDE DEF T
<1>4. Len(list) \in T
  BY <1>2, <1>3, InductionOverNat
<1>5. Good(Len(list))
  BY <1>4 DEF T
<1> QED
  BY <1>1, <1>5

-----------------------------------------------------------------------------
\* Every list comes from the empty one, item by item.
LEMMA InductionOverLists ==
  ASSUME NEW X, NEW T, <<>> \in T,
         \A list \in Seq(X) : \A x \in X : list \in T => Append(list, x) \in T
  PROVE  Seq(X) \subseteq T
<1> DEFINE U == {n \in Nat : \A list \in Seq(X) : Len(list) = n => list \in T}
<1>1. 0 \in U
  <2>1. \A list \in Seq(X) : Len(list) = 0 => list = <<>>
    OBVIOUS
  <2> QED
    BY <2>1
<1>2. ASSUME NEW n \in Nat, n \in U PROVE n + 1 \in U
  <2> SUFFICES ASSUME NEW list \in Seq(X), Len(list) = n + 1 PROVE list \in T
    OBVIOUS
  <2> DEFINE front == [k \in 1 .. n |-> list[k]]
  <2>1. front \in Seq(X) /\ Len(front) = n /\ list[n + 1] \in X
    OBVIOUS
  <2>2. list = Append(front, list[n + 1])
    OBVIOUS
  <2> HIDE DEF front
  <2>3. front \in T
    BY <1>2, <2>1
  <2> QED
    BY <2>1, <2>2, <2>3
<1> HIDE DEF U
<1>3. Nat \subseteq U
  BY <1>1, <1>2, InductionOverNat
<1> QED
  <2> SUFFICES ASSUME NEW list \in Seq(X) PROVE list \in T
    OBVIOUS
  <2>1. Len(list) \in U
    BY <1>3
  <2> QED
    BY <2>1 DEF U

\* Nothing is kept of the empty list.
LEMMA WithinEmpty == ASSUME NEW S PROVE Within(<<>>, S) = <<>>
<1>1. <<>> \in Seq({})
  OBVIOUS
<1>2. PICK kept : KeepsUpTo(kept, <<>>, S, Len(<<>>)) /\ Within(<<>>, S) = kept[Len(<<>>)]
  BY <1>1, WithinKeeps
<1>3. Len(<<>>) = 0
  OBVIOUS
<1>4. kept[0] = <<>>
  BY <1>2, <1>3 DEF KeepsUpTo
<1> QED
  BY <1>2, <1>3, <1>4

\* One item more in the list is one item more kept, or none.
LEMMA WithinAppend ==
  ASSUME NEW X, NEW list \in Seq(X), NEW x \in X, NEW S
  PROVE  Within(Append(list, x), S) = IF x \in S THEN Append(Within(list, S), x) ELSE Within(list, S)
<1> DEFINE more == Append(list, x)
           m == Len(list)
<1>1. /\ more \in Seq(X) /\ Len(more) = m + 1 /\ m \in Nat /\ more[m + 1] = x
      /\ \A k \in 1 .. m : more[k] = list[k]
  OBVIOUS
<1>2. PICK g : KeepsUpTo(g, list, S, m) /\ Within(list, S) = g[m]
  BY WithinKeeps
<1> HIDE DEF more
<1>3. PICK h : KeepsUpTo(h, more, S, Len(more)) /\ Within(more, S) = h[Len(more)]
  BY <1>1, WithinKeeps
<1> HIDE DEF m
<1>4. /\ g[0] = <<>> /\ h[0] = <<>>
      /\ \A n \in 0 .. m : n # 0 => g[n] = Longer(g, list, S, n)
      /\ \A n \in 0 .. m + 1 : n # 0 => h[n] = Longer(h, more, S, n)
  <2>1. g[0] = <<>> /\ \A n \in 0 .. m : n # 0 => g[n] = Longer(g, list, S, n)
    BY <1>1, <1>2 DEF KeepsUpTo
  <2>2. KeepsUpTo(h, more, S, m + 1) /\ m + 1 \in Nat
    BY <1>1, <1>3
  <2>3. h[0] = <<>> /\ \A n \in 0 .. m + 1 : n # 0 => h[n] = Longer(h, more, S, n)
    BY <2>2 DEF KeepsUpTo
  <2> QED
    BY <2>1, <2>3
<1> DEFINE T == {n \in Nat : n <= m => g[n] = h[n]}
<1>5. 0 \in T
  BY <1>4
<1>6. ASSUME NEW n \in Nat, n \in T PROVE n + 1 \in T
  <2> SUFFICES ASSUME n + 1 <= m PROVE g[n + 1] = h[n + 1]
    OBVIOUS
  <2>1. g[n] = h[n] /\ n + 1 \in 1 .. m /\ (n + 1) - 1 = n /\ n + 1 # 0
        /\ n + 1 \in 0 .. m /\ n + 1 \in 0 .. m + 1
    BY <1>1, <1>6
  <2>2. g[n + 1] = Longer(g, list, S, n + 1) /\ h[n + 1] = Longer(h, more, S, n + 1)
    BY <1>4, <2>1
  <2>3. more[n + 1] = list[n + 1]
    BY <1>1, <2>1
  <2> QED
    BY <2>1, <2>2, <2>3 DEF Longer
<1> HIDE DEF T
<1>7. m \in T
  BY <1>1, <1>5, <1>6, InductionOverNat
<1>8. g[m] = h[m]
  BY <1>1, <1>7 DEF T
<1>9. h[m + 1] = Longer(h, more, S, m + 1)
  BY <1>1, <1>4
<1>10. (m + 1) - 1 = m
  BY <1>1
<1>11. h[m + 1] = IF x \in S THEN Append(g[m], x) ELSE g[m]
  BY <1>1, <1>8, <1>9, <1>10 DEF Longer
<1> QED
  BY <1>1, <1>2, <1>3, <1>11 DEF more, m

\* Keeping goes through a list part by part.
LEMMA WithinConcat ==
  ASSUME NEW X, NEW first \in Seq(X), NEW second \in Seq(X), NEW S
  PROVE  Within(first \o second, S) = Within(first, S) \o Within(second, S)
<1> DEFINE T == {t \in Seq(X) : Within(first \o t, S) = Within(first, S) \o Within(t, S)}
<1>0. Within(first, S) \in Seq(X \cap S) /\ \A t \in Seq(X) : Within(t, S) \in Seq(X \cap S)
  BY WithinIsList
<1>1. <<>> \in T
  <2>1. first \o <<>> = first /\ Within(first, S) \o <<>> = Within(first, S)
    BY <1>0
  <2>2. Within(<<>>, S) = <<>> /\ <<>> \in Seq(X)
    BY WithinEmpty
  <2> QED
    BY <2>1, <2>2
<1>2. ASSUME NEW t \in Seq(X), NEW x \in X, t \in T PROVE Append(t, x) \in T
  <2>1. first \o Append(t, x) = Append(first \o t, x) /\ first \o t \in Seq(X)
    OBVIOUS
  <2>2. Within(first \o t, S) = Within(first, S) \o Within(t, S)
    BY <1>2
  <2>3. Within(Append(first \o t, x), S)
          = IF x \in S THEN Append(Within(first \o t, S), x) ELSE Within(first \o t, S)
    BY <2>1, WithinAppend
  <2>4. Within(Append(t, x), S) = IF x \in S THEN Append(Within(t, S), x) ELSE Within(t, S)
    BY WithinAppend
  <2>5. x \in S => Append(Within(first, S) \o Within(t, S), x) = Within(first, S) \o Append(Within(t, S), x)
    <3> SUFFICES ASSUME x \in S
                 PROVE  Append(Within(first, S) \o Within(t, S), x) = Within(first, S) \o Append(Within(t, S), x)
      OBVIOUS
    <3>1. PICK Z : Z = X \cap S
      OBVIOUS
    <3>2. x \in Z /\ Within(first, S) \in Seq(Z) /\ Within(t, S) \in Seq(Z)
      BY <1>0, <3>1
    <3>3. ASSUME NEW a \in Seq(Z), NEW b \in Seq(Z)
          PROVE  Append(a \o b, x) = a \o Append(b, x)
      <4> DEFINE one   == Append(a \o b, x)
                 other == a \o Append(b, x)
      <4>1. /\ one \in Seq(Z) /\ other \in Seq(Z)
            /\ Len(one) = (Len(a) + Len(b)) + 1 /\ Len(other) = Len(a) + (Len(b) + 1)
            /\ Len(a) \in Nat /\ Len(b) \in Nat
        BY <3>2
      <4>2. Len(one) = Len(other)
        <5>1. \A m, n \in Nat : (m + n) + 1 = m + (n + 1)
          OBVIOUS
        <5> HIDE DEF one, other
        <5> QED
          BY <4>1, <5>1
      <4>3. ASSUME NEW k \in 1 .. Len(one) PROVE one[k] = other[k]
        <5>1. CASE k <= Len(a)
          BY <5>1
        <5>2. CASE k > Len(a) /\ k <= Len(a) + Len(b)
          BY <5>2
        <5>3. CASE k = (Len(a) + Len(b)) + 1
          BY <5>3
        <5>4. k <= Len(a) \/ (k > Len(a) /\ k <= Len(a) + Len(b)) \/ k = (Len(a) + Len(b)) + 1
          <6>1. \A m, n \in Nat : \A i \in 1 .. (m + n) + 1 :
                  i <= m \/ (i > m /\ i <= m + n) \/ i = (m + n) + 1
            OBVIOUS
          <6> HIDE DEF one, other, T
          <6> QED
            BY <4>1, <6>1
        <5> QED
          BY <5>1, <5>2, <5>3, <5>4
      <4> HIDE DEF one, other, T
      <4>4. one = other
        <5>1. \A p, q \in Seq(Z) : Len(p) = Len(q) /\ (\A k \in 1 .. Len(p) : p[k] = q[k]) => p = q
          OBVIOUS
        <5>2. \A k \in 1 .. Len(one) : one[k] = other[k]
          BY <4>3
        <5> QED
          BY <4>1, <4>2, <5>1, <5>2
      <4> QED
        BY <4>4 DEF one, other
    <3> QED
      BY <3>2, <3>3
  <2>6. Within(first \o Append(t, x), S) = Within(first, S) \o Within(Append(t, x), S)
    <3>1. CASE x \in S
      BY <2>1, <2>2, <2>3, <2>4, <2>5, <3>1
    <3>2. CASE x \notin S
      BY <2>1, <2>2, <2>3, <2>4, <3>2
    <3> QED
      BY <3>1, <3>2
  <2> QED
    BY <2>6
<1> HIDE DEF T
<1>3. second \in T
  BY <1>1, <1>2, InductionOverLists
<1> QED
  BY <1>3 DEF T

\* Keeping twice is keeping what is in both.
LEMMA WithinTwice ==
  ASSUME NEW X, NEW list \in Seq(X), NEW S, NEW R
  PROVE  Within(list, S \cap R) = Within(Within(list, S), R)
<1> DEFINE T == {t \in Seq(X) : Within(t, S \cap R) = Within(Within(t, S), R)}
<1>1. <<>> \in T
  BY WithinEmpty
<1>2. ASSUME NEW t \in Seq(X), NEW x \in X, t \in T PROVE Append(t, x) \in T
  <2>1. Within(t, S) \in Seq(X \cap S) /\ Within(t, S \cap R) = Within(Within(t, S), R)
    BY <1>2, WithinIsList
  <2>2. Within(Append(t, x), S \cap R)
          = IF x \in S \cap R THEN Append(Within(t, S \cap R), x) ELSE Within(t, S \cap R)
    BY WithinAppend
  <2>3. Within(Append(t, x), S) = IF x \in S THEN Append(Within(t, S), x) ELSE Within(t, S)
    BY WithinAppend
  <2>4. x \in S => Within(Append(Within(t, S), x), R)
                     = IF x \in R THEN Append(Within(Within(t, S), R), x) ELSE Within(Within(t, S), R)
    <3> SUFFICES ASSUME x \in S
                 PROVE  Within(Append(Within(t, S), x), R)
                          = IF x \in R THEN Append(Within(Within(t, S), R), x) ELSE Within(Within(t, S), R)
      OBVIOUS
    <3>1. PICK Z : Z = X \cap S
      OBVIOUS
    <3>2. x \in Z /\ Within(t, S) \in Seq(Z)
      BY <2>1, <3>1
    <3> QED
      BY <3>2, WithinAppend
  <2>5. Within(Append(t, x), S \cap R) = Within(Within(Append(t, x), S), R)
    <3>1. CASE x \in S /\ x \in R
      BY <2>1, <2>2, <2>3, <2>4, <3>1
    <3>2. CASE x \in S /\ x \notin R
      BY <2>1, <2>2, <2>3, <2>4, <3>2
    <3>3. CASE x \notin S
      BY <2>1, <2>2, <2>3, <3>3
    <3> QED
      BY <3>1, <3>2, <3>3
  <2> QED
    BY <2>5
<1> HIDE DEF T
<1>3. list \in T
  BY <1>1, <1>2, InductionOverLists
<1> QED
  BY <1>3 DEF T

\* All is kept of a list of what is wanted, and nothing of another.
LEMMA WithinAll ==
  ASSUME NEW S, NEW list \in Seq(S)
  PROVE  Within(list, S) = list
<1> DEFINE T == {t \in Seq(S) : Within(t, S) = t}
<1>1. <<>> \in T
  BY WithinEmpty
<1>2. ASSUME NEW t \in Seq(S), NEW x \in S, t \in T PROVE Append(t, x) \in T
  <2>1. Within(Append(t, x), S) = Append(Within(t, S), x)
    BY WithinAppend
  <2> QED
    BY <1>2, <2>1
<1> HIDE DEF T
<1>3. list \in T
  BY <1>1, <1>2, InductionOverLists
<1> QED
  BY <1>3 DEF T

LEMMA WithinNone ==
  ASSUME NEW S, NEW X, X \cap S = {}, NEW list \in Seq(X)
  PROVE  Within(list, S) = <<>>
<1> DEFINE T == {t \in Seq(X) : Within(t, S) = <<>>}
<1>1. <<>> \in T
  BY WithinEmpty
<1>2. ASSUME NEW t \in Seq(X), NEW x \in X, t \in T PROVE Append(t, x) \in T
  <2>1. Within(Append(t, x), S) = IF x \in S THEN Append(Within(t, S), x) ELSE Within(t, S)
    BY WithinAppend
  <2> QED
    BY <1>2, <2>1
<1> HIDE DEF T
<1>3. list \in T
  BY <1>1, <1>2, InductionOverLists
<1> QED
  BY <1>3 DEF T
=============================================================================
