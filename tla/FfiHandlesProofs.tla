--------------------------- MODULE FfiHandlesProofs ---------------------------
(***************************************************************************)
(* Proofs about the handle registry of FfiHandles, for every number of     *)
(* pacts, interactions and calls.                                          *)
(*                                                                         *)
(* A handle is a number, so that it leads anywhere at all is arithmetic:   *)
(* Numbers shows what halving a reference gives back.  The invariant says  *)
(* what a number cannot: which pact a live handle was given out for, that  *)
(* no two pacts share a birth, and that a served pact is marked as such.   *)
(*                                                                         *)
(* Indices are u16 in the code, which adds interactions without counting   *)
(* them; the theorems are about pacts of fewer interactions than that, and *)
(* say so.                                                                 *)
(***************************************************************************)
EXTENDS FfiHandles, SublistProofs

-----------------------------------------------------------------------------
(* What the registry keeps.                                                *)

PactSet ==
  [birth : Nat, started : BOOLEAN, rev : Nat, interactions : Seq(InteractionSet)]

\* Handles given out are numbers in range, older than the next birth.
HandedOut ==
  \A h \in issued :
    /\ h.ref \in 0 .. (Modulus * Modulus - 1)
    /\ h.birth \in 0 .. (serial - 1) /\ h.serial \in 0 .. (serial - 1)

\* Pacts are where their ids are, and were born at different times.
Registered ==
  /\ DOMAIN handles \subseteq PactIds
  /\ handles \in [DOMAIN handles -> PactSet]
  /\ \A id \in DOMAIN handles :
       handles[id].birth < serial /\ Len(handles[id].interactions) <= MaxInteractions
  /\ \A id, other \in DOMAIN handles : handles[id].birth = handles[other].birth => id = other

\* A handle of a pact that was not freed has the id of that pact in it.
Owned ==
  \A h \in issued : \A id \in DOMAIN handles :
    handles[id].birth = h.birth => id = PactOfRef(h.ref)

\* A mock server serves a copy of a pact that is marked as started, or freed.
Served ==
  \A port \in DOMAIN servers :
    /\ servers[port].birth \in Nat /\ servers[port].birth < serial
    /\ \A id \in DOMAIN handles :
         servers[port].birth = handles[id].birth => handles[id].started

RegistryInv ==
  /\ poisoned \in BOOLEAN /\ serial \in 0 .. MaxSerial
  /\ HandedOut /\ Registered /\ Owned /\ Served /\ HandlesResolve

-----------------------------------------------------------------------------
(* The numbers.                                                            *)

\* The halves of a reference are the id and the index that it was made of.
LEMMA Numbers ==
  ASSUME NEW id \in 0 .. (Modulus - 1), NEW index \in 0 .. (Modulus - 1)
  PROVE  /\ NewRef(id, index) \in 0 .. (Modulus * Modulus - 1)
         /\ NewRefV4(id, index) = NewRef(id, index)
         /\ PactOfRef(NewRef(id, index)) = id
         /\ IndexOfRef(NewRef(id, index)) = index
<1>1. Modulus \in Nat \ {0}
  BY ModulusAssumption
<1>2. index % Modulus = index
  BY <1>1
<1>3. id * Modulus + index \in 0 .. (Modulus * Modulus - 1)
  <2>1. id * Modulus \in Nat /\ id * Modulus <= (Modulus - 1) * Modulus
    BY <1>1
  <2>2. (Modulus - 1) * Modulus = Modulus * Modulus - Modulus
    BY <1>1
  <2> QED
    BY <1>1, <2>1, <2>2
<1>4. \A n, m \in Nat : n < m => n % m = n
  OBVIOUS
<1>5. (id * Modulus + index) % (Modulus * Modulus) = id * Modulus + index
  <2>1. Modulus * Modulus \in Nat
    BY <1>1
  <2> QED
    BY <1>3, <1>4, <2>1
<1>6. (id * Modulus + index) \div Modulus = id /\ (id * Modulus + index) % Modulus = index
  BY <1>1
<1> QED
  BY <1>2, <1>3, <1>5, <1>6 DEF NewRef, NewRefV4, PactOfRef, IndexOfRef

\* What a handle resolves to is a pact and an interaction of it.
LEMMA Resolved ==
  ASSUME Registered, NEW ref \in Nat, Found(ref)
  PROVE  /\ PactOfRef(ref) \in DOMAIN handles
         /\ Position(ref) \in DOMAIN handles[PactOfRef(ref)].interactions
         /\ Resolve(ref) \in InteractionSet
<1>1. Modulus \in Nat \ {0}
  BY ModulusAssumption
<1>2. Position(ref) \in Nat \ {0}
  BY <1>1 DEF Position, IndexOfRef
<1>3. PactOfRef(ref) \in DOMAIN handles /\ Position(ref) <= Len(handles[PactOfRef(ref)].interactions)
  BY DEF Found, Live
<1>4. handles[PactOfRef(ref)].interactions \in Seq(InteractionSet)
  BY <1>3 DEF Registered, PactSet
<1>5. Position(ref) \in 1 .. Len(handles[PactOfRef(ref)].interactions)
  BY <1>2, <1>3, <1>4
<1>6. Position(ref) \in DOMAIN handles[PactOfRef(ref)].interactions
  BY <1>4, <1>5
<1> QED
  BY <1>3, <1>4, <1>6 DEF Resolve

-----------------------------------------------------------------------------
(* Steps that change one pact.                                             *)

\* The pact with this id is changed, in a way that no handle notices.
Touches(new, id) ==
  /\ id \in DOMAIN handles /\ DOMAIN new = DOMAIN handles
  /\ new \in [DOMAIN handles -> PactSet]
  /\ \A other \in DOMAIN handles : other # id => new[other] = handles[other]
  /\ new[id].birth = handles[id].birth
  /\ handles[id].started => new[id].started
  /\ Len(new[id].interactions) <= MaxInteractions
  /\ \A k \in DOMAIN handles[id].interactions :
       /\ k \in DOMAIN new[id].interactions
       /\ new[id].interactions[k].serial \in {handles[id].interactions[k].serial, serial}

\* At most one handle is given out, for an interaction of this pact.
Issues(id) ==
  \/ UNCHANGED <<serial, issued>>
  \/ /\ serial' = serial + 1 /\ serial < MaxSerial
     /\ \E h : /\ issued' = issued \cup {h}
               /\ h.birth = handles[id].birth /\ h.serial = serial
               /\ h.ref \in 0 .. (Modulus * Modulus - 1) /\ PactOfRef(h.ref) = id
               /\ IndexOfRef(h.ref) # 0 =>
                    /\ IndexOfRef(h.ref) \in DOMAIN handles'[id].interactions
                    /\ handles'[id].interactions[IndexOfRef(h.ref)].serial = serial

\* A server that is started serves this pact, which is marked.
Serves(id) ==
  \A port \in DOMAIN servers' :
    \/ port \in DOMAIN servers /\ servers'[port] = servers[port]
    \/ servers'[port].birth = handles[id].birth /\ handles'[id].started

\* A handle is not disturbed by a change of a pact.
LEMMA StillResolves ==
  ASSUME RegistryInv, NEW id, Touches(handles', id), NEW h \in issued,
         IndexOfRef(h.ref) # 0, PactOfRef(h.ref) \in DOMAIN handles',
         handles'[PactOfRef(h.ref)].birth = h.birth
  PROVE  /\ Position(h.ref) <= Len(handles'[PactOfRef(h.ref)].interactions)
         /\ handles'[PactOfRef(h.ref)].interactions[Position(h.ref)].serial >= h.serial
<1> DEFINE p == PactOfRef(h.ref)
           k == Position(h.ref)
<1>1. p \in DOMAIN handles /\ handles[p].birth = h.birth
  BY DEF Touches
<1>2. Found(h.ref) /\ Resolve(h.ref).serial >= h.serial
  BY <1>1 DEF RegistryInv, HandlesResolve, Live
<1>3. h.ref \in Nat /\ h.serial \in Nat
  BY DEF RegistryInv, HandedOut
<1>4. k \in DOMAIN handles[p].interactions /\ handles[p].interactions[k] \in InteractionSet
  BY <1>2, <1>3, Resolved DEF RegistryInv, Resolve
<1>5. handles[p].interactions[k].serial >= h.serial
  BY <1>2 DEF Resolve
<1>6. handles'[p].interactions \in Seq(InteractionSet) /\ p \in DOMAIN handles'
  BY <1>1 DEF Touches, PactSet
<1>7. k \in DOMAIN handles'[p].interactions
      /\ handles'[p].interactions[k].serial \in {handles[p].interactions[k].serial, serial}
  <2>1. CASE p = id
    BY <1>4, <2>1 DEF Touches
  <2>2. CASE p # id
    <3>1. handles'[p] = handles[p]
      BY <1>1, <2>2 DEF Touches
    <3> QED
      BY <1>4, <3>1
  <2> QED
    BY <2>1, <2>2
<1>8. handles'[p].interactions[k] \in InteractionSet /\ k <= Len(handles'[p].interactions)
  BY <1>6, <1>7
<1>9. handles'[p].interactions[k].serial \in Nat /\ handles[p].interactions[k].serial \in Nat
  BY <1>4, <1>8 DEF InteractionSet
<1>10. serial \in Nat /\ h.serial < serial
  BY DEF RegistryInv, HandedOut
<1> HIDE DEF p, k
<1>11. handles'[p].interactions[k].serial >= h.serial
  BY <1>3, <1>5, <1>7, <1>9, <1>10
<1> QED
  BY <1>8, <1>11 DEF p, k

\* Such a step keeps the registry in order.
LEMMA ChangeKeeps ==
  ASSUME RegistryInv, NEW id, Touches(handles', id), Issues(id), Serves(id), poisoned' \in BOOLEAN
  PROVE  RegistryInv'
<1>1. serial' \in 0 .. MaxSerial /\ serial \in Nat /\ serial <= serial'
  BY BoundsAssumption DEF RegistryInv, Issues
<1>2. handles[id].birth \in Nat /\ handles[id].birth < serial /\ id \in DOMAIN handles
  BY DEF RegistryInv, Registered, PactSet, Touches
<1>3. HandedOut'
  <2> SUFFICES ASSUME NEW h \in issued'
               PROVE  /\ h.ref \in 0 .. (Modulus * Modulus - 1)
                      /\ h.birth \in 0 .. (serial' - 1) /\ h.serial \in 0 .. (serial' - 1)
    BY DEF HandedOut
  <2>1. CASE h \in issued
    BY <1>1, <2>1 DEF RegistryInv, HandedOut
  <2>2. CASE h \notin issued
    <3>1. serial' = serial + 1 /\ h.birth = handles[id].birth /\ h.serial = serial
          /\ h.ref \in 0 .. (Modulus * Modulus - 1)
      BY <2>2 DEF Issues
    <3> QED
      BY <1>1, <1>2, <3>1
  <2> QED
    BY <2>1, <2>2
<1>4. \A other \in DOMAIN handles : /\ handles'[other].birth = handles[other].birth
                                    /\ handles[other].started => handles'[other].started
  BY DEF Touches
<1>5. Registered'
  <2>1. DOMAIN handles' \subseteq PactIds /\ handles' \in [DOMAIN handles' -> PactSet]
    BY DEF RegistryInv, Registered, Touches
  <2>2. ASSUME NEW other \in DOMAIN handles'
        PROVE  handles'[other].birth < serial' /\ Len(handles'[other].interactions) <= MaxInteractions
    <3>1. handles[other].birth < serial /\ handles[other].birth \in Nat /\ other \in DOMAIN handles
      BY DEF RegistryInv, Registered, Touches, PactSet
    <3>2. handles'[other].birth < serial'
      BY <1>1, <1>4, <3>1
    <3>3. Len(handles'[other].interactions) <= MaxInteractions
      BY DEF RegistryInv, Registered, Touches
    <3> QED
      BY <3>2, <3>3
  <2>3. \A one, other \in DOMAIN handles' : handles'[one].birth = handles'[other].birth => one = other
    BY <1>4 DEF RegistryInv, Registered, Touches
  <2> QED
    BY <2>1, <2>2, <2>3 DEF Registered
<1>6. Owned'
  <2> SUFFICES ASSUME NEW h \in issued', NEW other \in DOMAIN handles', handles'[other].birth = h.birth
               PROVE  other = PactOfRef(h.ref)
    BY DEF Owned, PactOfRef
  <2>1. other \in DOMAIN handles /\ handles[other].birth = h.birth
    BY <1>4 DEF Touches
  <2>2. CASE h \in issued
    BY <2>1, <2>2 DEF RegistryInv, Owned
  <2>3. CASE h \notin issued
    <3>1. h.birth = handles[id].birth /\ PactOfRef(h.ref) = id
      BY <2>3 DEF Issues
    <3> QED
      BY <1>2, <2>1, <3>1 DEF RegistryInv, Registered
  <2> QED
    BY <2>2, <2>3
<1>7. Served'
  <2> SUFFICES ASSUME NEW port \in DOMAIN servers'
               PROVE  /\ servers'[port].birth \in Nat /\ servers'[port].birth < serial'
                      /\ \A other \in DOMAIN handles' :
                           servers'[port].birth = handles'[other].birth => handles'[other].started
    BY DEF Served
  <2>1. CASE port \in DOMAIN servers /\ servers'[port] = servers[port]
    <3>1. servers[port].birth \in Nat /\ servers[port].birth < serial
      BY <2>1 DEF RegistryInv, Served
    <3>2. \A other \in DOMAIN handles : servers[port].birth = handles[other].birth => handles[other].started
      BY <2>1 DEF RegistryInv, Served
    <3>3. \A other \in DOMAIN handles' :
            servers'[port].birth = handles'[other].birth => handles'[other].started
      BY <1>4, <2>1, <3>2 DEF Touches
    <3> QED
      BY <1>1, <2>1, <3>1, <3>3
  <2>2. CASE servers'[port].birth = handles[id].birth /\ handles'[id].started
    <3>1. \A other \in DOMAIN handles' : servers'[port].birth = handles'[other].birth => other = id
      BY <1>2, <1>4, <2>2 DEF RegistryInv, Registered, Touches
    <3> QED
      BY <1>1, <1>2, <2>2, <3>1
  <2> QED
    BY <2>1, <2>2 DEF Serves
<1>8. HandlesResolve'
  <2> SUFFICES ASSUME NEW h \in issued', IndexOfRef(h.ref) # 0, PactOfRef(h.ref) \in DOMAIN handles',
                      handles'[PactOfRef(h.ref)].birth = h.birth
               PROVE  /\ Position(h.ref) <= Len(handles'[PactOfRef(h.ref)].interactions)
                      /\ handles'[PactOfRef(h.ref)].interactions[Position(h.ref)].serial >= h.serial
    BY DEF HandlesResolve, Live, Found, Resolve, PactOfRef, IndexOfRef, Position
  <2>1. CASE h \in issued
    BY <2>1, StillResolves
  <2>2. CASE h \notin issued
    <3>1. /\ h.serial = serial /\ PactOfRef(h.ref) = id
          /\ IndexOfRef(h.ref) \in DOMAIN handles'[id].interactions
          /\ handles'[id].interactions[IndexOfRef(h.ref)].serial = serial
      BY <2>2 DEF Issues
    <3>2. Position(h.ref) = IndexOfRef(h.ref)
      BY DEF Position
    <3>3. handles'[id].interactions \in Seq(InteractionSet)
      BY DEF Touches, PactSet
    <3>4. IndexOfRef(h.ref) <= Len(handles'[id].interactions)
      BY <3>1, <3>3
    <3> QED
      BY <1>1, <3>1, <3>2, <3>4
  <2> QED
    BY <2>1, <2>2
<1> QED
  BY <1>1, <1>3, <1>5, <1>6, <1>7, <1>8 DEF RegistryInv

-----------------------------------------------------------------------------
(* The changes that the calls make.                                        *)

\* A changed interaction, not older than the one it takes the place of.
LEMMA Replaces ==
  ASSUME RegistryInv, NEW id \in DOMAIN handles, NEW k \in DOMAIN handles[id].interactions,
         NEW x \in InteractionSet,
         x.serial \in {handles[id].interactions[k].serial, serial}
  PROVE  /\ Touches([handles EXCEPT ![id].interactions[k] = x], id)
         /\ \A j \in DOMAIN handles[id].interactions :
              [handles EXCEPT ![id].interactions[k] = x][id].interactions[j]
                = IF j = k THEN x ELSE handles[id].interactions[j]
<1> DEFINE pact == handles[id]
           list == [pact.interactions EXCEPT ![k] = x]
           new  == [handles EXCEPT ![id].interactions[k] = x]
<1>1. /\ handles \in [DOMAIN handles -> PactSet] /\ pact \in PactSet
      /\ pact.interactions \in Seq(InteractionSet)
      /\ Len(pact.interactions) <= MaxInteractions
  BY DEF RegistryInv, Registered, PactSet
<1>2. /\ list \in Seq(InteractionSet) /\ Len(list) = Len(pact.interactions)
      /\ DOMAIN list = DOMAIN pact.interactions
      /\ \A j \in DOMAIN pact.interactions : list[j] = IF j = k THEN x ELSE pact.interactions[j]
  BY <1>1
<1>3. new = [handles EXCEPT ![id] = [pact EXCEPT !.interactions = list]]
  OBVIOUS
<1> HIDE DEF list
<1>4. /\ [pact EXCEPT !.interactions = list] \in PactSet
      /\ [pact EXCEPT !.interactions = list].birth = pact.birth
      /\ [pact EXCEPT !.interactions = list].started = pact.started
      /\ [pact EXCEPT !.interactions = list].interactions = list
  BY <1>1, <1>2 DEF PactSet
<1>5. /\ new \in [DOMAIN handles -> PactSet] /\ DOMAIN new = DOMAIN handles
      /\ new[id] = [pact EXCEPT !.interactions = list]
      /\ \A other \in DOMAIN handles : other # id => new[other] = handles[other]
  BY <1>1, <1>3, <1>4
<1> HIDE DEF new
<1>6. \A j \in DOMAIN pact.interactions :
        j \in DOMAIN list /\ list[j].serial \in {pact.interactions[j].serial, serial}
  BY <1>2
<1>7. Touches(new, id)
  BY <1>1, <1>2, <1>4, <1>5, <1>6 DEF Touches
<1>8. \A j \in DOMAIN pact.interactions : new[id].interactions[j] = IF j = k THEN x ELSE pact.interactions[j]
  <2>1. new[id].interactions = list
    BY <1>4, <1>5
  <2> QED
    BY <1>2, <2>1
<1> QED
  BY <1>7, <1>8 DEF new

\* An interaction at the end.
LEMMA Pushes ==
  ASSUME RegistryInv, NEW id \in DOMAIN handles, NEW x \in InteractionSet,
         Len(handles[id].interactions) < MaxInteractions
  PROVE  LET new == [handles EXCEPT ![id].interactions = Append(@, x)] IN
         /\ Touches(new, id)
         /\ Len(handles[id].interactions) + 1 \in DOMAIN new[id].interactions
         /\ new[id].interactions[Len(handles[id].interactions) + 1] = x
         /\ \A j \in DOMAIN handles[id].interactions :
              new[id].interactions[j] = handles[id].interactions[j]
<1> DEFINE pact == handles[id]
           list == Append(pact.interactions, x)
           new  == [handles EXCEPT ![id].interactions = Append(@, x)]
<1>1. /\ handles \in [DOMAIN handles -> PactSet] /\ pact \in PactSet
      /\ pact.interactions \in Seq(InteractionSet)
      /\ Len(pact.interactions) < MaxInteractions
  BY DEF RegistryInv, Registered, PactSet
<1>2. /\ list \in Seq(InteractionSet) /\ Len(list) = Len(pact.interactions) + 1
      /\ list[Len(pact.interactions) + 1] = x
      /\ Len(pact.interactions) + 1 \in DOMAIN list
      /\ \A j \in DOMAIN pact.interactions : j \in DOMAIN list /\ list[j] = pact.interactions[j]
  BY <1>1
<1>3. new = [handles EXCEPT ![id] = [pact EXCEPT !.interactions = list]]
  OBVIOUS
<1> HIDE DEF list
<1>4. /\ [pact EXCEPT !.interactions = list] \in PactSet
      /\ [pact EXCEPT !.interactions = list].birth = pact.birth
      /\ [pact EXCEPT !.interactions = list].started = pact.started
      /\ [pact EXCEPT !.interactions = list].interactions = list
  BY <1>1, <1>2 DEF PactSet
<1>5. /\ new \in [DOMAIN handles -> PactSet] /\ DOMAIN new = DOMAIN handles
      /\ new[id] = [pact EXCEPT !.interactions = list]
      /\ \A other \in DOMAIN handles : other # id => new[other] = handles[other]
  BY <1>1, <1>3, <1>4
<1> HIDE DEF new
<1>6. \A j \in DOMAIN pact.interactions : list[j].serial = pact.interactions[j].serial
  BY <1>2
<1>7. Len(list) <= MaxInteractions
  <2>1. MaxInteractions \in Nat /\ Len(pact.interactions) \in Nat
    BY <1>1, BoundsAssumption
  <2> QED
    BY <1>1, <1>2, <2>1
<1>8. Touches(new, id)
  BY <1>2, <1>4, <1>5, <1>6, <1>7 DEF Touches
<1>9. new[id].interactions = list
  BY <1>4, <1>5
<1> QED
  BY <1>2, <1>8, <1>9 DEF new

\* A modification through a handle: only the interaction it leads to.
LEMMA Modifies ==
  ASSUME RegistryInv, NEW ref \in Nat, Found(ref), Resolve(ref).rev < MaxRev
  PROVE  /\ Touches(Modified(ref), PactOfRef(ref))
         /\ \A j \in DOMAIN handles[PactOfRef(ref)].interactions :
              j # Position(ref) => Modified(ref)[PactOfRef(ref)].interactions[j]
                                     = handles[PactOfRef(ref)].interactions[j]
         /\ Modified(ref)[PactOfRef(ref)].started = handles[PactOfRef(ref)].started
<1> DEFINE p == PactOfRef(ref)
           k == Position(ref)
           x == [Resolve(ref) EXCEPT !.rev = @ + 1]
<1>1. p \in DOMAIN handles /\ k \in DOMAIN handles[p].interactions /\ Resolve(ref) \in InteractionSet
  BY Resolved DEF RegistryInv
<1>2. x \in InteractionSet /\ x.serial = Resolve(ref).serial /\ Resolve(ref).serial \in Nat
  BY <1>1, BoundsAssumption DEF InteractionSet
<1>3. x.serial = handles[p].interactions[k].serial
  BY <1>2 DEF Resolve
<1>4. Modified(ref) = [handles EXCEPT ![p].interactions[k] = x]
  BY DEF Modified, Resolve
<1>5. Modified(ref)[p].started = handles[p].started
  <2>1. handles \in [DOMAIN handles -> PactSet] /\ handles[p] \in PactSet
    BY <1>1 DEF RegistryInv, Registered
  <2> HIDE DEF x, k, p
  <2> QED
    BY <1>1, <1>4, <2>1 DEF PactSet
<1> HIDE DEF x, k, p
<1>6. /\ Touches(Modified(ref), p)
      /\ \A j \in DOMAIN handles[p].interactions : j # k =>
           Modified(ref)[p].interactions[j] = handles[p].interactions[j]
  <2>1. Touches([handles EXCEPT ![p].interactions[k] = x], p)
    BY <1>1, <1>2, <1>3, Replaces
  <2>2. \A j \in DOMAIN handles[p].interactions :
          [handles EXCEPT ![p].interactions[k] = x][p].interactions[j]
            = IF j = k THEN x ELSE handles[p].interactions[j]
    BY <1>1, <1>2, <1>3, Replaces
  <2> QED
    BY <1>4, <2>1, <2>2
<1> QED
  BY <1>5, <1>6 DEF p, k

\* Nothing at all is changed.
LEMMA Untouched ==
  ASSUME RegistryInv, NEW id \in DOMAIN handles
  PROVE  Touches(handles, id)
<1>1. /\ handles \in [DOMAIN handles -> PactSet] /\ Len(handles[id].interactions) <= MaxInteractions
      /\ handles[id].interactions \in Seq(InteractionSet)
  BY DEF RegistryInv, Registered, PactSet
<1> QED
  BY <1>1 DEF Touches

-----------------------------------------------------------------------------
(* The calls.                                                              *)

\* With nothing done to the pacts, and no new server, nothing is disturbed.
LEMMA NothingKeeps ==
  ASSUME RegistryInv, UNCHANGED <<handles, serial, issued>>, poisoned' \in BOOLEAN,
         \A port \in DOMAIN servers' : port \in DOMAIN servers /\ servers'[port] = servers[port]
  PROVE  RegistryInv'
<1>1. handles' = handles /\ serial' = serial /\ issued' = issued
  OBVIOUS
<1>2. HandedOut' /\ Registered' /\ Owned'
  BY <1>1 DEF RegistryInv, HandedOut, Registered, Owned, PactOfRef
<1>3. HandlesResolve'
  BY <1>1 DEF RegistryInv, HandlesResolve, Live, Found, Resolve, PactOfRef, IndexOfRef, Position
<1>4. Served'
  BY <1>1 DEF RegistryInv, Served
<1> QED
  BY <1>1, <1>2, <1>3, <1>4 DEF RegistryInv

\* A pact under an id that is free, and an id that becomes free.
LEMMA NewPactKeeps ==
  ASSUME RegistryInv, NEW id \in PactIds, NewPact(id)
  PROVE  RegistryInv'
<1> DEFINE pact == [birth |-> serial, started |-> FALSE, rev |-> 0, interactions |-> <<>>]
<1>1. /\ id \notin DOMAIN handles /\ serial < MaxSerial /\ serial \in Nat
      /\ DOMAIN handles' = DOMAIN handles \cup {id}
      /\ handles'[id] = pact
      /\ \A other \in DOMAIN handles : handles'[other] = handles[other]
      /\ handles' = [i \in DOMAIN handles \cup {id} |-> IF i = id THEN pact ELSE handles[i]]
      /\ serial' = serial + 1 /\ issued' = issued /\ servers' = servers /\ poisoned' = poisoned
  BY DEF NewPact, Live, RegistryInv
<1>2. pact \in PactSet /\ Len(pact.interactions) <= MaxInteractions
  <2>1. <<>> \in Seq(InteractionSet) /\ Len(<<>>) = 0
    OBVIOUS
  <2>2. serial \in Nat /\ MaxInteractions \in Nat
    BY <1>1, BoundsAssumption
  <2> QED
    BY <2>1, <2>2 DEF PactSet
<1>3. pact.birth = serial
  OBVIOUS
<1> HIDE DEF pact
<1>4. \A other \in DOMAIN handles : handles[other].birth \in Nat /\ handles[other].birth < serial
  BY DEF RegistryInv, Registered, PactSet
<1>5. HandedOut'
  <2> SUFFICES ASSUME NEW h \in issued
               PROVE  /\ h.ref \in 0 .. (Modulus * Modulus - 1)
                      /\ h.birth \in 0 .. serial /\ h.serial \in 0 .. serial
    BY <1>1 DEF HandedOut
  <2> QED
    BY <1>1 DEF RegistryInv, HandedOut
<1>6. Registered'
  <2>1. DOMAIN handles' \subseteq PactIds /\ handles' \in [DOMAIN handles' -> PactSet]
    BY <1>1, <1>2 DEF RegistryInv, Registered
  <2>2. ASSUME NEW other \in DOMAIN handles'
        PROVE  handles'[other].birth < serial' /\ Len(handles'[other].interactions) <= MaxInteractions
    BY <1>1, <1>2, <1>3, <1>4 DEF RegistryInv, Registered
  <2>3. ASSUME NEW one \in DOMAIN handles', NEW other \in DOMAIN handles',
               handles'[one].birth = handles'[other].birth
        PROVE  one = other
    BY <1>1, <1>3, <1>4, <2>3 DEF RegistryInv, Registered
  <2> QED
    BY <2>1, <2>2, <2>3 DEF Registered
<1>7. \A h \in issued : h.birth \in Nat /\ h.birth < serial
  BY <1>1 DEF RegistryInv, HandedOut
<1>8. Owned'
  BY <1>1, <1>3, <1>7 DEF RegistryInv, Owned, PactOfRef
<1>9. Served'
  BY <1>1, <1>3 DEF RegistryInv, Served
<1>10. HandlesResolve'
  <2> SUFFICES ASSUME NEW h \in issued, IndexOfRef(h.ref) # 0, PactOfRef(h.ref) \in DOMAIN handles',
                      handles'[PactOfRef(h.ref)].birth = h.birth
               PROVE  /\ Position(h.ref) <= Len(handles'[PactOfRef(h.ref)].interactions)
                      /\ handles'[PactOfRef(h.ref)].interactions[Position(h.ref)].serial >= h.serial
    BY <1>1 DEF HandlesResolve, Live, Found, Resolve, PactOfRef, IndexOfRef, Position
  <2>1. PactOfRef(h.ref) # id
    BY <1>1, <1>3, <1>7
  <2>2. PactOfRef(h.ref) \in DOMAIN handles /\ handles'[PactOfRef(h.ref)] = handles[PactOfRef(h.ref)]
    BY <1>1, <2>1
  <2> QED
    BY <2>2 DEF RegistryInv, HandlesResolve, Live, Found, Resolve
<1>11. serial' \in 0 .. MaxSerial
  BY <1>1, BoundsAssumption
<1> QED
  BY <1>1, <1>5, <1>6, <1>8, <1>9, <1>10, <1>11 DEF RegistryInv

LEMMA FreePactKeeps ==
  ASSUME RegistryInv, NEW id \in PactIds, FreePact(id)
  PROVE  RegistryInv'
<1>1. /\ DOMAIN handles' = DOMAIN handles \ {id}
      /\ handles' = [i \in DOMAIN handles \ {id} |-> handles[i]]
      /\ \A other \in DOMAIN handles' : other \in DOMAIN handles /\ handles'[other] = handles[other]
      /\ serial' = serial /\ issued' = issued /\ servers' = servers /\ poisoned' = poisoned
  BY DEF FreePact
<1>2. HandedOut'
  BY <1>1 DEF RegistryInv, HandedOut
<1>3. Registered'
  BY <1>1 DEF RegistryInv, Registered
<1>4. Owned'
  BY <1>1 DEF RegistryInv, Owned, PactOfRef
<1>5. Served'
  BY <1>1 DEF RegistryInv, Served
<1>6. HandlesResolve'
  <2> SUFFICES ASSUME NEW h \in issued, IndexOfRef(h.ref) # 0, PactOfRef(h.ref) \in DOMAIN handles',
                      handles'[PactOfRef(h.ref)].birth = h.birth
               PROVE  /\ Position(h.ref) <= Len(handles'[PactOfRef(h.ref)].interactions)
                      /\ handles'[PactOfRef(h.ref)].interactions[Position(h.ref)].serial >= h.serial
    BY <1>1 DEF HandlesResolve, Live, Found, Resolve, PactOfRef, IndexOfRef, Position
  <2> QED
    BY <1>1 DEF RegistryInv, HandlesResolve, Live, Found, Resolve
<1> QED
  BY <1>1, <1>2, <1>3, <1>4, <1>5, <1>6 DEF RegistryInv

\* Renaming what was modified is one change of the interaction.
LEMMA Renames ==
  ASSUME RegistryInv, NEW ref \in Nat, Found(ref), Resolve(ref).rev < MaxRev, NEW d \in Descriptions
  PROVE  Touches([Modified(ref) EXCEPT ![PactOfRef(ref)].interactions[Position(ref)].desc = d],
                 PactOfRef(ref))
<1> DEFINE p == PactOfRef(ref)
           k == Position(ref)
           x == [Resolve(ref) EXCEPT !.rev = @ + 1, !.desc = d]
           new == [Modified(ref) EXCEPT ![p].interactions[k].desc = d]
<1>1. p \in DOMAIN handles /\ k \in DOMAIN handles[p].interactions /\ Resolve(ref) \in InteractionSet
  BY Resolved DEF RegistryInv
<1>2. x \in InteractionSet /\ x.serial = Resolve(ref).serial /\ Resolve(ref).serial \in Nat
  <2> DEFINE r == [Resolve(ref) EXCEPT !.rev = @ + 1]
  <2>1. r \in InteractionSet /\ r.serial = Resolve(ref).serial /\ Resolve(ref).serial \in Nat
    BY <1>1, BoundsAssumption DEF InteractionSet
  <2>2. x = [r EXCEPT !.desc = d]
    BY <1>1 DEF InteractionSet
  <2> HIDE DEF r, x
  <2> QED
    BY <2>1, <2>2 DEF InteractionSet
<1>3. x.serial = handles[p].interactions[k].serial
  BY <1>2 DEF Resolve
<1>4. handles \in [DOMAIN handles -> PactSet] /\ handles[p] \in PactSet
      /\ handles[p].interactions \in Seq(InteractionSet)
  BY <1>1 DEF RegistryInv, Registered, PactSet
<1>5. [[handles EXCEPT ![p].interactions[k] = [Resolve(ref) EXCEPT !.rev = @ + 1]]
         EXCEPT ![p].interactions[k].desc = d] = [handles EXCEPT ![p].interactions[k] = x]
  <2> DEFINE r == [Resolve(ref) EXCEPT !.rev = @ + 1]
             one == [handles[p].interactions EXCEPT ![k] = r]
             pact == [handles[p] EXCEPT !.interactions = one]
             all == [handles EXCEPT ![p] = pact]
  <2>1. [r EXCEPT !.desc = d] = x
    BY <1>1 DEF InteractionSet
  <2> HIDE DEF r, x
  <2>2. one[k] = r /\ [one EXCEPT ![k] = x] = [handles[p].interactions EXCEPT ![k] = x]
    BY <1>1, <1>4
  <2> HIDE DEF one
  <2>3. /\ pact.interactions = one
        /\ \A list : [pact EXCEPT !.interactions = list] = [handles[p] EXCEPT !.interactions = list]
    BY <1>4 DEF PactSet
  <2> HIDE DEF pact
  <2>4. all[p] = pact /\ \A v : [all EXCEPT ![p] = v] = [handles EXCEPT ![p] = v]
    BY <1>1, <1>4
  <2>5. [handles EXCEPT ![p].interactions[k] = r] = all
    BY DEF one, pact
  <2> HIDE DEF all
  <2>6. [all EXCEPT ![p].interactions[k].desc = d]
          = [all EXCEPT ![p] = [all[p] EXCEPT !.interactions =
               [all[p].interactions EXCEPT ![k] = [all[p].interactions[k] EXCEPT !.desc = d]]]]
    OBVIOUS
  <2>7. [all EXCEPT ![p].interactions[k].desc = d]
          = [handles EXCEPT ![p] = [handles[p] EXCEPT !.interactions =
               [handles[p].interactions EXCEPT ![k] = x]]]
    BY <2>1, <2>2, <2>3, <2>4, <2>6
  <2> QED
    BY <2>5, <2>7 DEF r
<1>6. new = [handles EXCEPT ![p].interactions[k] = x]
  BY <1>5 DEF Modified, Resolve
<1> HIDE DEF x, k, p, new
<1>7. Touches(new, p)
  BY <1>1, <1>2, <1>3, <1>6, Replaces
<1> QED
  BY <1>7 DEF new, p, k

\* A call through an interaction or message handle.
LEMMA CallIs ==
  ASSUME RegistryInv, NEW h \in issued,
         \/ Edit(h) \/ HttpEdit(h) \/ GuardedEdit(h) \/ UncheckedEdit(h) \/ MessageEdit(h)
         \/ \E d \in Descriptions : UponReceiving(h, d)
  PROVE  /\ UNCHANGED <<servers, serial, issued>> /\ poisoned' \in BOOLEAN
         /\ last'.birth = h.birth
         /\ \/ handles' = handles
            \/ /\ Found(h.ref) /\ Touches(handles', PactOfRef(h.ref))
               /\ \/ last'.op = "edit" /\ ~last'.ok
                  \/ last'.op \in {"unchecked", "message"}
                  \/ ~handles[PactOfRef(h.ref)].started
<1>1. h.ref \in Nat
  BY DEF RegistryInv, HandedOut
<1>2. Panics(h.ref) \in BOOLEAN
  BY SwitchAssumption DEF Panics
<1>3. ASSUME Found(h.ref), Resolve(h.ref).rev < MaxRev
      PROVE  Touches(Modified(h.ref), PactOfRef(h.ref))
  BY <1>1, <1>3, Modifies
<1>4. CASE Edit(h)
  BY <1>2, <1>3, <1>4 DEF Edit, Call, Record
<1>5. CASE HttpEdit(h)
  BY <1>2, <1>3, <1>5 DEF HttpEdit, Call, Record
<1>6. CASE GuardedEdit(h)
  BY <1>2, <1>3, <1>6 DEF GuardedEdit, Call, Record
<1>7. CASE UncheckedEdit(h)
  BY <1>2, <1>3, <1>7 DEF UncheckedEdit, Call, Record
<1>8. CASE MessageEdit(h)
  BY <1>2, <1>3, <1>8 DEF MessageEdit, Record
<1>9. ASSUME NEW d \in Descriptions, UponReceiving(h, d)
      PROVE  /\ UNCHANGED <<servers, serial, issued>> /\ poisoned' \in BOOLEAN
             /\ last'.birth = h.birth
             /\ Found(h.ref) /\ Touches(handles', PactOfRef(h.ref))
             /\ last'.op = "edit" /\ (last'.ok => ~handles[PactOfRef(h.ref)].started)
  <2>1. Found(h.ref) /\ Resolve(h.ref).rev < MaxRev
    BY <1>9 DEF UponReceiving, Call
  <2>2. Touches(handles', PactOfRef(h.ref))
    BY <1>1, <1>9, <2>1, Renames DEF UponReceiving
  <2> QED
    BY <1>2, <1>9, <2>1, <2>2 DEF UponReceiving, Call, Record
<1> QED
  BY <1>4, <1>5, <1>6, <1>7, <1>8, <1>9

\* The first interaction with a description, if there is one.
LEMMA FirstIsThere ==
  ASSUME RegistryInv, NEW id \in DOMAIN handles, NEW d
  PROVE  FirstWith(id, d) = 0 \/ FirstWith(id, d) \in DOMAIN handles[id].interactions
<1> DEFINE all == handles[id].interactions
           same == {i \in DOMAIN all : all[i].desc = d}
<1>1. all \in Seq(InteractionSet) /\ DOMAIN all \subseteq Nat
  BY DEF RegistryInv, Registered, PactSet
<1>2. CASE same # {}
  <2>1. \E i \in same : \A j \in same : i <= j
    BY <1>1, <1>2, LeastNatural
  <2>2. (CHOOSE i \in same : \A j \in same : i <= j) \in same
    BY <2>1
  <2>3. FirstWith(id, d) = CHOOSE i \in same : \A j \in same : i <= j
    BY <1>2 DEF FirstWith
  <2> QED
    BY <2>2, <2>3
<1>3. CASE same = {}
  BY <1>3 DEF FirstWith
<1> QED
  BY <1>2, <1>3

\* What Issue does, where the index is that of an interaction made now.
LEMMA IssueIs ==
  ASSUME NEW ref \in 0 .. (Modulus * Modulus - 1), NEW id, NEW message, Issue(ref, id, message),
         serial < MaxSerial, PactOfRef(ref) = id,
         IndexOfRef(ref) # 0 =>
           /\ IndexOfRef(ref) \in DOMAIN handles'[id].interactions
           /\ handles'[id].interactions[IndexOfRef(ref)].serial = serial
  PROVE  Issues(id)
<1> DEFINE h == [ref |-> ref, birth |-> handles[id].birth, serial |-> serial, message |-> message]
<1>1. issued' = issued \cup {h} /\ serial' = serial + 1
  BY DEF Issue
<1>2. h.ref = ref /\ h.birth = handles[id].birth /\ h.serial = serial
  OBVIOUS
<1> HIDE DEF h
<1> QED
  BY <1>1, <1>2 DEF Issues

\* An interaction that is added has the index of its place, whichever of the
\* two constructors makes its handle.
LEMMA PushIs ==
  ASSUME RegistryInv, MaxInteractions < Modulus, NEW id \in PactIds, NEW d \in Descriptions,
         NEW kind \in Kinds, id \in DOMAIN handles, serial < MaxSerial, Push(id, d, kind),
         NEW message,
         \/ Issue(NewRef(id, Len(handles[id].interactions) + 1), id, message)
         \/ Issue(NewRefV4(id, Len(handles[id].interactions) + 1), id, message)
  PROVE  /\ Touches(handles', id) /\ Issues(id)
         /\ \A j \in DOMAIN handles[id].interactions :
              handles'[id].interactions[j] = handles[id].interactions[j]
<1> DEFINE x == Interaction(d, kind)
           n == Len(handles[id].interactions) + 1
<1>1. serial \in Nat /\ id \in 0 .. (Modulus - 1)
  BY ModulusAssumption DEF RegistryInv
<1>2. x \in InteractionSet /\ x.serial = serial
  BY <1>1, BoundsAssumption DEF Interaction, InteractionSet
<1>3. /\ handles[id].interactions \in Seq(InteractionSet)
      /\ Modulus \in Nat /\ MaxInteractions \in Nat
  BY BoundsAssumption, ModulusAssumption DEF RegistryInv, Registered, PactSet
<1>4. Len(handles[id].interactions) < MaxInteractions
      /\ handles' = [handles EXCEPT ![id].interactions = Append(@, x)]
  BY DEF Push
<1>5. n \in 1 .. (Modulus - 1)
  BY <1>3, <1>4
<1> HIDE DEF x
<1>6. /\ Touches(handles', id)
      /\ n \in DOMAIN handles'[id].interactions
      /\ handles'[id].interactions[n] = x
      /\ \A j \in DOMAIN handles[id].interactions :
           handles'[id].interactions[j] = handles[id].interactions[j]
  <2>1. LET new == [handles EXCEPT ![id].interactions = Append(@, x)] IN
        /\ Touches(new, id)
        /\ Len(handles[id].interactions) + 1 \in DOMAIN new[id].interactions
        /\ new[id].interactions[Len(handles[id].interactions) + 1] = x
        /\ \A j \in DOMAIN handles[id].interactions :
             new[id].interactions[j] = handles[id].interactions[j]
    BY <1>2, <1>4, Pushes
  <2> QED
    BY <1>4, <2>1
<1> HIDE DEF n
<1>7. /\ PactOfRef(NewRef(id, n)) = id /\ IndexOfRef(NewRef(id, n)) = n
      /\ NewRef(id, n) \in 0 .. (Modulus * Modulus - 1)
      /\ NewRefV4(id, n) = NewRef(id, n)
  BY <1>1, <1>5, Numbers
<1>8. Issue(NewRef(id, n), id, message)
  BY <1>7 DEF n
<1>9. Issues(id)
  BY <1>1, <1>2, <1>6, <1>7, <1>8, IssueIs
<1> QED
  BY <1>6, <1>9

\* A new interaction: the one that is made is not older than its handle.
LEMMA NewInteractionIs ==
  ASSUME RegistryInv, MaxInteractions < Modulus, NEW id \in PactIds, NEW d \in Descriptions,
         NEW kind \in Kinds, NewInteraction(id, d, kind)
  PROVE  Touches(handles', id) /\ Issues(id)
<1> DEFINE x == Interaction(d, kind)
           i == FirstWith(id, d)
           n == Len(handles[id].interactions) + 1
<1>1. id \in DOMAIN handles /\ serial < MaxSerial /\ serial \in Nat /\ id \in 0 .. (Modulus - 1)
  BY ModulusAssumption DEF NewInteraction, Live, RegistryInv
<1>2. x \in InteractionSet /\ x.serial = serial
  BY <1>1, BoundsAssumption DEF Interaction, InteractionSet
<1>3. /\ handles[id].interactions \in Seq(InteractionSet)
      /\ Len(handles[id].interactions) <= MaxInteractions
      /\ Modulus \in Nat /\ MaxInteractions \in Nat
  BY <1>1, BoundsAssumption, ModulusAssumption DEF RegistryInv, Registered, PactSet
<1>4. CASE i # 0
  <2>1. i \in DOMAIN handles[id].interactions
    BY <1>1, <1>4, FirstIsThere
  <2>2. /\ handles' = [handles EXCEPT ![id].interactions[i] = x]
        /\ Issue(NewRef(id, i), id, FALSE)
    BY <1>4 DEF NewInteraction
  <2>3. i \in 0 .. (Modulus - 1) /\ i \in DOMAIN handles[id].interactions
    BY <1>3, <2>1
  <2> HIDE DEF x, i
  <2>4. Touches(handles', id) /\ handles'[id].interactions[i] = x
    <3>1. /\ Touches([handles EXCEPT ![id].interactions[i] = x], id)
          /\ \A j \in DOMAIN handles[id].interactions :
               [handles EXCEPT ![id].interactions[i] = x][id].interactions[j]
                 = IF j = i THEN x ELSE handles[id].interactions[j]
      BY <1>1, <1>2, <2>1, Replaces
    <3> QED
      BY <2>1, <2>2, <3>1
  <2>5. PactOfRef(NewRef(id, i)) = id /\ IndexOfRef(NewRef(id, i)) = i
        /\ NewRef(id, i) \in 0 .. (Modulus * Modulus - 1)
    BY <1>1, <2>3, Numbers
  <2>6. i \in DOMAIN handles'[id].interactions
    BY <2>3, <2>4 DEF Touches
  <2> QED
    BY <1>1, <1>2, <2>2, <2>4, <2>5, <2>6, IssueIs
<1>5. CASE i = 0
  <2>1. Push(id, d, kind) /\ Issue(NewRef(id, n), id, FALSE)
    BY <1>5 DEF NewInteraction
  <2> QED
    BY <1>1, <2>1, PushIs DEF Issue
<1> QED
  BY <1>4, <1>5

LEMMA NextRevision ==
  ASSUME NEW pact \in PactSet
  PROVE  /\ [pact EXCEPT !.rev = @ + 1] \in PactSet
         /\ [pact EXCEPT !.rev = @ + 1].birth = pact.birth
         /\ [pact EXCEPT !.rev = @ + 1].started = pact.started
         /\ [pact EXCEPT !.rev = @ + 1].interactions = pact.interactions
<1>1. pact.rev + 1 \in Nat /\ pact.birth \in Nat /\ pact.started \in BOOLEAN
      /\ pact.interactions \in Seq(InteractionSet)
  BY DEF PactSet
<1>2. [pact EXCEPT !.rev = @ + 1] = [birth |-> pact.birth, started |-> pact.started,
                                     rev |-> pact.rev + 1, interactions |-> pact.interactions]
  BY DEF PactSet
<1> QED
  BY <1>1, <1>2 DEF PactSet

\* A modification of the pact itself.
LEMMA EditPactIs ==
  ASSUME RegistryInv, NEW id \in PactIds, EditPact(id) \/ AddMessagePactMetadata(id)
  PROVE  /\ Touches(handles', id) /\ Issues(id) /\ Serves(id) /\ poisoned' \in BOOLEAN
         /\ last'.birth = handles[id].birth
         /\ \/ last'.op = "edit" /\ (last'.ok => ~handles[id].started)
            \/ last'.op = "message"
         /\ handles'[id].interactions = handles[id].interactions
<1>1. /\ id \in DOMAIN handles /\ handles \in [DOMAIN handles -> PactSet]
      /\ handles[id] \in PactSet /\ Len(handles[id].interactions) <= MaxInteractions
  BY DEF EditPact, AddMessagePactMetadata, Live, RegistryInv, Registered
<1> DEFINE pact == [handles[id] EXCEPT !.rev = @ + 1]
<1>2. /\ pact \in PactSet /\ pact.birth = handles[id].birth /\ pact.started = handles[id].started
      /\ pact.interactions = handles[id].interactions
  BY <1>1, NextRevision
<1>3. handles' = [handles EXCEPT ![id] = pact]
  BY DEF EditPact, AddMessagePactMetadata
<1> HIDE DEF pact
<1>4. /\ handles'[id] = pact /\ DOMAIN handles' = DOMAIN handles
      /\ handles' \in [DOMAIN handles -> PactSet]
      /\ \A other \in DOMAIN handles : other # id => handles'[other] = handles[other]
  BY <1>1, <1>2, <1>3
<1>5. Touches(handles', id)
  BY <1>1, <1>2, <1>4 DEF Touches
<1>6. UNCHANGED <<servers, poisoned, serial, issued>>
      /\ \/ last' = [op |-> "edit", birth |-> handles[id].birth, ok |-> ~handles[id].started]
         \/ last' = [op |-> "message", birth |-> handles[id].birth, ok |-> TRUE]
  BY DEF EditPact, AddMessagePactMetadata, Record
<1>7. Issues(id) /\ Serves(id) /\ poisoned' \in BOOLEAN
  BY <1>6 DEF Issues, Serves, RegistryInv
<1>8. /\ last'.birth = handles[id].birth
      /\ \/ last'.op = "edit" /\ (last'.ok => ~handles[id].started)
         \/ last'.op = "message"
  <2>1. CASE last' = [op |-> "edit", birth |-> handles[id].birth, ok |-> ~handles[id].started]
    BY <2>1
  <2>2. CASE last' = [op |-> "message", birth |-> handles[id].birth, ok |-> TRUE]
    BY <2>2
  <2> QED
    BY <1>6, <2>1, <2>2
<1> QED
  BY <1>2, <1>4, <1>5, <1>7, <1>8

\* A server gets a copy of a pact that is marked as started with it.
LEMMA CreateIs ==
  ASSUME RegistryInv, NEW id \in PactIds, NEW port \in Ports, CreateMockServer(id, port)
  PROVE  /\ Touches(handles', id) /\ Issues(id) /\ Serves(id) /\ poisoned' \in BOOLEAN
         /\ handles'[id].interactions = handles[id].interactions
         /\ handles[id].started => handles'[id] = handles[id]
<1>1. /\ id \in DOMAIN handles /\ handles \in [DOMAIN handles -> PactSet]
      /\ handles[id] \in PactSet /\ Len(handles[id].interactions) <= MaxInteractions
  BY DEF CreateMockServer, Live, RegistryInv, Registered
<1> DEFINE pact == [handles[id] EXCEPT !.started = TRUE]
<1>2. /\ pact \in PactSet /\ pact.birth = handles[id].birth /\ pact.started
      /\ pact.interactions = handles[id].interactions
      /\ handles[id].started => pact = handles[id]
  BY <1>1 DEF PactSet
<1>3. handles' = [handles EXCEPT ![id] = pact]
  BY DEF CreateMockServer, Started
<1> HIDE DEF pact
<1>4. /\ handles'[id] = pact /\ DOMAIN handles' = DOMAIN handles
      /\ handles' \in [DOMAIN handles -> PactSet]
      /\ \A other \in DOMAIN handles : other # id => handles'[other] = handles[other]
  BY <1>1, <1>2, <1>3
<1>5. Touches(handles', id)
  BY <1>1, <1>2, <1>4 DEF Touches
<1>6. Serves(id)
  BY <1>2, <1>4 DEF CreateMockServer, Serves
<1>7. UNCHANGED <<poisoned, serial, issued>>
  BY DEF CreateMockServer
<1> QED
  BY <1>2, <1>4, <1>5, <1>6, <1>7 DEF Issues, RegistryInv

\* A message that is added.
LEMMA NewMessageIs ==
  ASSUME RegistryInv, MaxInteractions < Modulus, NEW id \in PactIds, NEW d \in Descriptions,
         NewMessage(id, d)
  PROVE  Touches(handles', id) /\ Issues(id)
<1>1. id \in DOMAIN handles /\ serial < MaxSerial /\ "message" \in Kinds /\ Push(id, d, "message")
  BY BoundsAssumption DEF NewMessage, Live
<1>2. \/ Issue(NewRef(id, Len(handles[id].interactions) + 1), id, TRUE)
      \/ Issue(NewRefV4(id, Len(handles[id].interactions) + 1), id, TRUE)
  BY DEF NewMessage
<1> QED
  BY <1>1, <1>2, PushIs

\* A handle for no interaction.
LEMMA FailureIs ==
  ASSUME RegistryInv, NEW id \in PactIds, NewInteractionFails(id)
  PROVE  Touches(handles', id) /\ Issues(id) /\ handles' = handles
<1>1. id \in DOMAIN handles /\ serial < MaxSerial /\ handles' = handles
  BY DEF NewInteractionFails, Live
<1>2. PICK message \in BOOLEAN : Issue(NewRef(id, 0), id, message)
  BY DEF NewInteractionFails
<1>3. id \in 0 .. (Modulus - 1) /\ 0 \in 0 .. (Modulus - 1)
  BY ModulusAssumption
<1>4. /\ NewRef(id, 0) \in 0 .. (Modulus * Modulus - 1)
      /\ PactOfRef(NewRef(id, 0)) = id /\ IndexOfRef(NewRef(id, 0)) = 0
  BY <1>3, Numbers
<1>5. Issues(id)
  BY <1>1, <1>2, <1>4, IssueIs
<1> QED
  BY <1>1, <1>5, Untouched

\* A step that goes through no interaction handle and adds no interaction
\* leaves a pact alone that is marked.
Silent(id) ==
  /\ last' = NoCall
  /\ serial' > serial \/ (handles[id].started => handles'[id] = handles[id])

\* What a step is.
LEMMA StepIs ==
  ASSUME RegistryInv, MaxInteractions < Modulus, Next
  PROVE  \/ \E id \in PactIds : NewPact(id) \/ FreePact(id)
         \/ \E id \in PactIds : /\ EditPact(id) \/ AddMessagePactMetadata(id) \/ Silent(id)
                                /\ Touches(handles', id) /\ Issues(id)
                                /\ Serves(id) /\ poisoned' \in BOOLEAN
         \/ \E h \in issued :
              \/ Edit(h) \/ HttpEdit(h) \/ GuardedEdit(h) \/ UncheckedEdit(h) \/ MessageEdit(h)
              \/ \E d \in Descriptions : UponReceiving(h, d)
         \/ \E port \in Ports : CleanupMockServer(port)
<1>1. poisoned \in BOOLEAN /\ serial \in Nat
  BY DEF RegistryInv
<1>2. ASSUME NEW id \in PactIds, NewInteractionFails(id)
      PROVE  /\ Silent(id) /\ Touches(handles', id) /\ Issues(id)
             /\ Serves(id) /\ poisoned' \in BOOLEAN
  <2>1. last' = NoCall /\ serial' = serial + 1 /\ servers' = servers /\ poisoned' = poisoned
    BY <1>2 DEF NewInteractionFails, Issue
  <2> QED
    BY <1>1, <1>2, <2>1, FailureIs DEF Serves, Silent
<1>3. ASSUME NEW id \in PactIds, NEW d \in Descriptions, NewMessage(id, d)
      PROVE  /\ Silent(id) /\ Touches(handles', id) /\ Issues(id)
             /\ Serves(id) /\ poisoned' \in BOOLEAN
  <2>1. last' = NoCall /\ serial' = serial + 1 /\ servers' = servers /\ poisoned' = poisoned
    BY <1>3 DEF NewMessage, Issue
  <2> QED
    BY <1>1, <1>3, <2>1, NewMessageIs DEF Serves, Silent
<1>4. ASSUME NEW id \in PactIds, NEW d \in Descriptions, NEW kind \in Kinds, NewInteraction(id, d, kind)
      PROVE  /\ Silent(id) /\ Touches(handles', id) /\ Issues(id)
             /\ Serves(id) /\ poisoned' \in BOOLEAN
  <2>1. last' = NoCall /\ serial' = serial + 1 /\ servers' = servers /\ poisoned' = poisoned
    BY <1>4 DEF NewInteraction, Issue
  <2> QED
    BY <1>1, <1>4, <2>1, NewInteractionIs DEF Serves, Silent
<1>5. ASSUME NEW id \in PactIds, EditPact(id) \/ AddMessagePactMetadata(id)
      PROVE  Touches(handles', id) /\ Issues(id) /\ Serves(id) /\ poisoned' \in BOOLEAN
  BY <1>5, EditPactIs
<1>6. ASSUME NEW id \in PactIds, NEW port \in Ports, CreateMockServer(id, port)
      PROVE  /\ Silent(id) /\ Touches(handles', id) /\ Issues(id)
             /\ Serves(id) /\ poisoned' \in BOOLEAN
  <2>1. last' = NoCall
    BY <1>6 DEF CreateMockServer
  <2> QED
    BY <1>6, <2>1, CreateIs DEF Silent
<1> QED
  BY <1>2, <1>3, <1>4, <1>5, <1>6 DEF Next

LEMMA StepKeeps ==
  ASSUME RegistryInv, MaxInteractions < Modulus, [Next]_vars
  PROVE  RegistryInv'
<1>1. CASE UNCHANGED vars
  <2>1. UNCHANGED <<handles, serial, issued>> /\ servers' = servers /\ poisoned' = poisoned
    BY <1>1 DEF vars
  <2> QED
    BY <2>1, NothingKeeps DEF RegistryInv
<1>2. ASSUME NEW h \in issued,
             \/ Edit(h) \/ HttpEdit(h) \/ GuardedEdit(h) \/ UncheckedEdit(h) \/ MessageEdit(h)
             \/ \E d \in Descriptions : UponReceiving(h, d)
      PROVE  RegistryInv'
  <2>1. /\ UNCHANGED <<servers, serial, issued>> /\ poisoned' \in BOOLEAN
        /\ handles' = handles \/ Touches(handles', PactOfRef(h.ref))
    BY <1>2, CallIs
  <2>2. CASE handles' = handles
    BY <2>1, <2>2, NothingKeeps
  <2>3. CASE Touches(handles', PactOfRef(h.ref))
    <3>1. Issues(PactOfRef(h.ref)) /\ Serves(PactOfRef(h.ref))
      BY <2>1 DEF Issues, Serves
    <3> QED
      BY <2>1, <2>3, <3>1, ChangeKeeps
  <2> QED
    BY <2>1, <2>2, <2>3
<1>3. ASSUME NEW port \in Ports, CleanupMockServer(port)
      PROVE  RegistryInv'
  <2>1. /\ UNCHANGED <<handles, serial, issued>> /\ poisoned' \in BOOLEAN
        /\ \A p \in DOMAIN servers' : p \in DOMAIN servers /\ servers'[p] = servers[p]
    BY <1>3 DEF CleanupMockServer, RegistryInv
  <2> QED
    BY <2>1, NothingKeeps
<1>4. ASSUME NEW id \in PactIds, Touches(handles', id), Issues(id), Serves(id), poisoned' \in BOOLEAN
      PROVE  RegistryInv'
  BY <1>4, ChangeKeeps
<1>5. CASE Next
  BY <1>2, <1>3, <1>4, <1>5, StepIs, NewPactKeeps, FreePactKeeps
<1> QED
  BY <1>1, <1>5

(* The registry is in order after any calls: a live handle has the id of   *)
(* its pact, and a served pact is marked.                                  *)
THEOREM RegistryInOrder == MaxInteractions < Modulus => (Spec => []RegistryInv)
<1> SUFFICES ASSUME MaxInteractions < Modulus
             PROVE  Spec => []RegistryInv
  OBVIOUS
<1>1. Init => RegistryInv
  <2> SUFFICES ASSUME Init PROVE RegistryInv
    OBVIOUS
  <2>1. /\ DOMAIN handles = {} /\ handles \in [DOMAIN handles -> PactSet] /\ DOMAIN servers = {}
        /\ poisoned = FALSE /\ serial = 0 /\ issued = {}
    BY DEF Init
  <2>2. serial \in 0 .. MaxSerial
    BY <2>1, BoundsAssumption
  <2>3. poisoned \in BOOLEAN
    BY <2>1, Zenon
  <2>4. HandedOut /\ Owned /\ HandlesResolve
    BY <2>1 DEF HandedOut, Owned, HandlesResolve
  <2>5. Registered /\ Served
    BY <2>1 DEF Registered, Served
  <2> QED
    BY <2>2, <2>3, <2>4, <2>5 DEF RegistryInv
<1>2. RegistryInv /\ [Next]_vars => RegistryInv'
  BY StepKeeps
<1> QED
  BY <1>1, <1>2, PTL DEF Spec

-----------------------------------------------------------------------------
(* What the calls promise.                                                 *)

(* The handles a program holds are numbers in range that lead where they   *)
(* did: to the interaction they were given out for, or to a later one in   *)
(* its place.                                                              *)
THEOREM HandlesSound == MaxInteractions < Modulus => (Spec => []HandlesAreSound)
<1> SUFFICES ASSUME MaxInteractions < Modulus
             PROVE  Spec => []HandlesAreSound
  OBVIOUS
<1>1. RegistryInv => HandlesAreSound
  <2> SUFFICES ASSUME RegistryInv PROVE TypeOK
    BY DEF HandlesAreSound, RegistryInv
  <2>1. serial \in 0 .. MaxSerial /\ MaxSerial \in Nat
    BY BoundsAssumption DEF RegistryInv
  <2>2. ASSUME NEW id \in DOMAIN handles
        PROVE  /\ handles[id].started \in BOOLEAN
               /\ handles[id].birth \in 0 .. MaxSerial
               /\ \A i \in DOMAIN handles[id].interactions :
                    handles[id].interactions[i] \in InteractionSet
    <3>1. handles[id] \in PactSet /\ handles[id].birth < serial
      BY DEF RegistryInv, Registered
    <3> QED
      BY <2>1, <3>1 DEF PactSet
  <2>3. DOMAIN handles \subseteq PactIds /\ poisoned \in BOOLEAN
        /\ \A h \in issued : h.ref \in 0 .. (Modulus * Modulus - 1)
    BY DEF RegistryInv, Registered, HandedOut
  <2> QED
    BY <2>1, <2>2, <2>3 DEF TypeOK
<1> QED
  BY <1>1, RegistryInOrder, PTL

(* No call through a handle whose pact has not been freed modifies another *)
(* pact, although the handle is only a number.                             *)
THEOREM WritesNoForeignPact == MaxInteractions < Modulus => (Spec => NoForeignWrite)
<1> SUFFICES ASSUME MaxInteractions < Modulus
             PROVE  Spec => NoForeignWrite
  OBVIOUS
<1> DEFINE Foreign(id) ==
             (id \in DOMAIN handles' /\ handles'[id] # handles[id]) =>
               \/ handles[id].birth = last'.birth
               \/ \A i \in DOMAIN handles : handles[i].birth # last'.birth
           Native == last'.birth # Nothing => \A id \in DOMAIN handles : Foreign(id)
<1>1. RegistryInv /\ [Next]_vars => [Native]_vars
  <2> SUFFICES ASSUME RegistryInv, Next PROVE Native
    OBVIOUS
  <2>1. CASE last' = NoCall
    BY <2>1 DEF NoCall
  <2>2. ASSUME NEW id \in PactIds, EditPact(id) \/ AddMessagePactMetadata(id)
        PROVE  Native
    <3>1. last'.birth = handles[id].birth /\ Touches(handles', id)
      BY <2>2, EditPactIs
    <3> QED
      BY <3>1 DEF Touches
  <2>3. ASSUME NEW h \in issued,
               \/ Edit(h) \/ HttpEdit(h) \/ GuardedEdit(h) \/ UncheckedEdit(h) \/ MessageEdit(h)
               \/ \E d \in Descriptions : UponReceiving(h, d)
        PROVE  Native
    <3>1. last'.birth = h.birth
          /\ (handles' = handles \/ Touches(handles', PactOfRef(h.ref)))
      BY <2>3, CallIs
    <3>2. \A i \in DOMAIN handles : handles[i].birth = h.birth => i = PactOfRef(h.ref)
      BY DEF RegistryInv, Owned
    <3>3. CASE handles' = handles
      BY <3>3
    <3>4. CASE Touches(handles', PactOfRef(h.ref))
      <4> SUFFICES ASSUME NEW id \in DOMAIN handles, handles'[id] # handles[id],
                          NEW i \in DOMAIN handles, handles[i].birth = h.birth
                   PROVE  handles[id].birth = h.birth
        BY <3>1
      <4>1. id = PactOfRef(h.ref) /\ i = PactOfRef(h.ref)
        BY <3>2, <3>4 DEF Touches
      <4> QED
        BY <4>1
    <3> QED
      BY <3>1, <3>3, <3>4
  <2>4. \A id \in PactIds : NewPact(id) \/ FreePact(id) => last' = NoCall
    BY DEF NewPact, FreePact
  <2>5. \A port \in Ports : CleanupMockServer(port) => last' = NoCall
    BY DEF CleanupMockServer
  <2> HIDE DEF Native
  <2> QED
    BY <2>1, <2>2, <2>3, <2>4, <2>5, StepIs DEF Silent
<1>2. Spec => [][Native]_vars
  BY <1>1, RegistryInOrder, PTL DEF Spec
<1> QED
  BY <1>2 DEF NoForeignWrite

(* While a mock server serves a copy of a pact, the pact changes behind its *)
(* back only through a call that says it failed, one that does not look, or *)
(* an interaction that is added or replaced.                                *)
THEOREM CheckedEditsServed == MaxInteractions < Modulus => (Spec => CheckedEditsAreServed)
<1> SUFFICES ASSUME MaxInteractions < Modulus
             PROVE  Spec => CheckedEditsAreServed
  OBVIOUS
<1> DEFINE Excused ==
             \/ last'.op = "edit" /\ ~last'.ok
             \/ last'.op \in {"unchecked", "message"}
             \/ last' = NoCall /\ serial' > serial
           Copied(port, id) ==
             servers[port].birth = handles[id].birth /\ handles'[id] # handles[id] => Excused
           Fresh ==
             \A port \in DOMAIN servers : \A id \in DOMAIN handles \cap DOMAIN handles' :
               Copied(port, id)
<1>1. RegistryInv /\ [Next]_vars => [Fresh]_vars
  <2> SUFFICES ASSUME RegistryInv, Next PROVE Fresh
    OBVIOUS
  <2>1. ASSUME NEW port \in DOMAIN servers, NEW id \in DOMAIN handles,
               servers[port].birth = handles[id].birth
        PROVE  handles[id].started
    BY <2>1 DEF RegistryInv, Served
  <2>2. ASSUME NEW id \in PactIds, Touches(handles', id),
               Excused \/ (handles[id].started => handles'[id] = handles[id])
        PROVE  Fresh
    <3> HIDE DEF Excused
    <3> SUFFICES ASSUME NEW port \in DOMAIN servers, NEW other \in DOMAIN handles,
                        servers[port].birth = handles[other].birth, handles'[other] # handles[other]
                 PROVE  Excused
      OBVIOUS
    <3>1. other = id
      BY <2>2 DEF Touches
    <3> QED
      BY <2>1, <2>2, <3>1
  <2>3. ASSUME handles' = handles
        PROVE  Fresh
    BY <2>3
  <2>4. ASSUME NEW id \in PactIds, EditPact(id) \/ AddMessagePactMetadata(id) \/ Silent(id),
               Touches(handles', id)
        PROVE  Fresh
    <3>1. Excused \/ (handles[id].started => handles'[id] = handles[id])
      <4>1. CASE EditPact(id) \/ AddMessagePactMetadata(id)
        BY <4>1, EditPactIs
      <4>2. CASE Silent(id)
        BY <4>2 DEF Silent
      <4> QED
        BY <2>4, <4>1, <4>2
    <3> HIDE DEF Fresh, Excused
    <3> QED
      BY <2>2, <2>4, <3>1
  <2>5. ASSUME NEW h \in issued,
               \/ Edit(h) \/ HttpEdit(h) \/ GuardedEdit(h) \/ UncheckedEdit(h) \/ MessageEdit(h)
               \/ \E d \in Descriptions : UponReceiving(h, d)
        PROVE  Fresh
    <3>1. \/ handles' = handles
          \/ /\ Touches(handles', PactOfRef(h.ref))
             /\ Excused \/ ~handles[PactOfRef(h.ref)].started
      BY <2>5, CallIs
    <3>2. Touches(handles', PactOfRef(h.ref)) => PactOfRef(h.ref) \in PactIds
      BY DEF Touches, RegistryInv, Registered
    <3> HIDE DEF Fresh, Excused
    <3> QED
      BY <2>2, <2>3, <3>1, <3>2
  <2>6. ASSUME NEW id \in PactIds, NewPact(id) \/ FreePact(id)
        PROVE  Fresh
    <3>1. \A other \in DOMAIN handles \cap DOMAIN handles' : handles'[other] = handles[other]
      BY <2>6 DEF NewPact, FreePact, Live
    <3> QED
      BY <3>1
  <2>7. \A port \in Ports : CleanupMockServer(port) => handles' = handles
    BY DEF CleanupMockServer
  <2> HIDE DEF Fresh
  <2> QED
    BY <2>3, <2>4, <2>5, <2>6, <2>7, StepIs
<1>2. Spec => [][Fresh]_vars
  BY <1>1, RegistryInOrder, PTL DEF Spec
<1> QED
  BY <1>2 DEF CheckedEditsAreServed

=============================================================================
