----------------------------- MODULE FfiHandles -----------------------------
(***************************************************************************)
(* The handle registry of pact_ffi: PACT_HANDLES, the pact, interaction    *)
(* and message handles over it, and the mock servers that are started from *)
(* a handle (pact_ffi/src/mock_server/handles.rs and mod.rs).              *)
(*                                                                         *)
(* Every entry point takes the PACT_HANDLES mutex for its whole run, so    *)
(* each is one action, and Next interleaves the calls of all the threads   *)
(* of the test process.  A handle is a plain number that clients copy and  *)
(* may go on using after they freed the pact: "issued" is all the handles  *)
(* anybody ever got.  What an interaction says is its revision, which a    *)
(* modification increases.                                                 *)
(***************************************************************************)
EXTENDS Naturals, Sequences, FiniteSets

CONSTANTS
  Modulus,          \* 2^16 in the code: pact ids and interaction indices are u16
  PactIds,          \* the ids rand::random may return: a subset of 0..Modulus-1
  Descriptions,
  Kinds,            \* of interactions: "http", "message" and "syncMessage"
  Ports,            \* what a mock server can be bound to
  OverflowChecks,   \* TRUE for a debug build: u16 subtraction panics
  LegacyMessages,   \* whether pactffi_new_async_message is called
  MaxInteractions,  \* bound on the interactions of one pact
  MaxSerial,        \* bound on the pacts and interactions ever made
  MaxRev,           \* bound on the modifications of one interaction
  Nothing

ASSUME ModulusAssumption ==
  /\ Modulus \in Nat \ {0, 1}
  /\ PactIds \subseteq 0..(Modulus - 1)

\* The code knows more kinds than "message"; the bounds are the model's.
ASSUME BoundsAssumption ==
  /\ "message" \in Kinds
  /\ {MaxInteractions, MaxSerial, MaxRev} \subseteq Nat

ASSUME SwitchAssumption ==
  /\ Nothing \notin Nat
  /\ OverflowChecks \in BOOLEAN
  /\ LegacyMessages \in BOOLEAN

VARIABLES
  handles,   \* PACT_HANDLES: a partial function from pact ids to pacts
  servers,   \* running mock servers: the pact copy that each one serves
  poisoned,  \* the mutex was left by a panic
  serial,    \* history: pacts and interactions made so far
  issued,    \* history: every handle given out, and what it was given out for
  last       \* history: the last call through an interaction handle

vars == <<handles, servers, poisoned, serial, issued, last>>

-----------------------------------------------------------------------------
(* The numbers: u16 pact id in the high half, u16 index in the low half.   *)

\* Mutants of NewRef: the index counts from zero; the id is not shifted.
MNewRefFromZero(id, index) == id * Modulus + ((index - 1) % Modulus)
MNewRefUnshifted(id, index) == id + index

\* InteractionHandle::new and MessageHandle::new take the index as u16.
NewRef(id, index) == id * Modulus + (index % Modulus)

\* MessageHandle::new_v4 adds the index as u32.
NewRefV4(id, index) == (id * Modulus + index) % (Modulus * Modulus)

PactOfRef(ref) == ref \div Modulus
IndexOfRef(ref) == ref % Modulus

\* get_mut((interaction - 1) as usize): index zero wraps round to the largest
\* u16 unless the build checks for overflow.
Position(ref) == IF IndexOfRef(ref) = 0 THEN Modulus ELSE IndexOfRef(ref)

Live(id) == id \in DOMAIN handles

Found(ref) ==
  /\ Live(PactOfRef(ref))
  /\ Position(ref) <= Len(handles[PactOfRef(ref)].interactions)

Resolve(ref) == handles[PactOfRef(ref)].interactions[Position(ref)]

\* The subtraction in with_interaction panics with the mutex held.
Panics(ref) == OverflowChecks /\ Live(PactOfRef(ref)) /\ IndexOfRef(ref) = 0

\* What the properties need of a call: which pact its handle was made for.
Record(op, birth, ok) == last' = [op |-> op, birth |-> birth, ok |-> ok]

NoCall == [op |-> "none", birth |-> Nothing, ok |-> TRUE]

Init ==
  /\ handles = [id \in {} |-> Nothing]
  /\ servers = [port \in {} |-> Nothing]
  /\ poisoned = FALSE
  /\ serial = 0
  /\ issued = {}
  /\ last = NoCall

-----------------------------------------------------------------------------
(* Pacts.                                                                  *)

\* PactHandle::new and MessagePactHandle::new: a random id that is not in use.
NewPact(id) ==
  /\ ~poisoned /\ serial < MaxSerial
  /\ ~Live(id)
  /\ handles' = [i \in DOMAIN handles \cup {id} |->
                   IF i = id THEN [birth |-> serial, started |-> FALSE,
                                   rev |-> 0, interactions |-> <<>>]
                   ELSE handles[i]]
  /\ serial' = serial + 1
  /\ last' = NoCall
  /\ UNCHANGED <<servers, poisoned, issued>>

\* pactffi_free_pact_handle and pactffi_free_message_pact_handle.  A mock
\* server that was started from the pact has its own copy.
FreePact(id) ==
  /\ ~poisoned
  /\ Live(id)
  /\ handles' = [i \in DOMAIN handles \ {id} |-> handles[i]]
  /\ last' = NoCall
  /\ UNCHANGED <<servers, poisoned, serial, issued>>

\* pactffi_with_specification and pactffi_with_pact_metadata: the pact is
\* modified, then the result says whether it could be.
EditPact(id) ==
  /\ ~poisoned /\ Live(id)
  /\ handles[id].rev < MaxRev
  /\ handles' = [handles EXCEPT ![id].rev = @ + 1]
  /\ Record("edit", handles[id].birth, ~handles[id].started)
  /\ UNCHANGED <<servers, poisoned, serial, issued>>

\* pactffi_with_message_pact_metadata neither looks nor says anything.
AddMessagePactMetadata(id) ==
  /\ ~poisoned /\ Live(id)
  /\ handles[id].rev < MaxRev
  /\ handles' = [handles EXCEPT ![id].rev = @ + 1]
  /\ Record("message", handles[id].birth, TRUE)
  /\ UNCHANGED <<servers, poisoned, serial, issued>>

-----------------------------------------------------------------------------
(* Interactions.                                                           *)

Interaction(d, kind) == [desc |-> d, kind |-> kind, serial |-> serial, rev |-> 0]

Issue(ref, id, message) ==
  /\ issued' = issued \cup
       {[ref |-> ref, birth |-> handles[id].birth, serial |-> serial, message |-> message]}
  /\ serial' = serial + 1
  /\ last' = NoCall

Push(id, d, kind) ==
  /\ Len(handles[id].interactions) < MaxInteractions
  /\ handles' = [handles EXCEPT ![id].interactions = Append(@, Interaction(d, kind))]

\* find_interaction_with_description: the first of them.
FirstWith(id, d) ==
  LET all == handles[id].interactions
      same == {i \in DOMAIN all : all[i].desc = d}
  IN IF same = {} THEN 0 ELSE CHOOSE i \in same : \A j \in same : i <= j

\* pactffi_new_interaction, pactffi_new_message_interaction and
\* pactffi_new_sync_message_interaction: an interaction with the same
\* description is replaced where it is, whatever its kind.
NewInteraction(id, d, kind) ==
  /\ ~poisoned /\ Live(id) /\ serial < MaxSerial
  /\ LET i == FirstWith(id, d) IN
     IF i # 0
     THEN /\ handles' = [handles EXCEPT ![id].interactions[i] = Interaction(d, kind)]
          /\ Issue(NewRef(id, i), id, FALSE)
     ELSE /\ Push(id, d, kind)
          /\ Issue(NewRef(id, Len(handles[id].interactions) + 1), id, FALSE)
  /\ UNCHANGED <<servers, poisoned>>

\* These and the functions for messages with a description that is NULL: a
\* handle with index 0.
NewInteractionFails(id) ==
  /\ ~poisoned /\ Live(id) /\ serial < MaxSerial
  /\ \E message \in BOOLEAN : Issue(NewRef(id, 0), id, message)
  /\ UNCHANGED <<handles, servers, poisoned>>

\* pactffi_new_message and pactffi_new_async_message always add.
NewMessage(id, d) ==
  /\ ~poisoned /\ Live(id) /\ serial < MaxSerial
  /\ Push(id, d, "message")
  /\ LET n == Len(handles[id].interactions) + 1 IN
     \/ Issue(NewRef(id, n), id, TRUE)
     \/ LegacyMessages /\ Issue(NewRefV4(id, n), id, TRUE)
  /\ UNCHANGED <<servers, poisoned>>

Modified(ref) ==
  [handles EXCEPT ![PactOfRef(ref)].interactions[Position(ref)].rev = @ + 1]

\* A call through an interaction handle that is not a message handle.
Call(h) ==
  /\ ~poisoned
  /\ ~h.message
  /\ Found(h.ref) => Resolve(h.ref).rev < MaxRev
  /\ poisoned' = Panics(h.ref)
  /\ UNCHANGED <<servers, serial, issued>>

\* pactffi_given, pactffi_given_with_param, ...: the closure modifies the
\* interaction and returns !mock_server_started.
Edit(h) ==
  /\ Record("edit", h.birth, Found(h.ref) /\ ~handles[PactOfRef(h.ref)].started)
  /\ handles' = IF Found(h.ref) /\ ~Panics(h.ref) THEN Modified(h.ref) ELSE handles
  /\ Call(h)

\* pactffi_with_request, pactffi_with_query_parameter_v2, ...: the same, but an
\* interaction that is not HTTP is left alone.
HttpEdit(h) ==
  LET may == Found(h.ref) /\ ~Panics(h.ref) /\ Resolve(h.ref).kind = "http" IN
  /\ Record("edit", h.birth, may /\ ~handles[PactOfRef(h.ref)].started)
  /\ handles' = IF may THEN Modified(h.ref) ELSE handles
  /\ Call(h)

\* pactffi_upon_receiving: the same as Edit, and the description need not be new.
UponReceiving(h, d) ==
  /\ Found(h.ref) /\ ~Panics(h.ref)
  /\ Record("edit", h.birth, ~handles[PactOfRef(h.ref)].started)
  /\ handles' = [Modified(h.ref) EXCEPT
                   ![PactOfRef(h.ref)].interactions[Position(h.ref)].desc = d]
  /\ Call(h)

\* pactffi_interaction_test_name and pactffi_with_metadata look first.
GuardedEdit(h) ==
  LET may == Found(h.ref) /\ ~Panics(h.ref) /\ ~handles[PactOfRef(h.ref)].started IN
  /\ Record("guarded", h.birth, may)
  /\ handles' = IF may THEN Modified(h.ref) ELSE handles
  /\ Call(h)

\* pactffi_set_key, pactffi_set_pending, pactffi_set_comment,
\* pactffi_add_text_comment, pactffi_with_matching_rules and
\* pactffi_with_generators do not look at all.
UncheckedEdit(h) ==
  LET may == Found(h.ref) /\ ~Panics(h.ref) IN
  /\ Record("unchecked", h.birth, may)
  /\ handles' = IF may THEN Modified(h.ref) ELSE handles
  /\ Call(h)

IsMessage(ref) == Resolve(ref).kind = "message"

\* with_message: pactffi_message_given, pactffi_message_with_contents, ...
\* do nothing to an interaction that is not an asynchronous message
\* (is_message).  They return nothing.
MessageEdit(h) ==
  LET may == Found(h.ref) /\ ~Panics(h.ref) /\ IsMessage(h.ref) IN
  /\ ~poisoned
  /\ h.message
  /\ Found(h.ref) => Resolve(h.ref).rev < MaxRev
  /\ poisoned' = Panics(h.ref)
  /\ Record("message", h.birth, TRUE)
  /\ handles' = IF may THEN Modified(h.ref) ELSE handles
  /\ UNCHANGED <<servers, serial, issued>>

-----------------------------------------------------------------------------
(* Mock servers.                                                           *)

\* Mutant of Started: the handle's copy of mock_server_started is not set.
MStarted(id) == handles

Started(id) == [handles EXCEPT ![id].started = TRUE]

\* pactffi_create_mock_server_for_pact and _for_transport: the server gets a
\* copy of the pact as it is now.  A port that is in use is error -3.
CreateMockServer(id, port) ==
  /\ ~poisoned /\ Live(id)
  /\ port \notin DOMAIN servers
  /\ servers' = [p \in DOMAIN servers \cup {port} |->
                   IF p = port THEN handles[id] ELSE servers[p]]
  /\ handles' = Started(id)
  /\ last' = NoCall
  /\ UNCHANGED <<poisoned, serial, issued>>

\* pactffi_cleanup_mock_server shuts the server down and does not come near
\* PACT_HANDLES.
CleanupMockServer(port) ==
  /\ port \in DOMAIN servers
  /\ servers' = [p \in DOMAIN servers \ {port} |-> servers[p]]
  /\ last' = NoCall
  /\ UNCHANGED <<handles, poisoned, serial, issued>>

Next ==
  \/ \E id \in PactIds :
       \/ NewPact(id) \/ FreePact(id) \/ NewInteractionFails(id)
       \/ EditPact(id) \/ AddMessagePactMetadata(id)
       \/ \E d \in Descriptions :
            NewMessage(id, d) \/ \E kind \in Kinds : NewInteraction(id, d, kind)
       \/ \E port \in Ports : CreateMockServer(id, port)
  \/ \E h \in issued :
       \/ Edit(h) \/ HttpEdit(h) \/ GuardedEdit(h) \/ UncheckedEdit(h) \/ MessageEdit(h)
       \/ \E d \in Descriptions : UponReceiving(h, d)
  \/ \E port \in Ports : CleanupMockServer(port)

Spec == Init /\ [][Next]_vars

-----------------------------------------------------------------------------
(* Properties.                                                             *)

InteractionSet ==
  [desc : Descriptions, kind : Kinds, serial : 0..MaxSerial, rev : 0..MaxRev]

TypeOK ==
  /\ DOMAIN handles \subseteq PactIds
  /\ \A id \in DOMAIN handles :
       /\ handles[id].started \in BOOLEAN
       /\ handles[id].birth \in 0..MaxSerial
       /\ \A i \in DOMAIN handles[id].interactions :
            handles[id].interactions[i] \in InteractionSet
  /\ poisoned \in BOOLEAN
  /\ serial \in 0..MaxSerial
  /\ \A h \in issued : h.ref \in 0..(Modulus * Modulus - 1)

\* A handle that was given out for an interaction leads to that interaction,
\* or to the one that replaced it, for as long as its pact is not freed.
HandlesResolve ==
  \A h \in issued :
    LET id == PactOfRef(h.ref) IN
    (IndexOfRef(h.ref) # 0 /\ Live(id) /\ handles[id].birth = h.birth) =>
      Found(h.ref) /\ Resolve(h.ref).serial >= h.serial

\* The handles a program holds are numbers in range that lead where they did.
HandlesAreSound == TypeOK /\ HandlesResolve

\* No call through a handle whose pact has not been freed modifies another
\* pact, although the handle is only a number.
NoForeignWrite ==
  [][last'.birth # Nothing =>
       \A id \in DOMAIN handles :
         (id \in DOMAIN handles' /\ handles'[id] # handles[id]) =>
           \/ handles[id].birth = last'.birth
           \/ \A i \in DOMAIN handles : handles[i].birth # last'.birth]_vars

\* While a mock server serves a copy of a pact, the pact changes behind its
\* back only as follows: a call that says it failed, although it has changed
\* the pact (pactffi_given, ...); a call that does not look and reports success
\* (pactffi_set_key, ...) or has no result (the message functions); or an
\* interaction that is added or replaced.  No call that looks and reports
\* success does it, and those that look first leave the pact as it is.
CheckedEditsAreServed ==
  [][\A port \in DOMAIN servers : \A id \in DOMAIN handles \cap DOMAIN handles' :
       servers[port].birth = handles[id].birth /\ handles'[id] # handles[id] =>
         \/ last'.op = "edit" /\ ~last'.ok
         \/ last'.op \in {"unchecked", "message"}
         \/ last' = NoCall /\ serial' > serial]_vars

=============================================================================
