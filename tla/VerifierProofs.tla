--------------------------- MODULE VerifierProofs ---------------------------
(***************************************************************************)
(* Proofs about Verifier, for any pacts, options, tags and answers.        *)
(***************************************************************************)
EXTENDS Verifier, SublistProofs

-----------------------------------------------------------------------------
(* The inductive invariant: what the books say of the past is what happened.*)

InCalls   == {"setup", "verify", "teardown"}
InPact    == InCalls \cup {"interactions"}
Publishes == {"branch", "tags", "notice"}

\* The pacts that are done with: the present one too, once its results are
\* in the books.
Past(q) == \/ q < p
           \/ q = p /\ phase \notin InPact \cup {"plugins", "pact", "pluginSilent"} /\ outcome # "error"

\* The interactions of the present pact that have their result.
Taken(j) == /\ j \in Chosen(Pact)
            /\ CASE phase = "interactions" -> j <= i
                 [] phase \in InCalls      -> j < i
                 [] OTHER                  -> TRUE

\* The phase goes with the pact that is worked on, and s with the calls.
PlaceIsRight ==
  /\ phase \in (InPact \cup Publishes \cup {"plugins", "pact"}) =>
       p \in 1 .. Len(Pacts) /\ p \in Loaded
  /\ phase \in InCalls => /\ i \in Chosen(Pact)
                          /\ s \in 0 .. Len(CallsFor(Now))
  /\ phase = "tags" => s \in 0 .. Len(Tags)
  /\ phase = "done" <=> outcome # "none"
  /\ outcome \in {"passed", "failed"} => p = Len(Pacts)

\* Nothing has been asked or has gone wrong beyond the present place.
NothingAhead ==
  \A q, j \in Nat : <<q, j>> \in asked \cup trouble =>
    \/ q < p
    \/ q = p /\ phase \notin {"plugins", "pact"} /\ (phase \in InPact => j <= i)

\* During an interaction the local flags say what the history says.
FlagsAreTrue ==
  /\ phase = "setup" => /\ <<p, i>> \notin asked
                        /\ failed <=> <<p, i>> \in trouble
  /\ phase = "verify" => <<p, i>> \notin asked /\ <<p, i>> \notin trouble
  /\ phase = "teardown" => /\ <<p, i>> \in asked
                           /\ (~passed \/ failed) <=> <<p, i>> \in trouble

\* The results of the present pact are those of the interactions taken.
ResultsAreTrue ==
  phase \in InPact \cup Publishes =>
    \A j \in Nat, ok \in BOOLEAN :
      [i |-> j, ok |-> ok] \in results <=> Taken(j) /\ (ok <=> Succeeded(p, j))

\* So are the results reported, and the errors, of the pacts done with.
ReportsAreTrue ==
  \A q, j \in Nat, ok \in BOOLEAN :
    [id |-> <<q, j>>, ok |-> ok] \in reported <=>
      q \in Loaded /\ Past(q) /\ j \in Chosen(Pacts[q]) /\ (ok <=> Succeeded(q, j))

FailedIn(q, j, pending) ==
  /\ q \in Loaded /\ Past(q) /\ j \in Chosen(Pacts[q])
  /\ IsPending(Pacts[q], j) = pending /\ ~Succeeded(q, j)

MissingPact(q, j) == j = 0 /\ q \in DOMAIN Pacts \ Loaded /\ q <= p /\ ~Excused(q)

ErrorsAreTrue ==
  \A q, j \in Nat :
    /\ <<q, j>> \in errors <=> FailedIn(q, j, FALSE) \/ MissingPact(q, j)
    /\ <<q, j>> \in pendingErrors <=> FailedIn(q, j, TRUE)

\* What was told outside is about pacts that are done with.
TellsOfThePast ==
  /\ \A r \in posted : r.p \in Loaded /\ Past(r.p)
  /\ \A n \in notices : n.p \in Loaded /\ Past(n.p)

\* The tags are put in their order after the branch.
TagsInOrder ==
  /\ phase = "tags" => branch /\ \A k \in 1 .. s : Tags[k] \in tags
  /\ posted # {} => branch /\ tags = ToSet(Tags)

\* The states that have been called for, and how many calls were made.
Called(n) == {CallsFor(Now)[k] : k \in 1 .. n}

\* What the provider has been put into, as long as no call has failed.
StatesAreSet ==
  /\ phase = "setup" /\ ~failed => Called(s) \subseteq active
  /\ phase = "verify" => StatesOf(Now) \subseteq active
  /\ config.teardown /\ trouble = {} =>
       /\ phase = "setup" => active = Called(s)
       /\ phase = "verify" => active = StatesOf(Now)
       /\ phase = "teardown" => active = StatesOf(Now) \ Called(s)
       /\ phase \notin InCalls \cup {"pluginSilent"} => active = {}

\* The outcome of a run that returns results is about all of its errors.
OutcomeIsTrue == outcome \in {"passed", "failed"} => (outcome = "passed" <=> errors = {})

HistoryInv == NothingAhead /\ FlagsAreTrue

\* The steps that end the work on the pacts and leave the books as they are.
Stops == PublishPanics \/ ServiceSilent \/ PluginSilent

-----------------------------------------------------------------------------
(* The operators.                                                          *)

\* The pacts kept are a list of pacts.
LEMMA PactsAreShapes ==
  ASSUME fetched \in Fetchable
  PROVE  Pacts \in Seq(PactShapes)
<1> DEFINE K == {f \in ToSet(fetched) : Kept(f)}
<1>1. fetched \in Seq(PactShapes)
  BY VerifierAssumption
<1>2. Within(fetched, K) \in Seq(PactShapes \cap K)
  BY <1>1, WithinIsList
<1>3. Pacts = Within(fetched, K)
  BY DEF Pacts
<1> HIDE DEF K
<1> QED
  BY <1>2, <1>3

\* The parts of a pact, and its selected interactions.
LEMMA PartsOfPact ==
  ASSUME NEW pact \in PactShapes
  PROVE  /\ pact.interactions \in Seq(InteractionShapes)
         /\ pact.load \in {"ok", "notFound", "failed"} /\ pact.source \in {"file", "url", "broker"}
         /\ pact.plugin \in BOOLEAN /\ pact.pending \in BOOLEAN
         /\ Chosen(pact) \subseteq 1 .. Len(pact.interactions)
         /\ \A j \in Chosen(pact) : /\ pact.interactions[j] \in InteractionShapes
                                    /\ IsPending(pact, j) \in BOOLEAN
<1>1. pact.interactions \in Seq(InteractionShapes)
  BY DEF PactShapes
<1>2. Chosen(pact) \subseteq 1 .. Len(pact.interactions)
  BY <1>1 DEF Chosen
<1>3. \A j \in Chosen(pact) : pact.interactions[j] \in InteractionShapes
  BY <1>1, <1>2
<1>4. \A j \in Chosen(pact) : IsPending(pact, j) \in BOOLEAN
  BY Zenon DEF IsPending
<1> QED
  BY <1>1, <1>2, <1>3, <1>4 DEF PactShapes

LEMMA CallsAreNamed ==
  ASSUME NEW interaction \in InteractionShapes
  PROVE  /\ CallsFor(interaction) \in Seq(StateNames)
         /\ CallsFor(interaction) # <<>>
         /\ StatesOf(interaction) = {CallsFor(interaction)[k] : k \in 1 .. Len(CallsFor(interaction))}
<1>1. interaction.states \in Seq(StateNames)
  BY DEF InteractionShapes
<1>2. <<"">> \in Seq(StateNames)
  <2>1. \A x \in StateNames : <<x>> \in Seq(StateNames)
    OBVIOUS
  <2> QED
    BY <2>1, VerifierAssumption, Zenon
<1>3. <<"">> # <<>>
  OBVIOUS
<1>4. CallsFor(interaction) \in Seq(StateNames) /\ CallsFor(interaction) # <<>>
  BY <1>1, <1>2, <1>3 DEF CallsFor
<1> QED
  BY <1>4 DEF StatesOf, ToSet

\* Min (FiniteSetsExt) of selected interactions is one of them, and the first.
LEMMA FirstOfThem ==
  ASSUME NEW T, T \subseteq Nat, T # {}
  PROVE  Min(T) \in T /\ \A y \in T : Min(T) <= y
<1>1. \E x \in T : \A y \in T : x <= y
  BY LeastNatural
<1> QED
  BY <1>1 DEF Min

-----------------------------------------------------------------------------
(* Types.                                                                  *)

Base == TypeOK /\ PlaceIsRight

\* The options and the pacts of a run do not change.
LEMMA RunIsFixed ==
  ASSUME [Next]_vars
  PROVE  config' = config /\ fetched' = fetched /\ Pacts' = Pacts /\ Loaded' = Loaded
<1>1. config' = config /\ fetched' = fetched
  BY DEF Next, vars, run, NextPact, LoadPlugins, LoadPluginsFails, BeginPact,
     NextInteraction, SetupCall, SetupDone, Verify, TeardownCall, TeardownDone,
     Call, EndPact, Publish, PublishBranch, PublishTag, PublishResults, Notice, Finish, Stops,
       PublishPanics, ServiceSilent, PluginSilent
<1>2. Pacts' = Pacts
  BY <1>1 DEF Pacts, Kept
<1> QED
  BY <1>1, <1>2 DEF Loaded

LEMMA InitBase == Init => Base
<1> SUFFICES ASSUME Init PROVE Base
  OBVIOUS
<1>1. Pacts \in Seq(PactShapes)
  BY PactsAreShapes DEF Init
<1>2. p \in 0 .. Len(Pacts)
  BY <1>1 DEF Init
<1>3. TypeOK
  BY <1>2 DEF Init, TypeOK, Phases
<1>4. PlaceIsRight
  BY DEF Init, PlaceIsRight, InCalls, InPact, Publishes
<1> QED
  BY <1>3, <1>4 DEF Base

\* What the invariant says of the pact that is worked on.
LEMMA PresentPact ==
  ASSUME Base
  PROVE  /\ Pacts \in Seq(PactShapes) /\ \A q \in DOMAIN Pacts : Pacts[q] \in PactShapes
         /\ phase \in InPact \cup Publishes \cup {"plugins", "pact"} =>
              p \in 1 .. Len(Pacts) /\ Pact \in PactShapes /\ p \in Loaded
         /\ phase \in InCalls => Now \in InteractionShapes /\ i \in Chosen(Pact)
<1>1. Pacts \in Seq(PactShapes)
  BY PactsAreShapes DEF Base, TypeOK
<1> QED
  BY <1>1, PartsOfPact DEF Base, PlaceIsRight, Pact, Now, InPact

\* Where the run is, as numbers.
LEMMA PlaceIsNumber ==
  ASSUME Base
  PROVE  p \in Nat /\ Loaded \subseteq Nat /\ Loaded \subseteq 1 .. Len(Pacts)
<1>1. Pacts \in Seq(PactShapes)
  BY PresentPact
<1>2. DOMAIN Pacts = 1 .. Len(Pacts) /\ Len(Pacts) \in Nat
  BY <1>1
<1>3. p \in 0 .. Len(Pacts)
  BY DEF Base, TypeOK
<1>4. Loaded \subseteq 1 .. Len(Pacts)
  BY <1>2 DEF Loaded
<1> QED
  BY <1>2, <1>3, <1>4

\* The interaction that NextInteraction takes.
LEMMA NextIsLeft ==
  ASSUME Base, phase = "interactions", Left # {}
  PROVE  /\ Min(Left) \in Chosen(Pact) /\ Min(Left) > i
         /\ \A j \in Chosen(Pact) : j > i => Min(Left) <= j
<1>1. Chosen(Pact) \subseteq Nat
  BY PresentPact, PartsOfPact DEF InPact
<1> QED
  BY <1>1, FirstOfThem DEF Left

LEMMA StepTypeOK ==
  ASSUME Base, Next
  PROVE  TypeOK'
<1> USE DEF Base
<1>f. config' \in Configs /\ fetched' \in Fetchable /\ Pacts' = Pacts
  BY RunIsFixed DEF TypeOK
<1>p. p \in 0 .. Len(Pacts) /\ Len(Pacts) \in Nat /\ i \in Nat /\ s \in Nat
  BY PresentPact DEF TypeOK
<1>1. CASE NextPact
  <2>1. p' \in 0 .. Len(Pacts) /\ p' = p + 1
    BY <1>1, <1>p DEF NextPact
  <2>2. errors' \subseteq Nat \X Nat
    BY <1>1, <1>p DEF NextPact, TypeOK
  <2>3. phase' \in {"pacts", "plugins", "pact"}
    BY <1>1 DEF NextPact
  <2> QED
    BY <1>1, <1>f, <2>1, <2>2, <2>3 DEF NextPact, TypeOK, Phases, run, broker, history
<1>2. CASE LoadPlugins \/ LoadPluginsFails
  BY <1>2, <1>f DEF LoadPlugins, LoadPluginsFails, TypeOK, Phases, run, place, books, broker, history
<1>3. CASE BeginPact
  <2>1. p > 0 /\ Len(Pact.interactions) \in Nat
    BY <1>3, <1>p, PresentPact, PartsOfPact DEF BeginPact
  <2>2. Pact' = Pact
    BY <1>3, <1>f DEF BeginPact, Pact
  <2> QED
    BY <1>3, <1>f, <2>1, <2>2 DEF BeginPact, FromTheStart, TypeOK, Phases, run, books, broker, history
<1>4. CASE NextInteraction
  <2>1. i' \in Chosen(Pact) /\ i' \in 0 .. Len(Pact.interactions) /\ i' \in Nat /\ p \in Nat /\ p > 0
    BY <1>4, <1>p, NextIsLeft, PresentPact, PartsOfPact DEF NextInteraction, InPact
  <2>2. Pact' = Pact
    BY <1>4, <1>f DEF NextInteraction, Pact
  <2>3. results' \subseteq [i : Nat, ok : BOOLEAN]
    <3>1. results' = results \/ results' = results \union {[i |-> i', ok |-> FALSE]}
      BY <1>4 DEF NextInteraction
    <3>2. [i |-> i', ok |-> FALSE] \in [i : Nat, ok : BOOLEAN]
      BY <2>1
    <3> QED
      BY <3>1, <3>2 DEF TypeOK
  <2>4. asked' \subseteq Nat \X Nat /\ trouble' \subseteq Nat \X Nat
    BY <1>4, <2>1 DEF NextInteraction, TypeOK, history
  <2>5. phase' \in {"setup", "interactions"} /\ s' = 0 /\ failed' = FALSE
    BY <1>4 DEF NextInteraction
  <2>6. UNCHANGED <<run, p, passed, books, plugins, active, broker>>
    BY <1>4 DEF NextInteraction
  <2> QED
    BY <1>f, <2>1, <2>2, <2>3, <2>4, <2>5, <2>6 DEF TypeOK, Phases, run, books, broker
<1>5. CASE SetupCall \/ TeardownCall
  <2>1. PICK setup, ok, applied \in BOOLEAN : Call(setup, ok, applied) /\ phase \in InCalls
    BY <1>5 DEF SetupCall, TeardownCall, InCalls
  <2>2. CallsFor(Now)[s + 1] \in StateNames
    <3>1. CallsFor(Now) \in Seq(StateNames)
      BY <2>1, PresentPact, CallsAreNamed
    <3> QED
      BY <2>1, <1>p, <3>1 DEF Call
  <2>3. active' \subseteq StateNames
    BY <2>1, <2>2 DEF Call, TypeOK
  <2>4. trouble' \subseteq Nat \X Nat /\ failed' \in BOOLEAN
    BY <2>1, <1>p DEF Call, TypeOK
  <2>5. Pact' = Pact
    BY <2>1, <1>f DEF Call, Pact
  <2> QED
    BY <2>1, <1>f, <1>p, <2>3, <2>4, <2>5 DEF Call, TypeOK, run, books, broker
<1>6. CASE SetupDone \/ TeardownDone
  <2>1. PICK ok \in BOOLEAN : /\ results' \in {results, results \union {[i |-> i, ok |-> ok]}}
                              /\ phase' \in {"interactions", "verify"}
                              /\ phase \in InCalls
                              /\ UNCHANGED <<run, place, failed, passed, books, plugins, active, broker, history>>
    <3>1. CASE SetupDone
      BY <3>1 DEF SetupDone, Record, InCalls
    <3>2. CASE TeardownDone
      <4>1. (passed /\ ~failed) \in BOOLEAN
        OBVIOUS
      <4> QED
        BY <3>2, <4>1 DEF TeardownDone, Record, InCalls
    <3> QED
      BY <1>6, <3>1, <3>2
  <2>2. Pact' = Pact
    BY <2>1, <1>f DEF place, Pact
  <2>3. results' \subseteq [i : Nat, ok : BOOLEAN]
    BY <2>1, <1>p DEF TypeOK
  <2> QED
    BY <2>1, <2>2, <2>3, <1>f DEF TypeOK, Phases, run, place, books, broker, history, InCalls
<1>7. CASE \E ok \in BOOLEAN : Verify(ok)
  <2>1. PICK ok \in BOOLEAN : Verify(ok)
    BY <1>7
  <2>2. Pact' = Pact
    BY <2>1, <1>f DEF Verify, Pact
  <2>3. results' \subseteq [i : Nat, ok : BOOLEAN]
    BY <2>1, <1>p DEF Verify, Record, TypeOK
  <2>4. asked' \subseteq Nat \X Nat /\ trouble' \subseteq Nat \X Nat
    BY <2>1, <1>p DEF Verify, TypeOK
  <2>5. /\ phase \in InCalls /\ phase' \in {"teardown", "interactions"}
        /\ s' \in {s, 0} /\ failed' \in {failed, FALSE} /\ passed' = ok
    BY <2>1 DEF Verify, Record, InCalls
  <2>6. /\ p' = p /\ i' = i /\ plugins' = plugins /\ active' = active
        /\ reported' = reported /\ errors' = errors /\ pendingErrors' = pendingErrors
        /\ notices' = notices /\ outcome' = outcome
        /\ branch' = branch /\ tags' = tags /\ posted' = posted
    BY <2>1 DEF Verify, books, broker
  <2>7. phase \in {"setup", "verify", "teardown"}
    BY <2>5 DEF InCalls
  <2>8. phase' \in Phases /\ s' \in Nat
    BY <2>5, <1>p DEF Phases
  <2>9. failed' \in BOOLEAN /\ passed' \in BOOLEAN
    BY <2>5, Zenon DEF TypeOK
  <2> QED
    BY <2>2, <2>3, <2>4, <2>6, <2>7, <2>8, <2>9, <1>f DEF TypeOK
<1>8. CASE EndPact
  <2>1. reported' \subseteq [id : Nat \X Nat, ok : BOOLEAN]
    BY <1>8, <1>p DEF EndPact, TypeOK
  <2>2. \A pending \in BOOLEAN : Ids(Failures(Pact, results, pending)) \subseteq Nat \X Nat
    BY <1>p DEF Ids, Failures, TypeOK
  <2>3. errors' \subseteq Nat \X Nat /\ pendingErrors' \subseteq Nat \X Nat
    BY <1>8, <2>2 DEF EndPact, TypeOK
  <2>4. phase' \in {"branch", "notice"}
    BY <1>8 DEF EndPact
  <2>5. /\ p' = p /\ i' = i /\ s' = s /\ failed' = failed /\ passed' = passed
        /\ results' = results /\ notices' = notices /\ outcome' = outcome
        /\ plugins' = plugins /\ active' = active
        /\ branch' = branch /\ tags' = tags /\ posted' = posted
        /\ asked' = asked /\ trouble' = trouble
    BY <1>8 DEF EndPact, place, broker, history
  <2>6. phase' \in Phases
    BY <2>4 DEF Phases
  <2>7. phase' \notin {"interactions", "setup", "verify", "teardown"}
    BY <2>4
  <2> HIDE DEF Phases
  <2>8. /\ p' \in 0 .. Len(Pacts') /\ i' \in Nat /\ s' \in Nat
        /\ results' \subseteq [i : Nat, ok : BOOLEAN]
        /\ notices' \subseteq [p : Nat, success : BOOLEAN, published : BOOLEAN]
    BY <1>f, <2>5 DEF TypeOK
  <2>9. /\ failed' \in BOOLEAN /\ passed' \in BOOLEAN /\ plugins' \in BOOLEAN
        /\ outcome' \in {"none", "passed", "failed", "error", "panic"}
        /\ active' \subseteq StateNames /\ branch' \in BOOLEAN
    BY <2>5, Zenon DEF TypeOK
  <2>10. /\ tags' \subseteq ToSet(Tags) /\ posted' \subseteq [p : Nat, ok : BOOLEAN]
         /\ asked' \subseteq Nat \X Nat /\ trouble' \subseteq Nat \X Nat
    BY <2>5, Zenon DEF TypeOK
  <2>11. config' \in Configs /\ fetched' \in Fetchable
    BY <1>f DEF TypeOK
  <2> QED
    BY <2>1, <2>3, <2>6, <2>7, <2>8, <2>9, <2>10, <2>11 DEF TypeOK
<1>9. CASE Publish
  <2>1. CASE \E answer \in Answers, applied \in BOOLEAN : PublishBranch(answer, applied)
    <3>1. phase' \in {"tags", "notice", "unanswered"} /\ branch' \in BOOLEAN
      BY <2>1 DEF PublishBranch, After, TypeOK
    <3>2. s' \in Nat
      BY <2>1, <1>p DEF PublishBranch
    <3>3. /\ p' = p /\ i' = i /\ failed' = failed /\ passed' = passed /\ results' = results
          /\ reported' = reported /\ errors' = errors /\ pendingErrors' = pendingErrors
          /\ notices' = notices /\ outcome' = outcome /\ plugins' = plugins /\ active' = active
          /\ tags' = tags /\ posted' = posted /\ asked' = asked /\ trouble' = trouble
      BY <2>1 DEF PublishBranch, books, history
    <3>4. phase' \in Phases
      BY <3>1 DEF Phases
    <3>5. phase' \notin {"interactions", "setup", "verify", "teardown"}
      BY <3>1
    <3> HIDE DEF Phases
    <3> QED
      BY <1>f, <3>1, <3>2, <3>3, <3>4, <3>5 DEF TypeOK
  <2>2. CASE \E answer \in Answers, applied \in BOOLEAN : PublishTag(answer, applied)
    <3>0. s < Len(Tags) => Tags[s + 1] \in ToSet(Tags)
      <4>1. DOMAIN Tags = 1 .. Len(Tags) /\ Len(Tags) \in Nat
        <5>1. Tags \in Seq(ToSet(Tags))
          BY VerifierAssumption
        <5> QED
          BY <5>1
      <4>2. s < Len(Tags) => s + 1 \in DOMAIN Tags
        BY <1>p, <4>1
      <4> QED
        BY <4>2 DEF ToSet
    <3>1. tags' \subseteq ToSet(Tags)
      BY <2>2, <3>0 DEF PublishTag, TypeOK
    <3>2. s' = s + 1 /\ s' \in Nat
      BY <2>2, <1>p DEF PublishTag
    <3>3. phase' \in {"tags", "notice", "unanswered"}
      BY <2>2 DEF PublishTag, After
    <3>4. /\ p' = p /\ i' = i /\ failed' = failed /\ passed' = passed /\ results' = results
          /\ reported' = reported /\ errors' = errors /\ pendingErrors' = pendingErrors
          /\ notices' = notices /\ outcome' = outcome /\ plugins' = plugins /\ active' = active
          /\ branch' = branch /\ posted' = posted /\ asked' = asked /\ trouble' = trouble
      BY <2>2 DEF PublishTag, books, history
    <3> QED
      BY <1>f, <3>1, <3>2, <3>3, <3>4 DEF TypeOK, Phases
  <2>3. CASE \E answer \in Answers, applied \in BOOLEAN : PublishResults(answer, applied)
    <3>1. Verdict \in BOOLEAN
      BY DEF Verdict
    <3>2. posted' \subseteq [p : Nat, ok : BOOLEAN]
      BY <2>3, <1>p, <3>1 DEF PublishResults, TypeOK
    <3> QED
      BY <2>3, <1>f, <3>2 DEF PublishResults, After, TypeOK, Phases, run, place, books, history
  <2> QED
    BY <1>9, <2>1, <2>2, <2>3 DEF Publish
<1>10. CASE Notice
  <2>1. NoticeSaysSuccess \in BOOLEAN /\ config.publish \in BOOLEAN
    BY VerifierAssumption DEF NoticeSaysSuccess, TypeOK
  <2>2. notices' \subseteq [p : Nat, success : BOOLEAN, published : BOOLEAN]
    BY <1>10, <2>1, <1>p DEF Notice, TypeOK
  <2> QED
    BY <1>10, <1>f, <2>2 DEF Notice, TypeOK, Phases, run, place, broker, history
<1>11. CASE Finish
  BY <1>11, <1>f DEF Finish, TypeOK, Phases, run, place, broker, history
<1>12. CASE Stops
  BY <1>12, <1>f DEF Stops, PublishPanics, ServiceSilent, PluginSilent, TypeOK, Phases, run, place,
     books, broker, history
<1> QED
  BY <1>1, <1>2, <1>3, <1>4, <1>5, <1>6, <1>7, <1>8, <1>9, <1>10, <1>11, <1>12 DEF Next, Stops

LEMMA StepPlace ==
  ASSUME Base, Next
  PROVE  PlaceIsRight'
<1> USE DEF Base
<1>f. Pacts' = Pacts /\ Loaded' = Loaded
  BY RunIsFixed
<1>p. p \in 0 .. Len(Pacts) /\ Len(Pacts) \in Nat /\ s \in Nat /\ Pacts \in Seq(PactShapes)
  BY PresentPact DEF TypeOK
<1> USE DEF PlaceIsRight, InCalls, InPact, Publishes
<1>1. CASE NextPact
  <2>1. p' = p + 1 /\ p + 1 \in 1 .. Len(Pacts)
    BY <1>1, <1>p DEF NextPact
  <2>2. phase' # "pacts" => p + 1 \in Loaded
    BY <1>1, <1>p, <2>1 DEF NextPact, Loaded
  <2>3. phase' \in {"pacts", "plugins", "pact"} /\ outcome' = outcome /\ outcome = "none"
    BY <1>1 DEF NextPact, TypeOK
  <2> QED
    BY <1>f, <2>1, <2>2, <2>3
<1>2. CASE LoadPlugins
  BY <1>2, <1>f DEF LoadPlugins, place, books
<1>3. CASE LoadPluginsFails
  BY <1>3, <1>f DEF LoadPluginsFails, place
<1>4. CASE BeginPact
  BY <1>4, <1>f DEF BeginPact, books
<1>5. CASE NextInteraction
  <2>1. i' \in Chosen(Pact) /\ p' = p /\ phase' \in {"setup", "interactions"} /\ s' = 0
        /\ outcome' = outcome /\ phase = "interactions"
    BY <1>5, NextIsLeft DEF NextInteraction, books
  <2>2. Pact' = Pact /\ Now' = Pact.interactions[i']
    BY <1>f, <2>1 DEF Pact, Now
  <2>3. CallsFor(Now') \in Seq(StateNames)
    BY <2>1, <2>2, PresentPact, PartsOfPact, CallsAreNamed
  <2>4. 0 \in 0 .. Len(CallsFor(Now'))
    BY <2>3
  <2> QED
    BY <1>f, <2>1, <2>2, <2>4
<1>6. CASE SetupCall \/ TeardownCall
  <2>1. PICK setup, ok, applied \in BOOLEAN : Call(setup, ok, applied) /\ phase \in InCalls
    BY <1>6 DEF SetupCall, TeardownCall
  <2>2. phase' = phase /\ p' = p /\ i' = i /\ s' = s + 1 /\ s < Len(CallsFor(Now)) /\ outcome' = outcome
    BY <2>1 DEF Call, books
  <2>3. Pact' = Pact /\ Now' = Now
    BY <1>f, <2>2 DEF Pact, Now
  <2>4. CallsFor(Now) \in Seq(StateNames)
    BY <2>1, PresentPact, CallsAreNamed
  <2>5. s + 1 \in 0 .. Len(CallsFor(Now))
    BY <1>p, <2>2, <2>4
  <2> QED
    BY <1>f, <2>1, <2>2, <2>3, <2>5
<1>7. CASE SetupDone
  <2>1. /\ phase = "setup" /\ phase' \in {"interactions", "verify"}
        /\ p' = p /\ i' = i /\ s' = s /\ outcome' = outcome
    BY <1>7 DEF SetupDone, Record, place, books
  <2>2. Pact' = Pact /\ Now' = Now
    BY <1>f, <2>1 DEF Pact, Now
  <2> QED
    BY <1>f, <2>1, <2>2
<1>8. CASE TeardownDone
  <2>1. /\ phase = "teardown" /\ phase' = "interactions"
        /\ p' = p /\ i' = i /\ s' = s /\ outcome' = outcome
    BY <1>8 DEF TeardownDone, Record, place, books
  <2> QED
    BY <1>f, <2>1
<1>9. CASE \E ok \in BOOLEAN : Verify(ok)
  <2>1. /\ phase = "verify" /\ phase' \in {"interactions", "teardown"}
        /\ p' = p /\ i' = i /\ s' \in {s, 0} /\ outcome' = outcome
    BY <1>9 DEF Verify, Record, books
  <2>2. Pact' = Pact /\ Now' = Now
    BY <1>f, <2>1 DEF Pact, Now
  <2>3. Len(CallsFor(Now)) \in Nat
    BY <2>1, PresentPact, CallsAreNamed
  <2> QED
    BY <1>f, <2>1, <2>2, <2>3
<1>10. CASE EndPact
  <2>1. /\ phase = "interactions" /\ phase' \in {"branch", "notice"}
        /\ p' = p /\ outcome' = outcome
    BY <1>10 DEF EndPact, place
  <2> QED
    BY <1>f, <2>1
<1>11. CASE Publish
  <2>1. Len(Tags) \in Nat
    <3>1. Tags \in Seq(ToSet(Tags))
      BY VerifierAssumption
    <3> QED
      BY <3>1
  <2>2. /\ phase \in Publishes /\ phase' \in {"tags", "notice", "unanswered"}
        /\ p' = p /\ outcome' = outcome
        /\ phase' = "tags" => (s' = 0 \/ (s < Len(Tags) /\ s' = s + 1))
    BY <1>11 DEF Publish, PublishBranch, PublishTag, PublishResults, After, place, books
  <2> QED
    BY <1>f, <1>p, <2>1, <2>2
<1>12. CASE Notice
  <2>1. phase = "notice" /\ phase' = "pacts" /\ p' = p /\ outcome' = outcome
    BY <1>12 DEF Notice, place
  <2> QED
    BY <1>f, <2>1
<1>13. CASE Finish
  <2>1. phase' = "done" /\ p' = p /\ p = Len(Pacts) /\ outcome' \in {"passed", "failed"}
    BY <1>13 DEF Finish, place
  <2> QED
    BY <1>f, <2>1
<1>14. CASE Stops
  <2>1. /\ phase \notin {"done", "unanswered", "pluginSilent"} /\ p' = p
        /\ \/ phase' = "done" /\ outcome' = "panic"
           \/ phase' \in {"unanswered", "pluginSilent"} /\ outcome' = outcome
    BY <1>14 DEF Stops, PublishPanics, ServiceSilent, PluginSilent, place, books
  <2> QED
    BY <1>f, <2>1
<1> QED
  BY <1>1, <1>2, <1>3, <1>4, <1>5, <1>6, <1>7, <1>8, <1>9, <1>10, <1>11, <1>12, <1>13, <1>14
  DEF Next, Stops

\* A step in which nothing changes keeps what is said of a state.
LEMMA StepBase ==
  ASSUME Base, [Next]_vars
  PROVE  Base'
<1>1. CASE Next
  BY <1>1, StepTypeOK, StepPlace DEF Base
<1>2. CASE UNCHANGED vars
  <2>1. Pacts' = Pacts /\ Loaded' = Loaded /\ Pact' = Pact /\ Now' = Now
    BY <1>2, RunIsFixed DEF vars, place, Pact, Now
  <2>2. TypeOK'
    BY <1>2, <2>1 DEF Base, TypeOK, vars, run, place, books, broker, history
  <2>3. PlaceIsRight'
    BY <1>2, <2>1 DEF Base, PlaceIsRight, vars, run, place, books
  <2> QED
    BY <2>2, <2>3 DEF Base
<1> QED
  BY <1>1, <1>2

(* Every variable keeps its type, and the interaction worked on is one of  *)
(* the pact's, whatever the pacts hold and whatever is answered.           *)
THEOREM TypeCorrect == Spec => []TypeOK
<1>1. Base /\ [Next]_vars => Base'
  BY StepBase
<1>2. Base => TypeOK
  BY DEF Base
<1> QED
  BY InitBase, <1>1, <1>2, PTL DEF Spec

-----------------------------------------------------------------------------
(* The history.                                                            *)

\* A step adds to the history at most the interaction that is worked on.
LEMMA StepAdds ==
  ASSUME Base, [Next]_vars
  PROVE  \/ asked' = asked /\ trouble' = trouble
         \/ /\ phase \in InPact /\ p' = p /\ i' \in Nat /\ i' >= i
            /\ phase = "interactions" => i' > i
            /\ asked' \in {asked, asked \cup {<<p, i'>>}}
            /\ trouble' \in {trouble, trouble \cup {<<p, i'>>}}
<1>0. i \in Nat
  BY DEF Base, TypeOK
<1>1. CASE NextInteraction
  <2>1. i' \in Chosen(Pact) /\ i' > i /\ phase = "interactions" /\ p' = p
    BY <1>1, NextIsLeft DEF NextInteraction
  <2>2. i' \in Nat
    BY <2>1, PresentPact, PartsOfPact DEF InPact
  <2>3. asked' = asked /\ trouble' \in {trouble, trouble \cup {<<p, i'>>}}
    BY <1>1 DEF NextInteraction, history
  <2> QED
    BY <1>0, <2>1, <2>2, <2>3 DEF InPact
<1>2. CASE SetupCall \/ TeardownCall
  <2>1. PICK setup, ok, applied \in BOOLEAN : Call(setup, ok, applied) /\ phase \in InCalls
    BY <1>2 DEF SetupCall, TeardownCall, InCalls
  <2> QED
    BY <1>0, <2>1 DEF Call, InCalls, InPact
<1>3. CASE \E ok \in BOOLEAN : Verify(ok)
  <2>1. PICK ok \in BOOLEAN : Verify(ok)
    BY <1>3
  <2> QED
    BY <1>0, <2>1 DEF Verify, InCalls, InPact
<1>4. CASE SetupDone \/ TeardownDone \/ BeginPact \/ EndPact
  BY <1>4 DEF SetupDone, TeardownDone, BeginPact, EndPact, history
<1>5. CASE NextPact \/ LoadPlugins \/ LoadPluginsFails \/ Publish \/ Notice \/ Finish \/ Stops
  BY <1>5 DEF NextPact, LoadPlugins, LoadPluginsFails, Publish, PublishBranch, PublishTag,
     PublishResults, Notice, Finish, Stops, PublishPanics, ServiceSilent, PluginSilent, history
<1>6. CASE UNCHANGED vars
  BY <1>6 DEF vars, history
<1> QED
  BY <1>1, <1>2, <1>3, <1>4, <1>5, <1>6 DEF Next, Stops

\* So what is in the past stays as it was.
LEMMA PastIsFixed ==
  ASSUME Base, [Next]_vars, NEW q \in Nat, NEW j \in Nat, <<q, j>> # <<p', i'>> \/ Past(q)
  PROVE  Succeeded(q, j)' <=> Succeeded(q, j)
<1>1. p \in Nat
  BY PresentPact DEF Base, TypeOK
<1>2. CASE asked' = asked /\ trouble' = trouble
  BY <1>2 DEF Succeeded
<1>3. CASE /\ phase \in InPact /\ p' = p /\ i' \in Nat
           /\ asked' \in {asked, asked \cup {<<p, i'>>}}
           /\ trouble' \in {trouble, trouble \cup {<<p, i'>>}}
  <2>1. Past(q) => q # p
    BY <1>1, <1>3 DEF Past
  <2>2. <<q, j>> # <<p, i'>>
    BY <1>3, <2>1
  <2> QED
    BY <1>3, <2>2 DEF Succeeded
<1> QED
  BY <1>2, <1>3, StepAdds

LEMMA InitHistory == Init => HistoryInv
BY DEF Init, HistoryInv, NothingAhead, FlagsAreTrue

LEMMA StepNothingAhead ==
  ASSUME Base, HistoryInv, Next
  PROVE  NothingAhead'
<1> SUFFICES ASSUME NEW q \in Nat, NEW j \in Nat, <<q, j>> \in asked' \cup trouble'
             PROVE  \/ q < p'
                    \/ /\ q = p' /\ phase' \notin {"plugins", "pact"}
                       /\ phase' \in InPact => j <= i'
  BY DEF NothingAhead, InPact, InCalls
<1>p. p \in Nat /\ i \in Nat
  BY PresentPact DEF Base, TypeOK
<1>1. CASE <<q, j>> \notin asked \cup trouble
  <2>1. phase \in InPact /\ p' = p /\ q = p /\ j = i'
    BY <1>1, StepAdds
  <2>2. phase' \notin {"plugins", "pact"}
    BY <2>1 DEF Next, NextInteraction, SetupCall, TeardownCall, Call, SetupDone, TeardownDone,
       Verify, Record, EndPact, NextPact, LoadPlugins, LoadPluginsFails, BeginPact, Publish,
       PublishBranch, PublishTag, PublishResults, After, Notice, Finish, Stops, PublishPanics,
       ServiceSilent, PluginSilent, InPact, InCalls
  <2> QED
    BY <1>p, <2>1, <2>2
<1>2. CASE <<q, j>> \in asked \cup trouble
  <2>1. \/ q < p
        \/ q = p /\ phase \notin {"plugins", "pact"} /\ (phase \in InPact => j <= i)
    BY <1>2 DEF HistoryInv, NothingAhead
  <2>2. CASE NextPact
    BY <1>p, <2>1, <2>2 DEF NextPact
  <2>3. CASE LoadPlugins \/ LoadPluginsFails \/ BeginPact
    <3>1. p' = p /\ phase \in {"plugins", "pact"}
      BY <2>3 DEF LoadPlugins, LoadPluginsFails, BeginPact, place
    <3> QED
      BY <1>p, <2>1, <3>1
  <2>4. CASE NextInteraction
    <3>1. p' = p /\ phase = "interactions" /\ phase' \in {"setup", "interactions"}
      BY <2>4 DEF NextInteraction
    <3>2. i' > i /\ i' \in Nat
      <4>1. i' \in Chosen(Pact) /\ i' > i
        BY <2>4, NextIsLeft DEF NextInteraction
      <4> QED
        BY <3>1, <4>1, PresentPact, PartsOfPact DEF InPact
    <3> QED
      BY <1>p, <2>1, <3>1, <3>2 DEF InPact
  <2>5. CASE SetupCall \/ TeardownCall \/ SetupDone \/ TeardownDone \/ \E ok \in BOOLEAN : Verify(ok)
    <3>1. p' = p /\ i' = i /\ phase \in InPact /\ phase' \in InPact
      BY <2>5 DEF SetupCall, TeardownCall, Call, SetupDone, TeardownDone, Verify, Record, place,
         InPact, InCalls
    <3> QED
      BY <1>p, <2>1, <3>1 DEF InPact, InCalls
  <2>6. CASE EndPact \/ Publish \/ Notice \/ Finish
    <3>1. p' = p /\ phase' \notin InPact \cup {"plugins", "pact"} /\ phase \notin {"plugins", "pact"}
      BY <2>6 DEF EndPact, Publish, PublishBranch, PublishTag, PublishResults, After, Notice,
         Finish, place, InPact, InCalls
    <3> QED
      BY <1>p, <2>1, <3>1
  <2>7. CASE Stops
    <3>1. p' = p /\ phase' \in {"done", "unanswered", "pluginSilent"}
      BY <2>7 DEF Stops, PublishPanics, ServiceSilent, PluginSilent, place
    <3> QED
      BY <1>p, <2>1, <3>1 DEF InPact, InCalls
  <2> QED
    BY <2>2, <2>3, <2>4, <2>5, <2>6, <2>7 DEF Next, Stops
<1> QED
  BY <1>1, <1>2

LEMMA StepFlagsAreTrue ==
  ASSUME Base, HistoryInv, Next
  PROVE  FlagsAreTrue'
<1>p. p \in Nat /\ i \in Nat /\ failed \in BOOLEAN /\ passed \in BOOLEAN
  BY PresentPact DEF Base, TypeOK
<1>1. CASE NextInteraction
  <2>1. phase = "interactions" /\ p' = p /\ failed' = FALSE /\ asked' = asked
    BY <1>1 DEF NextInteraction, history
  <2>2. i' > i /\ i' \in Nat
    <3>1. i' \in Chosen(Pact) /\ i' > i
      BY <1>1, NextIsLeft DEF NextInteraction
    <3> QED
      BY <2>1, <3>1, PresentPact, PartsOfPact DEF InPact
  <2>3. <<p, i'>> \notin asked \cup trouble
    BY <1>p, <2>1, <2>2 DEF HistoryInv, NothingAhead, InPact
  <2>4. phase' = "setup" => trouble' = trouble
    BY <1>1 DEF NextInteraction, history
  <2>5. phase' \in {"setup", "interactions"}
    BY <1>1 DEF NextInteraction
  <2> QED
    BY <2>1, <2>3, <2>4, <2>5 DEF FlagsAreTrue
<1>2. CASE SetupCall \/ TeardownCall
  <2>1. PICK setup, ok, applied \in BOOLEAN : Call(setup, ok, applied) /\ phase \in {"setup", "teardown"}
    BY <1>2 DEF SetupCall, TeardownCall
  <2>2. /\ phase' = phase /\ p' = p /\ i' = i /\ passed' = passed /\ asked' = asked
        /\ failed' = (failed \/ ~ok)
        /\ trouble' = IF ok THEN trouble ELSE trouble \union {<<p, i>>}
    BY <2>1 DEF Call
  <2>3. CASE ok
    BY <2>1, <2>2, <2>3 DEF HistoryInv, FlagsAreTrue
  <2>4. CASE ~ok
    BY <2>1, <2>2, <2>4 DEF HistoryInv, FlagsAreTrue
  <2> QED
    BY <2>3, <2>4
<1>3. CASE \E ok \in BOOLEAN : Verify(ok)
  <2>1. PICK ok \in BOOLEAN : Verify(ok)
    BY <1>3
  <2>2. /\ phase = "verify" /\ phase' \in {"teardown", "interactions"} /\ p' = p /\ i' = i
        /\ asked' = asked \union {<<p, i>>}
        /\ trouble' = IF ok THEN trouble ELSE trouble \union {<<p, i>>}
        /\ passed' = ok /\ (phase' = "teardown" => failed' = FALSE)
    BY <2>1 DEF Verify, Record
  <2> QED
    BY <2>2 DEF HistoryInv, FlagsAreTrue
<1>4. CASE SetupDone
  <2>1. /\ phase = "setup" /\ phase' \in {"interactions", "verify"}
        /\ phase' = "verify" => ~failed
        /\ p' = p /\ i' = i /\ asked' = asked /\ trouble' = trouble
    BY <1>4 DEF SetupDone, Record, place, history
  <2> QED
    BY <2>1 DEF HistoryInv, FlagsAreTrue
<1>5. CASE TeardownDone \/ EndPact \/ BeginPact \/ NextPact \/ LoadPlugins \/ LoadPluginsFails
           \/ Publish \/ Notice \/ Finish \/ Stops
  <2>1. phase' \notin {"setup", "verify", "teardown"}
    BY <1>5 DEF TeardownDone, Record, EndPact, BeginPact, NextPact, LoadPlugins, LoadPluginsFails,
       Publish, PublishBranch, PublishTag, PublishResults, After, Notice, Finish,
       Stops, PublishPanics, ServiceSilent, PluginSilent
  <2> QED
    BY <2>1 DEF FlagsAreTrue
<1> QED
  BY <1>1, <1>2, <1>3, <1>4, <1>5 DEF Next, Stops

LEMMA StepHistory ==
  ASSUME Base, HistoryInv, [Next]_vars
  PROVE  HistoryInv'
<1>1. CASE Next
  BY <1>1, StepNothingAhead, StepFlagsAreTrue DEF HistoryInv
<1>2. CASE UNCHANGED vars
  BY <1>2 DEF HistoryInv, NothingAhead, FlagsAreTrue, vars, place, history
<1> QED
  BY <1>1, <1>2

-----------------------------------------------------------------------------
(* The results of the present pact.                                        *)

\* One more result: the pairs that are in the set then.
LEMMA OneMoreResult ==
  ASSUME NEW R, NEW k, NEW c
  PROVE  \A j, ok : [i |-> j, ok |-> ok] \in R \cup {[i |-> k, ok |-> c]} <=>
           [i |-> j, ok |-> ok] \in R \/ (j = k /\ ok = c)
<1>1. \A j, ok : [i |-> j, ok |-> ok] = [i |-> k, ok |-> c] <=> j = k /\ ok = c
  OBVIOUS
<1> QED
  BY <1>1

\* A result is recorded of the interaction that is worked on.
LEMMA RecordsTheTruth ==
  ASSUME Base, ResultsAreTrue, [Next]_vars, phase \in InPact, NEW c \in BOOLEAN,
         results' = results \cup {[i |-> i', ok |-> c]},
         phase' = "interactions", p' = p, i' \in Chosen(Pact),
         \A j \in Chosen(Pact) : j < i' <=> Taken(j),
         c <=> (<<p, i'>> \in asked' /\ <<p, i'>> \notin trouble')
  PROVE  ResultsAreTrue'
<1>0. Pact' = Pact /\ p \in Nat /\ Chosen(Pact) \subseteq Nat /\ i' \in Nat
  BY RunIsFixed, PresentPact, PartsOfPact DEF Pact, Base, TypeOK
<1> SUFFICES ASSUME NEW j \in Nat, NEW ok \in BOOLEAN
             PROVE  [i |-> j, ok |-> ok] \in results' <=> Taken(j)' /\ (ok <=> Succeeded(p, j)')
  BY <1>0 DEF ResultsAreTrue, Succeeded
<1>1. [i |-> j, ok |-> ok] \in results' <=> [i |-> j, ok |-> ok] \in results \/ (j = i' /\ ok = c)
  BY OneMoreResult
<1>2. [i |-> j, ok |-> ok] \in results <=> Taken(j) /\ (ok <=> Succeeded(p, j))
  BY DEF ResultsAreTrue
<1>3. Taken(j)' <=> j \in Chosen(Pact) /\ j <= i'
  BY <1>0 DEF Taken, InCalls
<1>4. CASE j = i'
  <2>1. ~Taken(j) /\ Taken(j)'
    BY <1>0, <1>3, <1>4 DEF Taken
  <2>2. [i |-> j, ok |-> ok] \in results' <=> ok = c
    BY <1>1, <1>2, <1>4, <2>1
  <2>3. ok = c <=> (ok <=> c)
    OBVIOUS
  <2>4. Succeeded(p, j)' <=> c
    BY <1>0, <1>4 DEF Succeeded
  <2> QED
    BY <2>1, <2>2, <2>3, <2>4
<1>5. CASE j # i'
  <2>1. Succeeded(p, j)' <=> Succeeded(p, j)
    BY <1>0, <1>5, PastIsFixed
  <2>2. Taken(j)' <=> Taken(j)
    BY <1>0, <1>3, <1>5 DEF Taken
  <2> QED
    BY <1>1, <1>2, <1>5, <2>1, <2>2
<1> QED
  BY <1>4, <1>5

\* Nothing is recorded, and the same interactions have been taken.
LEMMA KeepsTheResults ==
  ASSUME Base, ResultsAreTrue, [Next]_vars, phase \in InPact \cup Publishes,
         phase' \in InPact \cup Publishes, results' = results, p' = p,
         \A j \in Chosen(Pact) : Taken(j)' <=> Taken(j),
         \A j \in Chosen(Pact) : Taken(j) => <<p, j>> # <<p', i'>> \/ Past(p)
  PROVE  ResultsAreTrue'
<1>0. Pact' = Pact /\ p \in Nat
  BY RunIsFixed, PresentPact DEF Pact, Base, TypeOK
<1> SUFFICES ASSUME NEW j \in Nat, NEW ok \in BOOLEAN
             PROVE  [i |-> j, ok |-> ok] \in results' <=> Taken(j)' /\ (ok <=> Succeeded(p, j)')
  BY <1>0 DEF ResultsAreTrue, Succeeded
<1>1. [i |-> j, ok |-> ok] \in results <=> Taken(j) /\ (ok <=> Succeeded(p, j))
  BY DEF ResultsAreTrue
<1>2. Taken(j)' <=> Taken(j)
  BY <1>0 DEF Taken
<1>3. Taken(j) => (Succeeded(p, j)' <=> Succeeded(p, j))
  <2>1. ASSUME Taken(j) PROVE <<p, j>> # <<p', i'>> \/ Past(p)
    BY <2>1 DEF Taken
  <2>2. ASSUME Taken(j), NEW q \in Nat, q = p
        PROVE  Succeeded(q, j)' <=> Succeeded(q, j)
    BY <2>1, <2>2, PastIsFixed
  <2> QED
    BY <1>0, <2>2 DEF Succeeded
<1> QED
  BY <1>1, <1>2, <1>3

LEMMA StepResults ==
  ASSUME Base, HistoryInv, ResultsAreTrue, [Next]_vars
  PROVE  ResultsAreTrue'
<1>f. Pacts' = Pacts /\ p \in Nat /\ i \in Nat
  BY RunIsFixed, PresentPact DEF Base, TypeOK
<1>c. phase \in InPact \cup Publishes => Chosen(Pact) \subseteq Nat \ {0}
  <2>1. ASSUME phase \in InPact \cup Publishes PROVE Chosen(Pact) \subseteq Nat \ {0}
    <3>1. Pact \in PactShapes
      BY <2>1, PresentPact
    <3>2. Len(Pact.interactions) \in Nat
      BY <3>1, PartsOfPact
    <3> QED
      BY <3>1, <3>2, PartsOfPact
  <2> QED
    BY <2>1
<1>1. CASE BeginPact
  <2>1. phase = "pact" /\ phase' \in {"pacts", "interactions"} /\ i' = 0 /\ results' = {} /\ p' = p
    BY <1>1 DEF BeginPact, FromTheStart
  <2>2. Chosen(Pact) \subseteq Nat \ {0} /\ Pact' = Pact
    <3>1. Pact \in PactShapes
      BY <2>1, PresentPact
    <3>2. Len(Pact.interactions) \in Nat
      BY <3>1, PartsOfPact
    <3> QED
      BY <1>f, <2>1, <3>1, <3>2, PartsOfPact DEF Pact
  <2>3. \A j : phase' = "interactions" => ~Taken(j)'
    BY <2>1, <2>2 DEF Taken, InCalls
  <2> QED
    BY <2>1, <2>3 DEF ResultsAreTrue, InPact, InCalls, Publishes
<1>2. CASE NextInteraction
  <2>1. /\ phase = "interactions" /\ p' = p /\ i' \in Chosen(Pact) /\ i' > i
        /\ \A j \in Chosen(Pact) : j > i => i' <= j
    BY <1>2, NextIsLeft DEF NextInteraction
  <2>2. Chosen(Pact) \subseteq Nat /\ Pact' = Pact
    BY <1>f, <1>c, <2>1 DEF InPact, Pact
  <2>3. \A j \in Chosen(Pact) : (j < i' <=> Taken(j)) /\ (Taken(j) <=> j <= i)
    <3>1. \A j \in Chosen(Pact) : Taken(j) <=> j <= i
      BY <2>1 DEF Taken, InCalls
    <3> QED
      BY <1>f, <2>1, <2>2, <3>1
  <2>4. CASE config.client
    <3>1. phase' = "setup" /\ results' = results
      BY <1>2, <2>4 DEF NextInteraction
    <3>2. \A j \in Chosen(Pact) : Taken(j)' <=> Taken(j)
      BY <2>2, <2>3, <3>1 DEF Taken, InCalls
    <3>3. \A j \in Chosen(Pact) : Taken(j) => <<p, j>> # <<p', i'>>
      BY <1>f, <2>1, <2>2, <2>3
    <3> QED
      BY <2>1, <3>1, <3>2, <3>3, KeepsTheResults DEF InPact, InCalls, Publishes
  <2>5. CASE ~config.client
    <3>1. /\ phase' = "interactions" /\ results' = results \cup {[i |-> i', ok |-> FALSE]}
          /\ trouble' = trouble \cup {<<p, i'>>}
      BY <1>2, <2>5 DEF NextInteraction
    <3>2. <<p, i'>> \in trouble'
      BY <3>1
    <3> QED
      BY <2>1, <2>3, <3>1, <3>2, RecordsTheTruth DEF InPact
  <2> QED
    BY <2>4, <2>5
<1>3. CASE SetupCall \/ TeardownCall
  <2>1. phase' = phase /\ p' = p /\ i' = i /\ results' = results /\ phase \in InCalls
    BY <1>3 DEF SetupCall, TeardownCall, Call, InCalls
  <2>2. Pact' = Pact /\ Chosen(Pact) \subseteq Nat
    BY <1>f, <1>c, <2>1 DEF Pact, InPact
  <2>3. \A j \in Chosen(Pact) : (Taken(j)' <=> Taken(j)) /\ (Taken(j) <=> j < i)
    BY <2>1, <2>2 DEF Taken, InCalls
  <2>4. \A j \in Chosen(Pact) : Taken(j) => <<p, j>> # <<p', i'>>
    BY <1>f, <2>1, <2>2, <2>3
  <2> QED
    BY <2>1, <2>3, <2>4, KeepsTheResults DEF InPact
<1>4. CASE SetupDone \/ TeardownDone \/ \E ok \in BOOLEAN : Verify(ok)
  <2>1. phase \in InCalls /\ p' = p /\ i' = i /\ i \in Chosen(Pact)
    <3>1. phase \in InCalls /\ p' = p /\ i' = i
      BY <1>4 DEF SetupDone, TeardownDone, Verify, place, InCalls
    <3> QED
      BY <3>1, PresentPact
  <2>2. Pact' = Pact /\ Chosen(Pact) \subseteq Nat
    BY <1>f, <1>c, <2>1 DEF Pact, InPact
  <2>3. \A j \in Chosen(Pact) : Taken(j) <=> j < i
    BY <2>1, <2>2 DEF Taken, InCalls
  <2>4. CASE \E c \in BOOLEAN : Record(c) /\ (c <=> (<<p, i>> \in asked' /\ <<p, i>> \notin trouble'))
    <3>1. PICK c \in BOOLEAN : Record(c) /\ (c <=> (<<p, i>> \in asked' /\ <<p, i>> \notin trouble'))
      BY <2>4
    <3>2. phase' = "interactions" /\ results' = results \cup {[i |-> i', ok |-> c]}
      BY <2>1, <3>1 DEF Record
    <3> QED
      BY <2>1, <2>3, <3>1, <3>2, RecordsTheTruth DEF InPact
  <2>5. CASE phase' \in InCalls /\ results' = results
    <3>1. \A j \in Chosen(Pact) : Taken(j)' <=> Taken(j)
      BY <2>1, <2>2, <2>3, <2>5 DEF Taken, InCalls
    <3>2. \A j \in Chosen(Pact) : Taken(j) => <<p, j>> # <<p', i'>>
      BY <1>f, <2>1, <2>2, <2>3
    <3> QED
      BY <2>1, <2>5, <3>1, <3>2, KeepsTheResults DEF InPact
  <2>6. CASE SetupDone
    <3>1. CASE failed
      <4>1. Record(FALSE) /\ trouble' = trouble /\ phase = "setup"
        BY <2>6, <3>1 DEF SetupDone, history
      <4>2. <<p, i>> \in trouble'
        BY <3>1, <4>1 DEF HistoryInv, FlagsAreTrue
      <4> QED
        BY <2>4, <4>1, <4>2
    <3>2. CASE ~failed
      BY <2>5, <2>6, <3>2 DEF SetupDone, InCalls
    <3> QED
      BY <3>1, <3>2
  <2>7. CASE TeardownDone
    <3>1. Record(passed /\ ~failed) /\ trouble' = trouble /\ asked' = asked /\ phase = "teardown"
      BY <2>7 DEF TeardownDone, history
    <3>2. (passed /\ ~failed) \in BOOLEAN
      OBVIOUS
    <3>3. (passed /\ ~failed) <=> (<<p, i>> \in asked' /\ <<p, i>> \notin trouble')
      BY <3>1 DEF HistoryInv, FlagsAreTrue
    <3> QED
      BY <2>4, <3>1, <3>2, <3>3
  <2>8. CASE \E ok \in BOOLEAN : Verify(ok)
    <3>1. PICK ok \in BOOLEAN : Verify(ok)
      BY <2>8
    <3>2. /\ phase = "verify" /\ asked' = asked \union {<<p, i>>}
          /\ trouble' = IF ok THEN trouble ELSE trouble \union {<<p, i>>}
      BY <3>1 DEF Verify
    <3>3. ok <=> (<<p, i>> \in asked' /\ <<p, i>> \notin trouble')
      BY <3>2 DEF HistoryInv, FlagsAreTrue
    <3>4. CASE config.teardown
      BY <2>5, <3>1, <3>4 DEF Verify, InCalls
    <3>5. CASE ~config.teardown
      <4>1. Record(ok)
        BY <3>1, <3>5 DEF Verify
      <4> QED
        BY <2>4, <3>3, <4>1
    <3> QED
      BY <3>4, <3>5
  <2> QED
    BY <1>4, <2>6, <2>7, <2>8
<1>5. CASE EndPact
  <2>1. /\ phase = "interactions" /\ Left = {} /\ phase' \in {"branch", "notice"}
        /\ p' = p /\ i' = i /\ results' = results
    BY <1>5 DEF EndPact, place
  <2>2. Pact' = Pact /\ Chosen(Pact) \subseteq Nat
    BY <1>f, <1>c, <2>1 DEF Pact, InPact
  <2>3. \A j \in Chosen(Pact) : Taken(j)' /\ Taken(j)
    BY <1>f, <2>1, <2>2 DEF Taken, Left, InCalls
  <2>4. asked' = asked /\ trouble' = trouble
    BY <1>5 DEF EndPact, history
  <2>5. \A j : Succeeded(p, j)' <=> Succeeded(p, j)
    BY <2>1, <2>4 DEF Succeeded
  <2>6. \A j : Taken(j)' <=> Taken(j)
    BY <2>2, <2>3 DEF Taken
  <2> QED
    BY <2>1, <2>5, <2>6, <1>f DEF ResultsAreTrue, InPact, InCalls, Publishes, Succeeded
<1>6. CASE Publish
  <2>1. /\ phase \in {"branch", "tags"} /\ phase' \in {"tags", "notice", "unanswered"}
        /\ p' = p /\ i' = i /\ results' = results /\ asked' = asked /\ trouble' = trouble
    BY <1>6 DEF Publish, PublishBranch, PublishTag, PublishResults, After, place, history
  <2>2. Pact' = Pact
    BY <1>f, <2>1 DEF Pact
  <2>3. \A j : Succeeded(p, j)' <=> Succeeded(p, j)
    BY <2>1 DEF Succeeded
  <2>4. \A j : Taken(j)' <=> Taken(j)
    BY <2>1, <2>2 DEF Taken, InCalls
  <2> QED
    BY <2>1, <2>3, <2>4 DEF ResultsAreTrue, InPact, InCalls, Publishes, Succeeded
<1>7. CASE NextPact \/ LoadPlugins \/ LoadPluginsFails \/ Notice \/ Finish \/ Stops
  <2>1. phase' \notin InPact \cup Publishes
    BY <1>7 DEF NextPact, LoadPlugins, LoadPluginsFails, Notice, Finish, Stops,
       PublishPanics, ServiceSilent, PluginSilent, InPact, InCalls, Publishes
  <2> QED
    BY <2>1 DEF ResultsAreTrue
<1>8. CASE UNCHANGED vars
  <2>1. p' = p /\ i' = i /\ phase' = phase /\ results' = results /\ asked' = asked /\ trouble' = trouble
    BY <1>8 DEF vars, place, history
  <2>2. Pact' = Pact
    BY <1>f, <2>1 DEF Pact
  <2>3. \A j : Succeeded(p, j)' <=> Succeeded(p, j)
    BY <2>1 DEF Succeeded
  <2>4. \A j : Taken(j)' <=> Taken(j)
    BY <2>1, <2>2 DEF Taken
  <2> QED
    BY <2>1, <2>3, <2>4 DEF ResultsAreTrue, Succeeded
<1> QED
  BY <1>1, <1>2, <1>3, <1>4, <1>5, <1>6, <1>7, <1>8 DEF Next, Stops

-----------------------------------------------------------------------------
(* The books: what is reported and what counts as an error.                *)

\* A step makes part of the past only the pact it ends, as far as there are
\* interactions to tell of.
LEMMA StepPast ==
  ASSUME Base, [Next]_vars, NEW q \in Loaded, NEW j \in Chosen(Pacts[q])
  PROVE  Past(q)' <=> Past(q) \/ (EndPact /\ q = p)
<1>f. p \in Nat /\ q \in Nat /\ q \in 1 .. Len(Pacts) /\ Pacts \in Seq(PactShapes)
  BY PresentPact, PlaceIsNumber
<1>1. CASE NextPact
  <2>1. /\ phase = "pacts" /\ p' = p + 1 /\ phase' \in {"pacts", "plugins", "pact"}
        /\ outcome' = outcome /\ outcome = "none"
        /\ phase' = "pacts" => p + 1 \notin Loaded
    BY <1>1 DEF NextPact, Base, PlaceIsRight, Loaded
  <2>2. ~EndPact
    BY <2>1 DEF EndPact
  <2> QED
    BY <1>f, <2>1, <2>2 DEF Past, InPact, InCalls
<1>2. CASE LoadPlugins \/ LoadPluginsFails
  <2>1. /\ phase = "plugins" /\ p' = p
        /\ phase' = "pact" \/ (phase' = "done" /\ outcome' = "error")
    BY <1>2 DEF LoadPlugins, LoadPluginsFails, place
  <2>2. ~EndPact
    BY <2>1 DEF EndPact
  <2> QED
    BY <1>f, <2>1, <2>2 DEF Past, InPact, InCalls
<1>3. CASE BeginPact
  <2>1. /\ phase = "pact" /\ p' = p /\ phase' \in {"pacts", "interactions"}
        /\ phase' = "pacts" => Pact.interactions = <<>>
    BY <1>3 DEF BeginPact
  <2>2. phase' = "pacts" => q # p
    BY <2>1 DEF Chosen, Pact
  <2>3. ~EndPact
    BY <2>1 DEF EndPact
  <2> QED
    BY <1>f, <2>1, <2>2, <2>3 DEF Past, InPact, InCalls
<1>4. CASE NextInteraction \/ SetupCall \/ TeardownCall \/ SetupDone \/ TeardownDone
           \/ \E ok \in BOOLEAN : Verify(ok)
  <2>1. p' = p /\ phase \in InPact /\ phase' \in InPact
    BY <1>4 DEF NextInteraction, SetupCall, TeardownCall, Call, SetupDone, TeardownDone, Verify,
       Record, place, InPact, InCalls
  <2>2. ~EndPact
    BY <2>1 DEF EndPact, InPact, InCalls
  <2> QED
    BY <1>f, <2>1, <2>2 DEF Past, InPact, InCalls
<1>5. CASE EndPact
  <2>1. /\ phase = "interactions" /\ phase' \in {"branch", "notice"} /\ p' = p
        /\ outcome' = outcome /\ outcome = "none"
    BY <1>5 DEF EndPact, place, Base, PlaceIsRight
  <2> QED
    BY <1>5, <1>f, <2>1 DEF Past, InPact, InCalls
<1>6. CASE Publish \/ Notice \/ Finish
  <2>1. /\ phase \in Publishes \cup {"pacts"} /\ p' = p
        /\ phase' \in Publishes \cup {"pacts", "done", "unanswered"}
        /\ outcome = "none" /\ outcome' \in {"none", "passed", "failed"}
    BY <1>6 DEF Publish, PublishBranch, PublishTag, PublishResults, After, Notice, Finish,
       place, books, Publishes, Base, PlaceIsRight
  <2>2. ~EndPact
    BY <2>1 DEF EndPact, Publishes
  <2> QED
    BY <1>f, <2>1, <2>2 DEF Past, InPact, InCalls, Publishes
<1>7. CASE UNCHANGED vars
  <2>1. p' = p /\ phase' = phase /\ outcome' = outcome
    BY <1>7 DEF vars, place, books
  <2>2. ~EndPact
    <3>1. EndPact => phase' # phase
      BY DEF EndPact
    <3> QED
      BY <2>1, <3>1
  <2> QED
    BY <2>1, <2>2 DEF Past
<1>8. CASE PublishPanics \/ ServiceSilent
  <2>1. /\ phase \in {"pacts", "branch"} /\ phase' \in {"done", "unanswered"} /\ p' = p
        /\ outcome = "none" /\ outcome' \in {"none", "panic"}
    BY <1>8 DEF PublishPanics, ServiceSilent, place, books, Base, PlaceIsRight
  <2>2. ~EndPact
    BY <2>1 DEF EndPact
  <2> QED
    BY <1>f, <2>1, <2>2 DEF Past, InPact, InCalls
<1>9. CASE PluginSilent
  <2>1. phase \in {"plugins", "verify"} /\ phase' = "pluginSilent" /\ p' = p
    BY <1>9 DEF PluginSilent, place
  <2>2. ~EndPact
    BY <2>1 DEF EndPact
  <2> QED
    BY <1>f, <2>1, <2>2 DEF Past, InPact, InCalls
<1> QED
  BY <1>1, <1>2, <1>3, <1>4, <1>5, <1>6, <1>7, <1>8, <1>9 DEF Next

\* The results at the end of a pact: one for each selected interaction.
LEMMA AtTheEnd ==
  ASSUME Base, ResultsAreTrue, EndPact
  PROVE  /\ \A j \in Nat, ok \in BOOLEAN :
              [i |-> j, ok |-> ok] \in results <=> j \in Chosen(Pact) /\ (ok <=> Succeeded(p, j))
         /\ p \in Loaded /\ asked' = asked /\ trouble' = trouble
         /\ \A r \in results : r.i \in Nat /\ r.ok \in BOOLEAN /\ r = [i |-> r.i, ok |-> r.ok]
<1>1. phase = "interactions" /\ Left = {} /\ asked' = asked /\ trouble' = trouble
  BY DEF EndPact, history
<1>2. p \in Loaded /\ Chosen(Pact) \subseteq Nat
  BY <1>1, PresentPact, PartsOfPact DEF InPact
<1>3. \A j \in Chosen(Pact) : Taken(j)
  BY <1>1, <1>2 DEF Taken, Left, InCalls, Base, TypeOK
<1>4. \A j : Taken(j) <=> j \in Chosen(Pact)
  BY <1>3 DEF Taken
<1>5. \A r \in results : r.i \in Nat /\ r.ok \in BOOLEAN /\ r = [i |-> r.i, ok |-> r.ok]
  BY DEF Base, TypeOK
<1> QED
  BY <1>1, <1>2, <1>4, <1>5 DEF ResultsAreTrue, InPact

LEMMA StepReports ==
  ASSUME Base, ResultsAreTrue, ReportsAreTrue, [Next]_vars
  PROVE  ReportsAreTrue'
<1>f. Pacts' = Pacts /\ Loaded' = Loaded /\ p \in Nat /\ Loaded \subseteq Nat
  BY RunIsFixed, PlaceIsNumber
<1> SUFFICES ASSUME NEW q \in Nat, NEW j \in Nat, NEW ok \in BOOLEAN
             PROVE  [id |-> <<q, j>>, ok |-> ok] \in reported' <=>
                      q \in Loaded /\ Past(q)' /\ j \in Chosen(Pacts[q]) /\ (ok <=> Succeeded(q, j)')
  BY <1>f DEF ReportsAreTrue
<1>1. [id |-> <<q, j>>, ok |-> ok] \in reported <=>
        q \in Loaded /\ Past(q) /\ j \in Chosen(Pacts[q]) /\ (ok <=> Succeeded(q, j))
  BY DEF ReportsAreTrue
<1>2. CASE EndPact
  <2>1. /\ \A k \in Nat, c \in BOOLEAN :
             [i |-> k, ok |-> c] \in results <=> k \in Chosen(Pact) /\ (c <=> Succeeded(p, k))
        /\ p \in Loaded /\ asked' = asked /\ trouble' = trouble
        /\ \A r \in results : r.i \in Nat /\ r.ok \in BOOLEAN /\ r = [i |-> r.i, ok |-> r.ok]
    BY <1>2, AtTheEnd
  <2>2. reported' = reported \union {[id |-> <<p, r.i>>, ok |-> r.ok] : r \in results}
    BY <1>2 DEF EndPact
  <2>3. [id |-> <<q, j>>, ok |-> ok] \in {[id |-> <<p, r.i>>, ok |-> r.ok] : r \in results}
          <=> q = p /\ [i |-> j, ok |-> ok] \in results
    <3>1. ASSUME NEW r \in results, [id |-> <<q, j>>, ok |-> ok] = [id |-> <<p, r.i>>, ok |-> r.ok]
          PROVE  q = p /\ [i |-> j, ok |-> ok] \in results
      <4>1. <<q, j>> = <<p, r.i>> /\ ok = r.ok
        BY <3>1
      <4>2. q = p /\ j = r.i
        BY <4>1
      <4> QED
        BY <2>1, <4>1, <4>2
    <3>2. ASSUME q = p, [i |-> j, ok |-> ok] \in results
          PROVE  \E r \in results : [id |-> <<q, j>>, ok |-> ok] = [id |-> <<p, r.i>>, ok |-> r.ok]
      <4>1. [i |-> j, ok |-> ok].i = j /\ [i |-> j, ok |-> ok].ok = ok
        OBVIOUS
      <4> QED
        BY <3>2, <4>1
    <3> QED
      BY <3>1, <3>2
  <2>4. Succeeded(q, j)' <=> Succeeded(q, j)
    BY <2>1 DEF Succeeded
  <2>5. q \in Loaded /\ j \in Chosen(Pacts[q]) => (Past(q)' <=> Past(q) \/ q = p)
    BY <1>2, StepPast
  <2>6. ~Past(p)
    BY <1>2, <1>f DEF Past, EndPact, InPact
  <2> QED
    BY <1>1, <2>1, <2>2, <2>3, <2>4, <2>5, <2>6 DEF Pact
<1>3. CASE ~EndPact
  <2>1. reported' = reported
    BY <1>3 DEF Next, vars, books, NextPact, LoadPlugins, LoadPluginsFails, BeginPact,
       NextInteraction, SetupCall, SetupDone, Verify, TeardownCall, TeardownDone,
       Call, Publish, PublishBranch, PublishTag, PublishResults, Notice, Finish, Stops,
       PublishPanics, ServiceSilent, PluginSilent
  <2>2. q \in Loaded /\ j \in Chosen(Pacts[q]) => (Past(q)' <=> Past(q))
    BY <1>3, StepPast
  <2>3. Past(q) => (Succeeded(q, j)' <=> Succeeded(q, j))
    BY PastIsFixed
  <2> QED
    BY <1>1, <2>1, <2>2, <2>3
<1> QED
  BY <1>2, <1>3

\* The failures that EndPact enters are those of the pact, pending or not.
LEMMA FailuresAtTheEnd ==
  ASSUME Base, ResultsAreTrue, EndPact, NEW q \in Nat, NEW j \in Nat, NEW pending \in BOOLEAN
  PROVE  <<q, j>> \in Ids(Failures(Pact, results, pending)) <=>
           /\ q = p /\ j \in Chosen(Pact) /\ ~Succeeded(p, j)
           /\ IsPending(Pact, j) = pending
<1>1. /\ \A k \in Nat, c \in BOOLEAN :
           [i |-> k, ok |-> c] \in results <=> k \in Chosen(Pact) /\ (c <=> Succeeded(p, k))
      /\ \A r \in results : r.i \in Nat /\ r.ok \in BOOLEAN /\ r = [i |-> r.i, ok |-> r.ok]
  BY AtTheEnd
<1>2. <<q, j>> \in Ids(Failures(Pact, results, pending)) <=> q = p /\ j \in Failures(Pact, results, pending)
  BY DEF Ids
<1>3. ASSUME j \in Failures(Pact, results, pending)
      PROVE  j \in Chosen(Pact) /\ ~Succeeded(p, j) /\ IsPending(Pact, j) = pending
  <2>1. PICK r \in results : ~r.ok /\ IsPending(Pact, r.i) = pending /\ r.i = j
    BY <1>3 DEF Failures
  <2>2. r.ok = FALSE /\ r = [i |-> j, ok |-> FALSE]
    BY <1>1, <2>1
  <2> QED
    BY <1>1, <2>1, <2>2
<1>4. ASSUME j \in Chosen(Pact), ~Succeeded(p, j), IsPending(Pact, j) = pending
      PROVE  j \in Failures(Pact, results, pending)
  <2>1. [i |-> j, ok |-> FALSE] \in results
    BY <1>1, <1>4
  <2>2. [i |-> j, ok |-> FALSE].i = j /\ [i |-> j, ok |-> FALSE].ok = FALSE
    OBVIOUS
  <2> QED
    BY <1>4, <2>1, <2>2 DEF Failures
<1> QED
  BY <1>2, <1>3, <1>4

LEMMA StepErrors ==
  ASSUME Base, ResultsAreTrue, ErrorsAreTrue, [Next]_vars
  PROVE  ErrorsAreTrue'
<1>f. config' = config /\ Pacts' = Pacts /\ Loaded' = Loaded /\ p \in Nat /\ Loaded \subseteq Nat
  BY RunIsFixed, PlaceIsNumber
<1>e. \A q : Excused(q)' <=> Excused(q)
  BY <1>f DEF Excused
<1> SUFFICES ASSUME NEW q \in Nat, NEW j \in Nat
             PROVE  /\ <<q, j>> \in errors' <=> FailedIn(q, j, FALSE)' \/ MissingPact(q, j)'
                    /\ <<q, j>> \in pendingErrors' <=> FailedIn(q, j, TRUE)'
  BY DEF ErrorsAreTrue
<1>1. /\ <<q, j>> \in errors <=> FailedIn(q, j, FALSE) \/ MissingPact(q, j)
      /\ <<q, j>> \in pendingErrors <=> FailedIn(q, j, TRUE)
  BY DEF ErrorsAreTrue
<1>2. CASE EndPact
  <2>1. p \in Loaded /\ p' = p /\ asked' = asked /\ trouble' = trouble
    BY <1>2, AtTheEnd DEF EndPact, place
  <2>2. Succeeded(q, j)' <=> Succeeded(q, j)
    BY <2>1 DEF Succeeded
  <2>3. q \in Loaded /\ j \in Chosen(Pacts[q]) => (Past(q)' <=> Past(q) \/ q = p)
    BY <1>2, StepPast
  <2>4. ~Past(p)
    BY <1>2, <1>f DEF Past, EndPact, InPact
  <2>5. MissingPact(q, j)' <=> MissingPact(q, j)
    BY <1>f, <1>e, <2>1 DEF MissingPact
  <2>6. ASSUME NEW pending \in BOOLEAN
        PROVE  FailedIn(q, j, pending)' <=>
                 FailedIn(q, j, pending) \/ <<q, j>> \in Ids(Failures(Pact, results, pending))
    <3>1. <<q, j>> \in Ids(Failures(Pact, results, pending)) <=>
           /\ q = p /\ j \in Chosen(Pact) /\ ~Succeeded(p, j)
           /\ IsPending(Pact, j) = pending
      BY <1>2, FailuresAtTheEnd
    <3> QED
      BY <1>f, <2>1, <2>2, <2>3, <2>4, <3>1 DEF FailedIn, Pact
  <2>7. /\ errors' = errors \union Ids(Failures(Pact, results, FALSE))
        /\ pendingErrors' = pendingErrors \union Ids(Failures(Pact, results, TRUE))
    BY <1>2 DEF EndPact
  <2> QED
    BY <1>1, <2>5, <2>6, <2>7
<1>3. CASE ~EndPact
  <2>1. \A pending \in BOOLEAN : FailedIn(q, j, pending)' <=> FailedIn(q, j, pending)
    <3>1. q \in Loaded /\ j \in Chosen(Pacts[q]) => (Past(q)' <=> Past(q))
      BY <1>3, StepPast
    <3>2. Past(q) => (Succeeded(q, j)' <=> Succeeded(q, j))
      BY PastIsFixed
    <3> QED
      BY <1>f, <3>1, <3>2 DEF FailedIn
  <2>2. pendingErrors' = pendingErrors
    BY <1>3 DEF Next, vars, books, NextPact, LoadPlugins, LoadPluginsFails, BeginPact,
       NextInteraction, SetupCall, SetupDone, Verify, TeardownCall, TeardownDone,
       Call, Publish, PublishBranch, PublishTag, PublishResults, Notice, Finish, Stops,
       PublishPanics, ServiceSilent, PluginSilent
  <2>3. CASE NextPact
    <3>1. p' = p + 1 /\ p + 1 \in DOMAIN Pacts
      BY <1>f, <2>3, PresentPact DEF NextPact
    <3>2. errors' = IF p + 1 \in Loaded \/ Excused(p + 1) THEN errors
                    ELSE errors \union {<<p + 1, 0>>}
      BY <2>3, <3>1 DEF NextPact, Loaded, Excused
    <3>3. MissingPact(q, j)' <=> MissingPact(q, j) \/ (q = p + 1 /\ j = 0 /\ q \notin Loaded /\ ~Excused(q))
      BY <1>f, <1>e, <3>1 DEF MissingPact
    <3> QED
      BY <1>1, <1>f, <2>1, <2>2, <3>2, <3>3
  <2>4. CASE ~NextPact
    <3>1. errors' = errors /\ p' = p
      BY <1>3, <2>4 DEF Next, vars, place, books, LoadPlugins, LoadPluginsFails, BeginPact,
         NextInteraction, SetupCall, SetupDone, Verify, TeardownCall, TeardownDone,
         Call, Publish, PublishBranch, PublishTag, PublishResults, Notice, Finish, Stops,
       PublishPanics, ServiceSilent, PluginSilent
    <3>2. MissingPact(q, j)' <=> MissingPact(q, j)
      BY <1>f, <1>e, <3>1 DEF MissingPact
    <3> QED
      BY <1>1, <2>1, <2>2, <3>1, <3>2
  <2> QED
    BY <2>3, <2>4
<1> QED
  BY <1>2, <1>3

-----------------------------------------------------------------------------
(* What is told outside: the results published and the notices shown.      *)

\* All interactions of a pact have succeeded.
AllSucceeded(q) == \A j \in Chosen(Pacts[q]) : Succeeded(q, j)

LEMMA AllSucceededIsFixed ==
  ASSUME Base, [Next]_vars, NEW q \in Loaded, Past(q)
  PROVE  AllSucceeded(q)' <=> AllSucceeded(q)
<1>1. q \in Nat /\ Pacts' = Pacts
  BY PresentPact, RunIsFixed DEF Loaded
<1>2. Chosen(Pacts[q]) \subseteq Nat
  BY PresentPact, PartsOfPact DEF Loaded
<1>3. \A j \in Chosen(Pacts[q]) : Succeeded(q, j)' <=> Succeeded(q, j)
  BY <1>1, <1>2, PastIsFixed
<1> QED
  BY <1>1, <1>3 DEF AllSucceeded

\* A pact that is in the past stays there.
LEMMA PastStays ==
  ASSUME Base, [Next]_vars, NEW q \in Loaded, Past(q)
  PROVE  Past(q)'
<1>f. p \in Nat /\ q \in Nat /\ p' \in Nat
  <2>1. p \in Nat /\ q \in Nat
    BY PlaceIsNumber
  <2>2. p' \in 0 .. Len(Pacts')
    BY StepBase DEF Base, TypeOK
  <2>3. Len(Pacts') = Len(Pacts) /\ Len(Pacts) \in Nat
    BY RunIsFixed, PresentPact
  <2> QED
    BY <2>1, <2>2, <2>3
<1>1. CASE q < p
  <2>1. p' = p \/ p' = p + 1
    BY DEF Next, vars, place, NextPact, LoadPlugins, LoadPluginsFails, BeginPact,
         NextInteraction, SetupCall, SetupDone, Verify, TeardownCall, TeardownDone,
         Call, EndPact, Publish, PublishBranch, PublishTag, PublishResults, Notice, Finish,
       Stops, PublishPanics, ServiceSilent, PluginSilent
  <2> QED
    BY <1>1, <1>f, <2>1 DEF Past
<1>2. CASE q = p /\ phase \notin InPact \cup {"plugins", "pact", "pluginSilent"} /\ outcome # "error"
  <2> DEFINE Stays == p' = p /\ phase' \in Publishes \cup {"pacts", "done", "unanswered"} /\ outcome' # "error"
  <2>1. phase \in Publishes \cup {"pacts", "done", "unanswered"}
    BY <1>2 DEF InPact, InCalls, Publishes, Base, TypeOK, Phases
  <2>2. NextPact => p' = p + 1
    BY DEF NextPact
  <2>3. Finish \/ ServiceSilent => Stays
    BY <1>2 DEF Finish, ServiceSilent, place, books
  <2>4. PublishPanics \/ Notice => Stays
    BY <1>2 DEF PublishPanics, Notice, place
  <2>5. Publish => Stays
    BY <1>2 DEF Publish, PublishBranch, PublishTag, PublishResults, After, Publishes, place, books
  <2>6. ~ (LoadPlugins \/ LoadPluginsFails \/ BeginPact \/ NextInteraction \/ PluginSilent)
    BY <2>1 DEF LoadPlugins, LoadPluginsFails, BeginPact, NextInteraction, PluginSilent, Publishes
  <2>7. ~ (SetupCall \/ SetupDone \/ (\E ok \in BOOLEAN : Verify(ok)) \/ TeardownCall \/ TeardownDone \/ EndPact)
    BY <2>1 DEF SetupCall, SetupDone, Verify, TeardownCall, TeardownDone, EndPact, Publishes
  <2>8. UNCHANGED vars => Stays
    BY <1>2, <2>1 DEF vars, place, books
  <2>9. p' = p + 1 \/ Stays
    BY <2>2, <2>3, <2>4, <2>5, <2>6, <2>7, <2>8 DEF Next
  <2> QED
    BY <1>2, <1>f, <2>9 DEF Past, InPact, InCalls, Publishes
<1> QED
  BY <1>1, <1>2, <1>f DEF Past

\* The verdict on the results of the pact is the verdict on the pact.
LEMMA VerdictIsTrue ==
  ASSUME Base, ResultsAreTrue, phase \in Publishes
  PROVE  Verdict <=> AllSucceeded(p)
<1>1. Chosen(Pact) \subseteq Nat /\ Pact = Pacts[p] /\ p \in Loaded
  BY PresentPact, PartsOfPact DEF Pact
<1>2. \A j \in Nat, ok \in BOOLEAN :
        [i |-> j, ok |-> ok] \in results <=> j \in Chosen(Pact) /\ (ok <=> Succeeded(p, j))
  BY DEF ResultsAreTrue, Taken, InCalls, Publishes
<1>3. ASSUME Verdict PROVE AllSucceeded(p)
  <2> SUFFICES ASSUME NEW j \in Chosen(Pact), ~Succeeded(p, j) PROVE FALSE
    BY <1>1 DEF AllSucceeded
  <2>1. [i |-> j, ok |-> FALSE] \in results
    BY <1>1, <1>2
  <2>2. [i |-> j, ok |-> FALSE].ok = FALSE
    OBVIOUS
  <2> QED
    BY <1>3, <2>1, <2>2 DEF Verdict
<1>4. ASSUME AllSucceeded(p) PROVE Verdict
  <2> SUFFICES ASSUME NEW r \in results PROVE r.ok
    BY DEF Verdict
  <2>1. r.i \in Nat /\ r.ok \in BOOLEAN /\ r = [i |-> r.i, ok |-> r.ok]
    BY DEF Base, TypeOK
  <2>2. r.i \in Chosen(Pact) /\ (r.ok <=> Succeeded(p, r.i))
    BY <1>2, <2>1
  <2> QED
    BY <1>1, <1>4, <2>2 DEF AllSucceeded
<1> QED
  BY <1>3, <1>4

ToldInv == TellsOfThePast /\ PublishedIsFaithful

LEMMA StepTold ==
  ASSUME Base, ResultsAreTrue, ToldInv, [Next]_vars
  PROVE  ToldInv'
<1>f. Pacts' = Pacts /\ Loaded' = Loaded /\ p \in Nat /\ config' = config
  BY RunIsFixed, PresentPact DEF Base, TypeOK
<1>1. \A r \in posted : r.p \in Loaded /\ Past(r.p) /\ (r.ok <=> AllSucceeded(r.p))
  BY DEF ToldInv, TellsOfThePast, PublishedIsFaithful, AllSucceeded
<1>2. \A r \in posted : Past(r.p)' /\ (r.ok <=> AllSucceeded(r.p)')
  BY <1>1, PastStays, AllSucceededIsFixed
<1>3. \A n \in notices : n.p \in Loaded /\ Past(n.p)'
  BY PastStays DEF ToldInv, TellsOfThePast
<1>4. CASE \E answer \in Answers, applied \in BOOLEAN : PublishResults(answer, applied)
  <2>1. /\ phase = "tags" /\ phase' \in {"notice", "unanswered"} /\ p' = p /\ notices' = notices
        /\ posted' = posted \/ posted' = posted \union {[p |-> p, ok |-> Verdict]}
        /\ outcome' = outcome
    BY <1>4 DEF PublishResults, After, place, books
  <2>2. p \in Loaded /\ Past(p)
    BY <2>1, PresentPact DEF Base, PlaceIsRight, Past, Publishes, InPact, InCalls
  <2>3. Past(p)'
    BY <2>1, <2>2 DEF Past, Base, PlaceIsRight, InPact, InCalls
  <2>4. Verdict <=> AllSucceeded(p)'
    <3>1. \A q \in Loaded : q = p => (AllSucceeded(q)' <=> AllSucceeded(q))
      BY <2>2, AllSucceededIsFixed
    <3>2. AllSucceeded(p)' <=> AllSucceeded(p)
      BY <2>1, <2>2, <3>1 DEF AllSucceeded
    <3>3. Verdict <=> AllSucceeded(p)
      BY <2>1, VerdictIsTrue DEF Publishes
    <3> QED
      BY <3>2, <3>3
  <2>5. \A r \in posted' : r.p \in Loaded /\ Past(r.p)' /\ (r.ok <=> AllSucceeded(r.p)')
    <3> SUFFICES ASSUME NEW r \in posted'
                 PROVE  r.p \in Loaded /\ Past(r.p)' /\ (r.ok <=> AllSucceeded(r.p)')
      OBVIOUS
    <3>1. CASE r \in posted
      BY <1>1, <1>2, <3>1
    <3>2. CASE r = [p |-> p, ok |-> Verdict]
      <4>1. r.p = p /\ r.ok = Verdict
        BY <3>2
      <4> QED
        BY <2>1, <2>2, <2>3, <2>4, <4>1 DEF Past, AllSucceeded
    <3> QED
      BY <2>1, <3>1, <3>2
  <2> QED
    BY <1>f, <1>3, <2>1, <2>5 DEF ToldInv, TellsOfThePast, PublishedIsFaithful, AllSucceeded
<1>5. CASE Notice
  <2>1. /\ phase = "notice" /\ phase' = "pacts" /\ p' = p /\ posted' = posted /\ outcome' = outcome
        /\ \/ notices' = notices
           \/ notices' = notices \union {[p |-> p, success |-> NoticeSaysSuccess,
                                          published |-> config.publish]}
    BY <1>5 DEF Notice, place, broker
  <2>2. p \in Loaded /\ Past(p)'
    BY <2>1, PresentPact DEF Base, PlaceIsRight, Past, Publishes, InPact, InCalls
  <2>3. \A n \in notices' : n.p \in Loaded /\ Past(n.p)'
    <3> SUFFICES ASSUME NEW n \in notices' PROVE n.p \in Loaded /\ Past(n.p)'
      OBVIOUS
    <3>1. CASE n \in notices
      BY <1>3, <3>1
    <3>2. CASE n \notin notices
      <4>1. n.p = p
        BY <2>1, <3>2
      <4> QED
        BY <2>1, <2>2, <4>1 DEF Past
    <3> QED
      BY <3>1, <3>2
  <2> QED
    BY <1>f, <1>1, <1>2, <2>1, <2>3 DEF ToldInv, TellsOfThePast, PublishedIsFaithful, AllSucceeded
<1>6. CASE ~Notice /\ ~(\E answer \in Answers, applied \in BOOLEAN : PublishResults(answer, applied))
  <2>1. posted' = posted /\ notices' = notices
    BY <1>6 DEF Next, vars, books, broker, NextPact, LoadPlugins, LoadPluginsFails, BeginPact,
       NextInteraction, SetupCall, SetupDone, Verify, TeardownCall, TeardownDone,
       Call, EndPact, Publish, PublishBranch, PublishTag, Finish, Stops, PublishPanics,
       ServiceSilent, PluginSilent
  <2> QED
    BY <1>f, <1>1, <1>2, <1>3, <2>1 DEF ToldInv, TellsOfThePast, PublishedIsFaithful, AllSucceeded
<1> QED
  BY <1>4, <1>5, <1>6

LEMMA StepNotices ==
  ASSUME Base, ErrorsAreTrue, ToldInv, NoticeNeverOverclaims, [Next]_vars
  PROVE  NoticeNeverOverclaims'
<1>f. Pacts' = Pacts /\ p \in Nat
  BY RunIsFixed, PresentPact DEF Base, TypeOK
<1>1. \A n \in notices : n.published /\ n.success => AllSucceeded(n.p)'
  <2>1. \A n \in notices : n.p \in Loaded /\ Past(n.p)
    BY DEF ToldInv, TellsOfThePast
  <2>2. \A n \in notices : n.published /\ n.success => AllSucceeded(n.p)
    BY DEF NoticeNeverOverclaims, AllSucceeded
  <2> QED
    BY <2>1, <2>2, AllSucceededIsFixed
<1>2. CASE Notice
  <2>1. /\ phase = "notice" /\ asked' = asked /\ trouble' = trouble
        /\ \/ notices' = notices
           \/ notices' = notices \union {[p |-> p, success |-> NoticeSaysSuccess,
                                          published |-> config.publish]}
    BY <1>2 DEF Notice, history
  <2>2. p \in Loaded /\ Past(p) /\ Pacts[p] \in PactShapes
    BY <2>1, PresentPact DEF Base, PlaceIsRight, Past, Publishes, InPact, InCalls, Pact
  <2>3. ASSUME config.publish, NoticeSaysSuccess PROVE AllSucceeded(p)
    <3>1. errors = {} /\ pendingErrors = {}
      BY <2>3 DEF NoticeSaysSuccess
    <3> SUFFICES ASSUME NEW j \in Chosen(Pacts[p]), ~Succeeded(p, j) PROVE FALSE
      BY DEF AllSucceeded
    <3>2. j \in Nat /\ IsPending(Pacts[p], j) \in BOOLEAN
      BY <2>2, PartsOfPact
    <3>3. ~FailedIn(p, j, FALSE) /\ ~FailedIn(p, j, TRUE)
      BY <1>f, <3>1, <3>2 DEF ErrorsAreTrue
    <3> QED
      BY <2>2, <3>2, <3>3 DEF FailedIn
  <2>4. ASSUME NEW n \in notices', n.published, n.success PROVE AllSucceeded(n.p)'
    <3>1. CASE n \in notices
      BY <1>1, <2>4, <3>1
    <3>2. CASE n \notin notices
      <4>1. n.p = p /\ n.success = NoticeSaysSuccess /\ n.published = config.publish
        BY <2>1, <3>2
      <4>2. AllSucceeded(n.p)
        BY <2>3, <2>4, <4>1
      <4> QED
        BY <1>f, <2>1, <4>2 DEF AllSucceeded, Succeeded
    <3> QED
      BY <3>1, <3>2
  <2> QED
    BY <1>f, <2>4 DEF NoticeNeverOverclaims, AllSucceeded
<1>3. CASE ~Notice
  <2>1. notices' = notices
    BY <1>3 DEF Next, vars, books, NextPact, LoadPlugins, LoadPluginsFails, BeginPact,
       NextInteraction, SetupCall, SetupDone, Verify, TeardownCall, TeardownDone,
       Call, EndPact, Publish, PublishBranch, PublishTag, PublishResults, Finish, Stops,
       PublishPanics, ServiceSilent, PluginSilent
  <2> QED
    BY <1>f, <1>1, <2>1 DEF NoticeNeverOverclaims, AllSucceeded
<1> QED
  BY <1>2, <1>3

-----------------------------------------------------------------------------
(* The inductive invariant and what follows from it.                       *)

BooksInv ==
  /\ Base /\ HistoryInv /\ ResultsAreTrue /\ ReportsAreTrue /\ ErrorsAreTrue
  /\ ToldInv /\ NoticeNeverOverclaims

LEMMA InitBooks == Init => BooksInv
<1> SUFFICES ASSUME Init PROVE BooksInv
  OBVIOUS
<1>1. Base /\ HistoryInv
  BY InitBase, InitHistory
<1>2. ResultsAreTrue
  BY DEF Init, ResultsAreTrue, InPact, InCalls, Publishes
<1>3. \A q \in Loaded : ~Past(q)
  BY <1>1, PresentPact DEF Init, Loaded, Past
<1>4. \A q : q \in DOMAIN Pacts => ~(q <= p)
  BY <1>1, PresentPact DEF Init
<1>5. ReportsAreTrue /\ ErrorsAreTrue
  BY <1>3, <1>4 DEF Init, ReportsAreTrue, ErrorsAreTrue, FailedIn, MissingPact
<1>6. ToldInv /\ NoticeNeverOverclaims
  BY DEF Init, ToldInv, TellsOfThePast, PublishedIsFaithful, NoticeNeverOverclaims
<1> QED
  BY <1>1, <1>2, <1>5, <1>6 DEF BooksInv

LEMMA StepBooks == BooksInv /\ [Next]_vars => BooksInv'
BY StepBase, StepHistory, StepResults, StepReports, StepErrors, StepTold, StepNotices DEF BooksInv

(* The books of a run say what happened: the results of the present pact,  *)
(* what is reported, and both lists of errors, interaction by interaction. *)
THEOREM BooksAreTrue == Spec => []BooksInv
BY InitBooks, StepBooks, PTL DEF Spec

(* What the broker is told of a pact is what happened to that pact.        *)
THEOREM PublishedFaithfully == Spec => []PublishedIsFaithful
<1>1. BooksInv => PublishedIsFaithful
  BY DEF BooksInv, ToldInv
<1> QED
  BY BooksAreTrue, <1>1, PTL

(* With publishing on, no notice announces a success that was not one.     *)
THEOREM NoticesNeverOverclaim == Spec => []NoticeNeverOverclaims
<1>1. BooksInv => NoticeNeverOverclaims
  BY DEF BooksInv
<1> QED
  BY BooksAreTrue, <1>1, PTL

\* At the end all pacts are in the past.
LEMMA AllIsPast ==
  ASSUME Base, outcome \in {"passed", "failed"}
  PROVE  /\ Pacts \in Seq(PactShapes) /\ DOMAIN Pacts \subseteq Nat /\ p \in Nat
         /\ \A q \in DOMAIN Pacts : Past(q) /\ q <= p /\ Pacts[q] \in PactShapes
<1>1. p = Len(Pacts) /\ phase = "done" /\ Pacts \in Seq(PactShapes)
  BY PresentPact DEF Base, TypeOK, PlaceIsRight
<1> QED
  BY <1>1 DEF Past, InPact, InCalls

LEMMA ReportsAreComplete == BooksInv => EverythingIsReported
<1> SUFFICES ASSUME BooksInv, outcome \in {"passed", "failed"}
             PROVE  reported = UNION {{[id |-> <<q, j>>, ok |-> Succeeded(q, j)] :
                                         j \in Chosen(Pacts[q])} : q \in Loaded}
  BY DEF EverythingIsReported
<1>1. \A q \in Loaded : q \in Nat /\ Past(q) /\ Chosen(Pacts[q]) \subseteq Nat
  BY AllIsPast, PartsOfPact DEF Loaded, BooksInv
<1>2. \A q, j \in Nat, ok \in BOOLEAN :
        [id |-> <<q, j>>, ok |-> ok] \in reported <=>
          q \in Loaded /\ Past(q) /\ j \in Chosen(Pacts[q]) /\ (ok <=> Succeeded(q, j))
  BY DEF BooksInv, ReportsAreTrue
<1>3. ASSUME NEW r \in reported
      PROVE  \E q \in Loaded : \E j \in Chosen(Pacts[q]) : r = [id |-> <<q, j>>, ok |-> Succeeded(q, j)]
  <2>1. r \in [id : Nat \X Nat, ok : BOOLEAN]
    BY DEF BooksInv, Base, TypeOK
  <2>2. PICK q \in Nat, j \in Nat : r.id = <<q, j>>
    BY <2>1
  <2>3. r = [id |-> <<q, j>>, ok |-> r.ok] /\ r.ok \in BOOLEAN
    BY <2>1, <2>2
  <2>4. q \in Loaded /\ j \in Chosen(Pacts[q]) /\ (r.ok <=> Succeeded(q, j))
    BY <1>2, <2>3
  <2>5. r.ok = Succeeded(q, j)
    BY <2>3, <2>4 DEF Succeeded
  <2> QED
    BY <2>3, <2>4, <2>5
<1>4. ASSUME NEW q \in Loaded, NEW j \in Chosen(Pacts[q])
      PROVE  [id |-> <<q, j>>, ok |-> Succeeded(q, j)] \in reported
  <2>1. Succeeded(q, j) \in BOOLEAN
    BY DEF Succeeded
  <2> QED
    BY <1>1, <1>2, <2>1
<1> QED
  BY <1>3, <1>4

LEMMA BranchAndTagsFirst ==
  ASSUME Base, TagsInOrder, [Next]_vars
  PROVE  TagsInOrder'
<1>t. /\ DOMAIN Tags = 1 .. Len(Tags) /\ Len(Tags) \in Nat /\ s \in Nat
      /\ ToSet(Tags) = {Tags[k] : k \in 1 .. Len(Tags)} /\ tags \subseteq ToSet(Tags)
  <2>1. Tags \in Seq(ToSet(Tags))
    BY VerifierAssumption
  <2>2. DOMAIN Tags = 1 .. Len(Tags) /\ Len(Tags) \in Nat
    BY <2>1
  <2> QED
    BY <2>2 DEF ToSet, Base, TypeOK
<1>1. CASE \E answer \in Answers, applied \in BOOLEAN : PublishBranch(answer, applied)
  <2>1. /\ s' = 0 /\ tags' = tags /\ posted' = posted
        /\ branch => branch'
        /\ phase' = "tags" => branch'
    BY <1>1 DEF PublishBranch, After
  <2>2. posted' # {} => branch' /\ tags' = ToSet(Tags)
    BY <2>1 DEF TagsInOrder
  <2>3. \A k \in 1 .. s' : Tags[k] \in tags'
    BY <2>1
  <2> QED
    BY <2>1, <2>2, <2>3 DEF TagsInOrder
<1>2. CASE \E answer \in Answers, applied \in BOOLEAN : PublishTag(answer, applied)
  <2>1. PICK answer \in Answers, applied \in BOOLEAN : PublishTag(answer, applied)
    BY <1>2
  <2>2. /\ phase = "tags" /\ s < Len(Tags) /\ s' = s + 1 /\ branch' = branch /\ posted' = posted
        /\ tags' = tags \/ tags' = tags \union {Tags[s + 1]}
        /\ phase' = "tags" => Tags[s + 1] \in tags'
    BY <2>1 DEF PublishTag, After
  <2>3. Tags[s + 1] \in ToSet(Tags)
    BY <1>t, <2>2
  <2>4. posted' # {} => branch' /\ tags' = ToSet(Tags)
    BY <1>t, <2>2, <2>3 DEF TagsInOrder
  <2>5. phase' = "tags" => \A k \in 1 .. s' : Tags[k] \in tags'
    <3>1. \A k \in 1 .. s' : k \in 1 .. s \/ k = s + 1
      BY <1>t, <2>2
    <3>2. \A k \in 1 .. s : Tags[k] \in tags'
      BY <2>2 DEF TagsInOrder
    <3> QED
      BY <2>2, <3>1, <3>2
  <2> QED
    BY <2>2, <2>4, <2>5 DEF TagsInOrder
<1>3. CASE \E answer \in Answers, applied \in BOOLEAN : PublishResults(answer, applied)
  <2>1. phase = "tags" /\ phase' # "tags" /\ s = Len(Tags) /\ branch' = branch /\ tags' = tags
    BY <1>3 DEF PublishResults, After
  <2>2. branch /\ tags = ToSet(Tags)
    BY <1>t, <2>1 DEF TagsInOrder
  <2> QED
    BY <2>1, <2>2 DEF TagsInOrder
<1>4. CASE ~Publish
  <2>1. branch' = branch /\ tags' = tags /\ posted' = posted
    BY <1>4 DEF Next, vars, broker, NextPact, LoadPlugins, LoadPluginsFails, BeginPact,
       NextInteraction, SetupCall, SetupDone, Verify, TeardownCall, TeardownDone,
       Call, EndPact, Notice, Finish, Stops, PublishPanics, ServiceSilent, PluginSilent
  <2>2. phase' = "tags" => phase = "tags" /\ s' = s
    BY <1>4 DEF Next, vars, place, NextPact, LoadPlugins, LoadPluginsFails, BeginPact,
       NextInteraction, SetupCall, SetupDone, Verify, Record, TeardownCall, TeardownDone,
       Call, EndPact, Notice, Finish, Stops, PublishPanics, ServiceSilent, PluginSilent
  <2> QED
    BY <2>1, <2>2 DEF TagsInOrder
<1> QED
  BY <1>1, <1>2, <1>3, <1>4 DEF Publish

(* A run that returns results has one for each selected interaction, each  *)
(* of them true; and results reach the broker after branch and tags.       *)
THEOREM ResultsSound == Spec => []ResultsAreSound
<1>1. Init => TagsInOrder
  BY DEF Init, TagsInOrder
<1>2. BooksInv /\ TagsInOrder /\ [Next]_vars => TagsInOrder'
  BY BranchAndTagsFirst DEF BooksInv
<1>3. BooksInv /\ TagsInOrder => ResultsAreSound
  BY ReportsAreComplete DEF ResultsAreSound, ResultsComeLast, TagsInOrder, BooksInv, Base
<1> QED
  BY BooksAreTrue, <1>1, <1>2, <1>3, PTL DEF Spec

-----------------------------------------------------------------------------
(* The verdict.                                                            *)

LEMMA StepOutcome ==
  ASSUME Base, OutcomeIsTrue, [Next]_vars
  PROVE  OutcomeIsTrue'
<1>1. CASE Finish
  <2>1. errors' = errors /\ outcome' = IF errors = {} THEN "passed" ELSE "failed"
    BY <1>1 DEF Finish
  <2> QED
    BY <2>1 DEF OutcomeIsTrue
<1>2. CASE LoadPluginsFails
  BY <1>2 DEF LoadPluginsFails, OutcomeIsTrue
<1>3. CASE NextPact \/ EndPact
  <2>1. outcome' = outcome /\ outcome = "none"
    BY <1>3 DEF NextPact, EndPact, Base, TypeOK, PlaceIsRight
  <2> QED
    BY <2>1 DEF OutcomeIsTrue
<1>4. CASE Stops
  BY <1>4 DEF Stops, PublishPanics, ServiceSilent, PluginSilent, books, OutcomeIsTrue
<1>5. CASE UNCHANGED vars \/ (Next /\ ~(Finish \/ LoadPluginsFails \/ NextPact \/ EndPact \/ Stops))
  <2>1. outcome' = outcome /\ errors' = errors
    BY <1>5 DEF Next, vars, books, LoadPlugins, BeginPact, NextInteraction, SetupCall,
       SetupDone, Verify, TeardownCall, TeardownDone, Call, Publish, PublishBranch,
       PublishTag, PublishResults, Notice, Stops
  <2> QED
    BY <2>1 DEF OutcomeIsTrue
<1> QED
  BY <1>1, <1>2, <1>3, <1>4, <1>5

LEMMA VerdictFollows == BooksInv /\ OutcomeIsTrue => VerdictIsFaithful
<1> SUFFICES ASSUME BooksInv, OutcomeIsTrue, outcome \in {"passed", "failed"}
             PROVE  outcome = "passed" <=>
                      \A q \in DOMAIN Pacts :
                        IF q \in Loaded
                        THEN \A j \in Chosen(Pacts[q]) : IsPending(Pacts[q], j) \/ Succeeded(q, j)
                        ELSE Excused(q)
  BY DEF VerdictIsFaithful
<1>1. \A q \in DOMAIN Pacts : /\ q \in Nat /\ Past(q) /\ q <= p
                              /\ Chosen(Pacts[q]) \subseteq Nat
                              /\ \A j \in Chosen(Pacts[q]) : IsPending(Pacts[q], j) \in BOOLEAN
  BY AllIsPast, PartsOfPact DEF BooksInv
<1>2. outcome = "passed" <=> \A q, j \in Nat : <<q, j>> \notin errors
  BY DEF OutcomeIsTrue, BooksInv, Base, TypeOK
<1>3. \A q, j \in Nat : <<q, j>> \in errors <=> FailedIn(q, j, FALSE) \/ MissingPact(q, j)
  BY DEF BooksInv, ErrorsAreTrue
<1>4. ASSUME NEW q \in Loaded, NEW j \in Chosen(Pacts[q]), ~(IsPending(Pacts[q], j) \/ Succeeded(q, j))
      PROVE  q \in Nat /\ j \in Nat /\ FailedIn(q, j, FALSE)
  <2>1. q \in DOMAIN Pacts
    BY DEF Loaded
  <2>2. IsPending(Pacts[q], j) = FALSE
    BY <1>1, <1>4, <2>1
  <2> QED
    BY <1>1, <1>4, <2>1, <2>2 DEF FailedIn
<1>5. ASSUME NEW q \in DOMAIN Pacts, q \notin Loaded, ~Excused(q)
      PROVE  q \in Nat /\ MissingPact(q, 0)
  BY <1>1, <1>5 DEF MissingPact
<1>6. ASSUME NEW q, NEW j, FailedIn(q, j, FALSE)
      PROVE  q \in Loaded /\ j \in Chosen(Pacts[q]) /\ ~IsPending(Pacts[q], j) /\ ~Succeeded(q, j)
  BY <1>6 DEF FailedIn
<1>7. ASSUME NEW q, NEW j, MissingPact(q, j)
      PROVE  q \in DOMAIN Pacts /\ q \notin Loaded /\ ~Excused(q)
  BY <1>7 DEF MissingPact
<1>8. Loaded \subseteq DOMAIN Pacts
  BY DEF Loaded
<1> QED
  BY <1>2, <1>3, <1>4, <1>5, <1>6, <1>7, <1>8

(* A run passes exactly when every source yielded its pact and every       *)
(* selected interaction that is not pending was put to the provider and    *)
(* succeeded.                                                              *)
THEOREM VerdictFaithful == Spec => []VerdictIsFaithful
<1>1. Init => OutcomeIsTrue
  BY DEF Init, OutcomeIsTrue
<1>2. BooksInv /\ OutcomeIsTrue /\ [Next]_vars => OutcomeIsTrue'
  BY StepOutcome DEF BooksInv
<1> QED
  BY BooksAreTrue, <1>1, <1>2, VerdictFollows, PTL DEF Spec

-----------------------------------------------------------------------------
(* The provider's states.                                                  *)

\* What is said of the calls made is said of the calls of one interaction.
LEMMA CallsMade ==
  ASSUME Base, phase \in InCalls
  PROVE  /\ Called(0) = {}
         /\ Called(Len(CallsFor(Now))) = StatesOf(Now)
         /\ \A n \in Nat : n < Len(CallsFor(Now)) =>
              Called(n + 1) = Called(n) \cup {CallsFor(Now)[n + 1]}
<1>1. CallsFor(Now) \in Seq(StateNames)
  BY PresentPact, CallsAreNamed
<1>2. Called(0) = {}
  BY DEF Called
<1>3. Called(Len(CallsFor(Now))) = StatesOf(Now)
  BY PresentPact, CallsAreNamed DEF Called
<1>4. ASSUME NEW n \in Nat, n < Len(CallsFor(Now))
      PROVE  Called(n + 1) = Called(n) \cup {CallsFor(Now)[n + 1]}
  <2>1. \A k : k \in 1 .. n + 1 <=> k \in 1 .. n \/ k = n + 1
    OBVIOUS
  <2> QED
    BY <2>1 DEF Called
<1> QED
  BY <1>2, <1>3, <1>4

LEMMA StepStates ==
  ASSUME Base, FlagsAreTrue, StatesAreSet, [Next]_vars
  PROVE  StatesAreSet'
<1>f. Pacts' = Pacts /\ config' = config /\ s \in Nat /\ failed \in BOOLEAN
  BY RunIsFixed DEF Base, TypeOK
<1>t. trouble' = {} => trouble = {}
  BY StepAdds
<1>1. CASE NextInteraction
  <2>1. phase = "interactions" /\ phase' \in {"setup", "interactions"} /\ s' = 0 /\ active' = active
    BY <1>1 DEF NextInteraction
  <2>2. Called(s)' = {}
    BY <2>1 DEF Called
  <2>3. config.teardown /\ trouble = {} => active = {}
    BY <2>1 DEF StatesAreSet, InCalls
  <2> QED
    BY <1>f, <1>t, <2>1, <2>2, <2>3 DEF StatesAreSet
<1>2. CASE SetupCall \/ TeardownCall
  <2>1. PICK ok, applied \in BOOLEAN : \/ phase = "setup" /\ Call(TRUE, ok, applied)
                                       \/ phase = "teardown" /\ Call(FALSE, ok, applied)
    BY <1>2 DEF SetupCall, TeardownCall
  <2> DEFINE name == CallsFor(Now)[s + 1]
  <2>2. /\ phase' = phase /\ p' = p /\ i' = i /\ s' = s + 1 /\ s < Len(CallsFor(Now))
        /\ failed' = (failed \/ ~ok) /\ (ok => applied)
        /\ ~ok => <<p, i>> \in trouble'
        /\ phase = "setup" => active' = IF applied THEN active \cup {name} ELSE active
        /\ phase = "teardown" => active' = IF applied THEN active \ {name} ELSE active
    BY <2>1 DEF Call
  <2>3. Now' = Now
    BY <1>f, <2>2 DEF Now, Pact
  <2>4. phase \in InCalls
    BY <2>1 DEF InCalls
  <2>5. Called(s)' = Called(s) \cup {name}
    <3>1. Called(s)' = Called(s + 1)
      BY <2>2, <2>3 DEF Called
    <3> QED
      BY <1>f, <2>2, <2>4, <3>1, CallsMade
  <2>6. phase \in {"setup", "teardown"} /\ phase' \in InCalls
    BY <2>1, <2>2, <2>4
  <2> HIDE DEF name
  <2>7. CASE phase = "setup"
    <3>1. failed' = FALSE => Called(s)' \subseteq active'
      BY <2>2, <2>5, <2>7 DEF StatesAreSet
    <3>2. config.teardown /\ trouble' = {} => active' = Called(s)'
      BY <1>t, <2>2, <2>5, <2>7 DEF StatesAreSet
    <3> QED
      BY <1>f, <2>2, <2>6, <2>7, <3>1, <3>2 DEF StatesAreSet
  <2>8. CASE phase = "teardown"
    <3>1. config.teardown /\ trouble' = {} => active' = StatesOf(Now) \ Called(s)'
      BY <1>t, <2>2, <2>5, <2>8 DEF StatesAreSet
    <3> QED
      BY <1>f, <2>2, <2>3, <2>6, <2>8, <3>1 DEF StatesAreSet
  <2> QED
    BY <2>6, <2>7, <2>8
<1>3. CASE SetupDone
  <2>1. /\ phase = "setup" /\ s = Len(CallsFor(Now)) /\ p' = p /\ i' = i
        /\ active' = active /\ trouble' = trouble
        /\ phase' = IF failed THEN "interactions" ELSE "verify"
    BY <1>3 DEF SetupDone, Record, place, history
  <2>2. Now' = Now /\ Called(s) = StatesOf(Now)
    BY <1>f, <2>1, CallsMade DEF Now, Pact, InCalls
  <2>3. failed => trouble # {}
    BY <2>1 DEF FlagsAreTrue
  <2> QED
    BY <1>f, <2>1, <2>2, <2>3 DEF StatesAreSet, InCalls
<1>4. CASE \E ok \in BOOLEAN : Verify(ok)
  <2>1. /\ phase = "verify" /\ p' = p /\ i' = i /\ active' = active
        /\ IF config.teardown THEN phase' = "teardown" /\ s' = 0 ELSE phase' = "interactions"
    BY <1>4 DEF Verify, Record
  <2>2. Now' = Now
    BY <1>f, <2>1 DEF Now, Pact
  <2>3. s' = 0 => Called(s)' = {}
    BY DEF Called
  <2> QED
    BY <1>f, <1>t, <2>1, <2>2, <2>3 DEF StatesAreSet, InCalls
<1>5. CASE TeardownDone
  <2>1. /\ phase = "teardown" /\ s = Len(CallsFor(Now)) /\ phase' = "interactions"
        /\ active' = active /\ trouble' = trouble
    BY <1>5 DEF TeardownDone, Record, history
  <2>2. Called(s) = StatesOf(Now)
    BY <2>1, CallsMade DEF InCalls
  <2> QED
    BY <1>f, <2>1, <2>2 DEF StatesAreSet, InCalls
<1>6. CASE \/ NextPact \/ LoadPlugins \/ LoadPluginsFails \/ BeginPact \/ EndPact
           \/ Publish \/ Notice \/ Finish \/ PublishPanics \/ ServiceSilent
  <2>1. active' = active /\ phase \notin InCalls /\ phase' \notin InCalls
    BY <1>6 DEF NextPact, LoadPlugins, LoadPluginsFails, BeginPact, EndPact, Publish,
       PublishBranch, PublishTag, PublishResults, After, Notice, Finish, PublishPanics,
       ServiceSilent, InCalls
  <2>2. phase # "pluginSilent"
    BY <1>6 DEF NextPact, LoadPlugins, LoadPluginsFails, BeginPact, EndPact, Publish,
       PublishBranch, PublishTag, PublishResults, Notice, Finish, PublishPanics, ServiceSilent
  <2> QED
    BY <1>f, <1>t, <2>1, <2>2 DEF StatesAreSet, InCalls
<1>7. CASE UNCHANGED vars
  <2>1. Now' = Now /\ Called(s)' = Called(s) /\ phase' = phase /\ failed' = failed
        /\ active' = active /\ trouble' = trouble
    BY <1>7, <1>f DEF vars, place, history, Now, Pact, Called
  <2> QED
    BY <1>f, <2>1 DEF StatesAreSet
<1>8. CASE PluginSilent
  <2>1. phase' = "pluginSilent"
    BY <1>8 DEF PluginSilent
  <2> QED
    BY <2>1 DEF StatesAreSet, InCalls
<1> QED
  BY <1>1, <1>2, <1>3, <1>4, <1>5, <1>6, <1>7, <1>8 DEF Next

(* When the provider is asked, all states of the interaction have been set *)
(* up, and with teardown no other state is left while no call has failed.  *)
THEOREM AskedInStates == Spec => []AskedInItsStates
<1>1. Init => StatesAreSet
  BY DEF Init, StatesAreSet, InCalls
<1>2. BooksInv /\ StatesAreSet /\ [Next]_vars => StatesAreSet'
  BY StepStates DEF BooksInv, HistoryInv
<1>3. StatesAreSet => AskedInItsStates
  BY DEF StatesAreSet, AskedInItsStates
<1> QED
  BY BooksAreTrue, <1>1, <1>2, <1>3, PTL DEF Spec
=============================================================================
