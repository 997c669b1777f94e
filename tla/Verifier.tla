------------------------------ MODULE Verifier ------------------------------
(***************************************************************************)
(* One run of verify_provider_async (pact_verifier/src/lib.rs): the pacts  *)
(* found by the sources are taken in order, the selected interactions of   *)
(* each are verified in order, each one between a call per provider state  *)
(* to set it up and (on request) one to tear it down, and the results of a *)
(* pact are published to its broker before the next pact is taken.         *)
(*                                                                         *)
(* The environment decides what the sources yield, what every call to the  *)
(* state change handler answers and does, what the provider answers, and   *)
(* what the broker answers and records: an answer that says "failed" may   *)
(* come after the effect.  The provider and its state change handler are   *)
(* asked by a client with a timeout (configure_http_client), so they always*)
(* answer or fail; the broker (HALClient::default), the metrics service and*)
(* plugins are waited for without one, so they may also never answer.      *)
(* Contents, parameters and output are left out.                           *)
(***************************************************************************)
EXTENDS Integers, SequencesExt, Sublists

CONSTANTS
  Fetchable,   \* what the pact sources may yield: sequences of pact results
  Configs,     \* options: [teardown, publish, version, noPactsIsError, client : BOOLEAN]
  Tags,        \* the provider tags to publish
  StateNames   \* the names of provider states, "" among them

(* What fetch_pact yields for one pact.  source "broker" has a context     *)
(* with pending status and notices; "url" (a pact URL with broker links,   *)
(* a webhook) can be published to but has no context; "file" has neither.  *)
InteractionShapes == [states : Seq(StateNames), pending : BOOLEAN, selected : BOOLEAN]
PactShapes ==
  [load : {"ok", "notFound", "failed"}, source : {"file", "url", "broker"},
   nested : BOOLEAN, wanted : BOOLEAN, pending : BOOLEAN, plugin : BOOLEAN,
   interactions : Seq(InteractionShapes)]

ASSUME VerifierAssumption ==
  /\ Fetchable \subseteq Seq(PactShapes)
  /\ Configs \subseteq [teardown : BOOLEAN, publish : BOOLEAN, version : BOOLEAN,
                        noPactsIsError : BOOLEAN, client : BOOLEAN]
  /\ Tags \in Seq(ToSet(Tags))
  /\ "" \in StateNames

VARIABLES
  config,      \* the options of this run
  fetched,     \* what the sources yielded
  phase,       \* where the run is
  p, i, s,     \* pact, interaction and provider state being worked on
  failed,      \* some handler of the present set of calls has failed
  passed,      \* the provider's answer to the present interaction matched
  results,     \* results of the present pact: [i, ok]
  reported,    \* interaction_results: [id, ok]
  errors, pendingErrors,   \* ids of what has failed; <<p, 0>> is the pact itself
  notices,     \* the notices shown after a pact: [p, success, published]
  plugins,     \* plugin processes are running
  outcome,     \* what verify_provider_async returned
  active,      \* the provider: the states it is in
  branch, tags, posted,    \* the broker: what it has recorded
  asked, trouble           \* history: what was asked, what went wrong

run   == <<config, fetched>>
place == <<p, i, s>>
books == <<reported, errors, pendingErrors, notices, outcome>>
broker == <<branch, tags, posted>>
history == <<asked, trouble>>
vars == <<run, phase, place, failed, passed, results, books, plugins, active,
          broker, history>>

-----------------------------------------------------------------------------
(* Only the files directly in a directory are kept: walkdir drops what its *)
(* recursive call returns.  "wanted" stands for the filters on the names   *)
(* of provider (directories) and consumer; a pact that failed to load      *)
(* passes both.                                                            *)
Kept(f) == ~f.nested /\ (f.load = "ok" => f.wanted)

Pacts == Within(fetched, {f \in ToSet(fetched) : Kept(f)})
Pact  == Pacts[p]
Now   == Pact.interactions[i]

(* The handler calls made for an interaction: one with the empty state     *)
(* when it has none.                                                       *)
CallsFor(interaction) ==
  IF interaction.states = <<>> THEN <<"">> ELSE interaction.states

StatesOf(interaction) == ToSet(CallsFor(interaction))

Chosen(pact) == {j \in DOMAIN pact.interactions : pact.interactions[j].selected}

(* pending of the pact comes from the broker; of the interaction from the  *)
(* V4 pact file.                                                           *)
IsPending(pact, j) ==
  \/ pact.source = "broker" /\ pact.pending
  \/ pact.interactions[j].pending

Publishable == Pact.source \in {"url", "broker"}

Init ==
  /\ config \in Configs /\ fetched \in Fetchable
  /\ phase = "pacts" /\ p = 0 /\ i = 0 /\ s = 0
  /\ failed = FALSE /\ passed = FALSE
  /\ results = {} /\ reported = {} /\ errors = {} /\ pendingErrors = {}
  /\ notices = {} /\ plugins = FALSE /\ outcome = "none"
  /\ active = {} /\ branch = FALSE /\ tags = {} /\ posted = {}
  /\ asked = {} /\ trouble = {}

-----------------------------------------------------------------------------
(* for pact_result in pact_results: a loaded pact is verified, one that    *)
(* could not be loaded is an error unless there was none and that is fine. *)
NextPact ==
  /\ phase = "pacts" /\ p < Len(Pacts)
  /\ p' = p + 1
  /\ LET pact == Pacts[p + 1]
         ignored == pact.load = "notFound" /\ ~config.noPactsIsError
     IN /\ phase' = IF pact.load # "ok" THEN "pacts"
                    ELSE IF pact.plugin THEN "plugins" ELSE "pact"
        /\ errors' = IF pact.load = "ok" \/ ignored THEN errors
                     ELSE errors \union {<<p + 1, 0>>}
  /\ UNCHANGED <<run, i, s, failed, passed, results, reported, pendingErrors,
                 notices, plugins, outcome, active, broker, history>>

(* load_plugin(..).await? : a plugin that cannot be loaded ends the run    *)
(* with an error, without the results so far and without shutdown_plugins. *)
LoadPlugins ==
  /\ phase = "plugins"
  /\ plugins' = TRUE /\ phase' = "pact"
  /\ UNCHANGED <<run, place, failed, passed, results, books, active, broker,
                 history>>

LoadPluginsFails ==
  /\ phase = "plugins"
  /\ outcome' = "error" /\ phase' = "done"
  /\ plugins' \in {plugins, TRUE}
  /\ UNCHANGED <<run, place, failed, passed, results, reported, errors,
                 pendingErrors, notices, active, broker, history>>

(* The iteration over the interactions and the results start afresh.       *)
FromTheStart == i' = 0 /\ results' = {}

(* A pact without interactions only gets a warning: nothing is published.  *)
BeginPact ==
  /\ phase = "pact"
  /\ phase' = IF Pact.interactions = <<>> THEN "pacts" ELSE "interactions"
  /\ FromTheStart
  /\ UNCHANGED <<run, p, s, failed, passed, books, plugins, active, broker,
                 history>>

-----------------------------------------------------------------------------
(* Mutant of Left: the iteration does not move past the present one.       *)
MLeft == {j \in Chosen(Pact) : j >= i}

(* The selected interactions that have not been taken yet.                 *)
Left == {j \in Chosen(Pact) : j > i}

(* verify_pact_internal: the selected interactions one by one.  Without an *)
(* HTTP client (an invalid custom header) each of them fails at once.      *)
NextInteraction ==
  /\ phase = "interactions"
  /\ Left # {}
  /\ i' = Min(Left)
  /\ IF config.client
     THEN phase' = "setup" /\ UNCHANGED <<results, history>>
     ELSE /\ phase' = "interactions"
          /\ results' = results \union {[i |-> i', ok |-> FALSE]}
          /\ trouble' = trouble \union {<<p, i'>>}
          /\ UNCHANGED asked
  /\ s' = 0 /\ failed' = FALSE
  /\ UNCHANGED <<run, p, passed, books, plugins, active, broker>>

(* One call to the state change handler.  All the states are called for    *)
(* whatever the earlier calls answered; a failing call may have changed    *)
(* the provider before it failed.                                          *)
Call(setup, ok, applied) ==
  LET states == CallsFor(Now)
      name   == states[s + 1]
  IN /\ s < Len(states) /\ (ok => applied)
     /\ s' = s + 1
     /\ failed' = (failed \/ ~ok)
     /\ active' = IF ~applied THEN active
                  ELSE IF setup THEN active \union {name} ELSE active \ {name}
     /\ trouble' = IF ok THEN trouble ELSE trouble \union {<<p, i>>}
     /\ UNCHANGED <<run, phase, p, i, passed, results, books, plugins, broker,
                    asked>>

(* Mutant of TeardownCall: the handler is told to set the state up.        *)
MTeardownCall == phase = "teardown" /\ \E ok, applied \in BOOLEAN : Call(TRUE, ok, applied)

SetupCall    == phase = "setup" /\ \E ok, applied \in BOOLEAN : Call(TRUE, ok, applied)
TeardownCall == phase = "teardown" /\ \E ok, applied \in BOOLEAN : Call(FALSE, ok, applied)

(* The result of the present interaction, and on to the next one.          *)
Record(ok) ==
  /\ results' = results \union {[i |-> i, ok |-> ok]}
  /\ phase' = "interactions"

(* execute_provider_states(.., true).await? : after a failed setup neither *)
(* the request nor the teardown calls are made.                            *)
SetupDone ==
  /\ phase = "setup" /\ s = Len(CallsFor(Now))
  /\ IF failed THEN Record(FALSE) ELSE phase' = "verify" /\ UNCHANGED results
  /\ UNCHANGED <<run, place, failed, passed, books, plugins, active, broker,
                 history>>

(* The request to the provider, over HTTP or through a plugin.             *)
Verify(ok) ==
  /\ phase = "verify"
  /\ asked' = asked \union {<<p, i>>}
  /\ trouble' = IF ok THEN trouble ELSE trouble \union {<<p, i>>}
  /\ passed' = ok
  /\ IF config.teardown
     THEN phase' = "teardown" /\ s' = 0 /\ failed' = FALSE /\ UNCHANGED results
     ELSE Record(ok) /\ UNCHANGED <<s, failed>>
  /\ UNCHANGED <<run, p, i, books, plugins, active, broker>>

(* Mutant of TeardownDone: the result is that of the request.              *)
MTeardownDone ==
  /\ phase = "teardown" /\ s = Len(CallsFor(Now))
  /\ Record(passed)
  /\ UNCHANGED <<run, place, failed, passed, books, plugins, active, broker,
                 history>>

(* A failed teardown replaces whatever the result was.                     *)
TeardownDone ==
  /\ phase = "teardown" /\ s = Len(CallsFor(Now))
  /\ Record(passed /\ ~failed)
  /\ UNCHANGED <<run, place, failed, passed, books, plugins, active, broker,
                 history>>

-----------------------------------------------------------------------------
(* Mutant of Failures: pending interactions of a V4 pact are overlooked.   *)
MFailures(pact, rs, pending) ==
  {r.i : r \in {x \in rs : ~x.ok /\ (pact.source = "broker" /\ pact.pending) = pending}}

(* The failures among a pact's results that count, and those that do not.  *)
Failures(pact, rs, pending) ==
  {r.i : r \in {x \in rs : ~x.ok /\ IsPending(pact, x.i) = pending}}

Ids(is) == {<<p, j>> : j \in is}

EndPact ==
  /\ phase = "interactions" /\ Left = {}
  /\ reported' = reported \union {[id |-> <<p, r.i>>, ok |-> r.ok] : r \in results}
  /\ errors' = errors \union Ids(Failures(Pact, results, FALSE))
  /\ pendingErrors' = pendingErrors \union Ids(Failures(Pact, results, TRUE))
  /\ phase' = IF config.publish /\ Publishable THEN "branch" ELSE "notice"
  /\ UNCHANGED <<run, place, failed, passed, results, notices, outcome, plugins,
                 active, broker, history>>

(* provider_version.clone().unwrap() is evaluated before anything is sent. *)
PublishPanics ==
  /\ phase = "branch" /\ ~config.version
  /\ outcome' = "panic" /\ phase' = "done"
  /\ UNCHANGED <<run, place, failed, passed, results, reported, errors,
                 pendingErrors, notices, plugins, active, broker, history>>

(* Where publishing goes on after a request to the broker: the first one   *)
(* that fails ends it and is only logged.                                  *)
After(answer, next) ==
  CASE answer = "ok" -> next [] answer = "failed" -> "notice" [] OTHER -> "unanswered"

Answers == {"ok", "failed", "never"}

(* publish_verification_results: the provider branch, then one PUT per tag *)
(* in order, then the results.  A PUT or POST that fails or is not answered*)
(* may have been recorded.                                                 *)
PublishBranch(answer, applied) ==
  /\ phase = "branch" /\ config.version /\ (answer = "ok" => applied)
  /\ branch' = (branch \/ applied)
  /\ phase' = After(answer, "tags")
  /\ s' = 0
  /\ UNCHANGED <<run, p, i, failed, passed, results, books, plugins, active,
                 tags, posted, history>>

PublishTag(answer, applied) ==
  /\ phase = "tags" /\ s < Len(Tags) /\ (answer = "ok" => applied)
  /\ tags' = IF applied THEN tags \union {Tags[s + 1]} ELSE tags
  /\ phase' = After(answer, "tags")
  /\ s' = s + 1
  /\ UNCHANGED <<run, p, i, failed, passed, results, books, plugins, active,
                 branch, posted, history>>

(* Mutant of Verdict: the errors of all pacts so far are looked at.        *)
MVerdict == errors = {} /\ pendingErrors = {}

(* publish_to_broker: the verdict sent is that of this pact's results.     *)
Verdict == \A r \in results : r.ok

PublishResults(answer, applied) ==
  /\ phase = "tags" /\ s = Len(Tags) /\ (answer = "ok" => applied)
  /\ posted' = IF applied THEN posted \union {[p |-> p, ok |-> Verdict]} ELSE posted
  /\ phase' = After(answer, "notice")
  /\ UNCHANGED <<run, place, failed, passed, results, books, plugins, active,
                 branch, tags, history>>

Publish == \E answer \in Answers, applied \in BOOLEAN :
             \/ PublishBranch(answer, applied)
             \/ PublishTag(answer, applied)
             \/ PublishResults(answer, applied)

(* Mutant of NoticeSaysSuccess: pending failures do not count.             *)
MNoticeSaysSuccess == errors = {}

(* Which after_verification notices are shown depends on the errors of all *)
(* the pacts so far; without publishing the test is on "no pending errors".*)
NoticeSaysSuccess ==
  IF config.publish THEN errors = {} /\ pendingErrors = {}
                    ELSE errors = {} /\ pendingErrors # {}

Notice ==
  /\ phase = "notice"
  /\ notices' = IF Pact.source = "broker"
                THEN notices \union {[p |-> p, success |-> NoticeSaysSuccess,
                                     published |-> config.publish]}
                ELSE notices
  /\ phase' = "pacts"
  /\ UNCHANGED <<run, place, failed, passed, results, reported, errors,
                 pendingErrors, outcome, plugins, active, broker, history>>

(* All pacts are done: only errors that are not pending fail the run.      *)
Finish ==
  /\ phase = "pacts" /\ p = Len(Pacts)
  /\ outcome' = IF errors = {} THEN "passed" ELSE "failed"
  /\ plugins' = FALSE
  /\ phase' = "done"
  /\ UNCHANGED <<run, place, failed, passed, results, reported, errors,
                 pendingErrors, notices, active, broker, history>>

(* Fetching pacts from a broker or a URL before the first of them is taken,*)
(* and sending metrics after the last, wait for as long as it takes.       *)
ServiceSilent ==
  /\ phase = "pacts"
  /\ \/ p = 0 /\ \E f \in ToSet(fetched) : f.source # "file"
     \/ p = Len(Pacts)
  /\ phase' = "unanswered"
  /\ UNCHANGED <<run, place, failed, passed, results, books, plugins, active,
                 broker, history>>

(* So do loading a plugin and verifying an interaction through it.         *)
PluginSilent ==
  /\ phase \in {"plugins", "verify"} /\ Pact.plugin
  /\ phase' = "pluginSilent"
  /\ UNCHANGED <<run, place, failed, passed, results, books, plugins, active,
                 broker, history>>

Next ==
  \/ NextPact \/ LoadPlugins \/ LoadPluginsFails \/ BeginPact
  \/ NextInteraction \/ SetupCall \/ SetupDone
  \/ \E ok \in BOOLEAN : Verify(ok)
  \/ TeardownCall \/ TeardownDone
  \/ EndPact \/ PublishPanics \/ Publish \/ Notice \/ Finish
  \/ ServiceSilent \/ PluginSilent

Spec == Init /\ [][Next]_vars

(* An await returns, or it is one of those that may wait for ever, which   *)
(* have actions of their own: the run itself never pauses.                 *)
FairSpec == Spec /\ WF_vars(Next)

-----------------------------------------------------------------------------
Phases == {"pacts", "plugins", "pact", "interactions", "setup", "verify",
           "teardown", "branch", "tags", "notice", "done",
           "unanswered", "pluginSilent"}

(* Types; and while a pact is worked on, i is one of its interactions.     *)
TypeOK ==
  /\ config \in Configs /\ fetched \in Fetchable
  /\ phase \in Phases /\ p \in 0 .. Len(Pacts) /\ i \in Nat /\ s \in Nat
  /\ phase \in {"interactions", "setup", "verify", "teardown"} =>
       p > 0 /\ i \in 0 .. Len(Pact.interactions)
  /\ failed \in BOOLEAN /\ passed \in BOOLEAN /\ plugins \in BOOLEAN
  /\ results \subseteq [i : Nat, ok : BOOLEAN]
  /\ reported \subseteq [id : Nat \X Nat, ok : BOOLEAN]
  /\ errors \subseteq Nat \X Nat /\ pendingErrors \subseteq Nat \X Nat
  /\ notices \subseteq [p : Nat, success : BOOLEAN, published : BOOLEAN]
  /\ outcome \in {"none", "passed", "failed", "error", "panic"}
  /\ active \subseteq StateNames /\ branch \in BOOLEAN /\ tags \subseteq ToSet(Tags)
  /\ posted \subseteq [p : Nat, ok : BOOLEAN]
  /\ asked \subseteq Nat \X Nat /\ trouble \subseteq Nat \X Nat

(* An interaction of a pact has succeeded: the provider was asked, and     *)
(* neither the answer nor a call to the handler failed.                    *)
Succeeded(q, j) == <<q, j>> \in asked /\ <<q, j>> \notin trouble

Excused(q) == Pacts[q].load = "notFound" /\ ~config.noPactsIsError

Loaded == {q \in DOMAIN Pacts : Pacts[q].load = "ok"}

(* The verdict of the run (verify_provider_async's result): it passes      *)
(* exactly when every source yielded its pact and every selected           *)
(* interaction that is not pending was really put to the provider and      *)
(* succeeded, whatever failed in between and whatever publishing did.      *)
VerdictIsFaithful ==
  outcome \in {"passed", "failed"} =>
    (outcome = "passed" <=>
       \A q \in DOMAIN Pacts :
         IF q \in Loaded
         THEN \A j \in Chosen(Pacts[q]) : IsPending(Pacts[q], j) \/ Succeeded(q, j)
         ELSE Excused(q))

(* What the broker is told of a pact is what happened to that pact: a      *)
(* success only if every selected interaction, pending or not, succeeded,  *)
(* a failure only if one did not (publish_to_broker, per pact results).    *)
PublishedIsFaithful ==
  \A r \in posted : r.ok <=> \A j \in Chosen(Pacts[r.p]) : Succeeded(r.p, j)

(* Results are only ever recorded for a provider version that already has  *)
(* its branch and all of its tags (publish_verification_results).          *)
ResultsComeLast == posted # {} => branch /\ tags = ToSet(Tags)

(* A run that returns results has one for each selected interaction of     *)
(* each loaded pact, and it says what happened to that interaction         *)
(* (verification_result.interaction_results).                              *)
EverythingIsReported ==
  outcome \in {"passed", "failed"} =>
    reported = UNION {{[id |-> <<q, j>>, ok |-> Succeeded(q, j)] :
                          j \in Chosen(Pacts[q])} : q \in Loaded}

(* The results of a run are all there, each of them true, and reach the    *)
(* broker after what they are about.                                       *)
ResultsAreSound == TypeOK /\ EverythingIsReported /\ ResultsComeLast

(* When the provider is asked, all states of the interaction have been set *)
(* up; with teardown, and as long as no call has failed, no state of an    *)
(* earlier interaction is left (verify_interaction).                       *)
AskedInItsStates ==
  phase = "verify" =>
    /\ StatesOf(Now) \subseteq active
    /\ config.teardown /\ trouble = {} => active = StatesOf(Now)

(* With publishing on, a pact is announced as successful only if it was    *)
(* (after_verification:success_true_published_true).                       *)
NoticeNeverOverclaims ==
  \A n \in notices : n.published /\ n.success =>
    \A j \in Chosen(Pacts[n.p]) : Succeeded(n.p, j)

(* Every run ends, whatever its callees answer and wherever they fail; only*)
(* a broker, a metrics service or a plugin that never answers can keep it  *)
(* waiting, never the provider or its state change handler, whose client   *)
(* has a timeout (configure_http_client, HALClient::default).              *)
RunEnds == <>(phase \in {"done", "unanswered", "pluginSilent"})

(* The notice shown without publishing tells whether the pact succeeded    *)
(* (VERIFICATION_NOTICE_AFTER_.._RESULT_AND_NO_PUBLISH).                   *)
NoticeTellsResult ==
  \A n \in notices : ~n.published =>
    (n.success <=> \A j \in Chosen(Pacts[n.p]) : Succeeded(n.p, j))
=============================================================================
