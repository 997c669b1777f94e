---------------------------- MODULE FfiVerifier -----------------------------
(***************************************************************************)
(* The verifier handle of the C API (pact_ffi/src/verifier): what its      *)
(* setters make of their arguments, one verification run after another,    *)
(* and what is reported of them, together with the calls of FfiLog.        *)
(*                                                                         *)
(* A handle is a pointer without a lock, so one thread uses it at a time;  *)
(* a run is not one step, and other threads fetch logs while it goes on.   *)
(* What a run does is the subject of module Verifier: here it passes,      *)
(* fails, cannot be carried out, or panics.                                *)
(***************************************************************************)
EXTENDS FfiLog

CONSTANTS
  Handles,      \* pointers that pactffi_verifier_new may return
  Clients,      \* sets of the kinds of calls that a program makes
  MaxRuns,      \* bound on the runs
  MaxList       \* bound on the transports and on the sources of a handle

ASSUME FfiVerifierAssumption ==
  /\ "provider" \in Providers
  /\ {MaxRuns, MaxList} \subseteq Nat

VARIABLES
  client,       \* the kinds of calls that this program makes
  handle,       \* the VerifierHandle that a pointer points to
  running,      \* for each thread the run that it is executing, and its handle
  runs          \* history: number of runs

handleVars == <<client, handle, running, runs>>
vars == <<logVars, handleVars>>

-----------------------------------------------------------------------------
(* Handles.                                                                *)

\* VerifierHandle::new.  verdict and lines are those of verifier_output, the
\* lines by the run they are from; asked and ended are history.
NewHandle ==
  [name |-> "provider", transports |-> <<>>, sources |-> <<>>,
   filter |-> [description |-> "", state |-> "", hasState |-> FALSE], asked |-> <<"", "", FALSE>>,
   verdict |-> TRUE, lines |-> <<>>, ended |-> <<>>]

Free(t) == running[t] = None
InUse == {running[t].handle : t \in {u \in Threads : ~Free(u)}}
Idle(h) == handle[h] # None /\ h \notin InUse

Set(h, value) == handle' = [handle EXCEPT ![h] = value]

New(t, h) ==
  /\ handle[h] = None
  /\ Set(h, NewHandle)
  /\ Return(t, 1)
  /\ UNCHANGED <<loggerVars, textVars, client, running, runs>>

Shutdown(t, h) ==
  /\ Idle(h)
  /\ Set(h, None)
  /\ Return(t, 0)
  /\ UNCHANGED <<loggerVars, textVars, client, running, runs>>

\* A setter with arguments it can use.
Accept(t, h, value) ==
  /\ Idle(h)
  /\ Set(h, value)
  /\ Return(t, 0)
  /\ UNCHANGED <<loggerVars, textVars, client, running, runs>>

\* as_mut! of a null pointer, safe_str! of one or of text that is not UTF-8.
\* Functions that return nothing leave the status alone; 0 stands for that.
RefuseArgument(t, sentinel) ==
  /\ Refuse(t, sentinel, FALSE)
  /\ UNCHANGED <<loggerVars, textVars, handleVars>>

\* update_provider_info replaces the provider, its transports included.
ProviderInfo(value, name) ==
  [value EXCEPT !.name = name, !.transports = <<name>>]

SetProviderInfo(t, h, name) == Accept(t, h, ProviderInfo(handle[h], name))

\* add_transport; the transport remembers which provider it was added to.
AddTransport(t, h) ==
  /\ handle[h] # None /\ Len(handle[h].transports) < MaxList
  /\ Accept(t, h, [handle[h] EXCEPT !.transports = Append(@, handle[h].name)])

\* update_filter_info: a FilterInfo.  An empty text is no filter, and a state
\* filter with an empty text asks for interactions without a state.
FilterInfo(description, state, noState) ==
  [description |-> description, state |-> state, hasState |-> state # "" \/ noState]

SetFilterInfo(t, h, description, state, noState) ==
  Accept(t, h, [handle[h] EXCEPT !.filter = FilterInfo(description, state, noState),
                                 !.asked = <<description, state, noState>>])

\* Re::is_match, for patterns that are a name, or "any".
IsMatch(pattern, text) == pattern \in {"any", text}

\* FilterInfo::match_state and match_description.
MatchState(filter, states) ==
  IF states = {} THEN filter.hasState /\ filter.state = ""
  ELSE filter.state # "" /\ \E s \in states : IsMatch(filter.state, s)

\* filter_interaction
FilterInteraction(interaction, filter) ==
  /\ filter.description # "" => IsMatch(filter.description, interaction.description)
  /\ filter.hasState => MatchState(filter, interaction.states)

\* add_file_source, add_directory_source, add_url_source.
AddSource(t, h) ==
  /\ handle[h] # None /\ Len(handle[h].sources) < MaxList
  /\ Accept(t, h, [handle[h] EXCEPT !.sources = Append(@, [of |-> "any", selectors |-> 0])])

\* add_pact_broker_source takes the name that the provider has now.
Broker(value, selectors) == [of |-> value.name, selectors |-> selectors]

AddBrokerSource(t, h) ==
  /\ handle[h] # None /\ Len(handle[h].sources) < MaxList
  /\ Accept(t, h, [handle[h] EXCEPT !.sources = Append(@, Broker(handle[h], 0))])

\* pactffi_verifier_broker_source_with_selectors.  A selector that is not JSON
\* makes the call return -1, without an error message; JSON that is no selector
\* is dropped by json_to_selectors; tags count only where there is no selector.
Selectors(given, tags) ==
  IF given # <<>> THEN Len(SelectSeq(given, LAMBDA s : s = "selector")) ELSE tags

AddBrokerSourceWithSelectors(t, h, given, tags) ==
  /\ handle[h] # None /\ Len(handle[h].sources) < MaxList
  /\ IF "notJson" \in ToSet(given)
     THEN /\ Idle(h)
          /\ Return(t, -1)
          /\ UNCHANGED <<loggerVars, textVars, handleVars>>
     ELSE Accept(t, h, [handle[h] EXCEPT !.sources = Append(@, Broker(handle[h], Selectors(given, tags)))])

-----------------------------------------------------------------------------
(* Runs.                                                                   *)

\* pactffi_verifier_execute, up to the first text that is logged.
Execute(t, h) ==
  /\ Idle(h) /\ Free(t) /\ runs < MaxRuns
  /\ running' = [running EXCEPT ![t] = [handle |-> h, n |-> runs + 1]]
  /\ runs' = runs + 1
  /\ UNCHANGED <<logVars, client, handle>>

\* The LOG_ID of the run.
LogId(run) == handle[run.handle].name

RunLogs(t, level, bad) ==
  /\ ~Free(t)
  /\ Logged(buffer, LogId(running[t]), level, bad)
  /\ UNCHANGED <<delivered, lost, errorVars, loggerVars, status, handleVars>>

\* The run of thread t has ended so, and left the handle like this.
Ended(t, end, value) ==
  /\ Set(running[t].handle, [value EXCEPT !.ended = Append(@, [n |-> running[t].n, end |-> end])])
  /\ running' = [running EXCEPT ![t] = None]
  /\ UNCHANGED <<loggerVars, client, runs>>

\* Mutant of RunDone: output is added to that of the runs before.
MRunDone(t, end) ==
  /\ ~Free(t)
  /\ Ended(t, end, [handle[running[t].handle] EXCEPT !.verdict = (end = "passed"),
                                                      !.lines = Append(@, running[t].n)])
  /\ Return(t, IF end = "passed" THEN 0 ELSE 1)
  /\ UNCHANGED textVars

\* verifier_output = result
RunDone(t, end) ==
  /\ ~Free(t)
  /\ Ended(t, end, [handle[running[t].handle] EXCEPT !.verdict = (end = "passed"),
                                                      !.lines = <<running[t].n>>])
  /\ Return(t, IF end = "passed" THEN 0 ELSE 1)
  /\ UNCHANGED textVars

\* Err: one line is added to the output that was there before; error! is
\* outside the scope of LOG_ID.
RunImpossible(t) ==
  /\ ~Free(t)
  /\ Ended(t, "impossible", [handle[running[t].handle] EXCEPT !.lines = Append(@, running[t].n)])
  /\ Return(t, 2)
  /\ Logged(buffer, "global", 1, FALSE)
  /\ UNCHANGED <<delivered, lost>>

\* A panic, such as that of Regex::new(filter).unwrap(), makes ffi_fn return
\* EXIT_FAILURE.
RunPanics(t, bad) ==
  /\ ~Free(t)
  /\ Ended(t, "panicked", handle[running[t].handle])
  /\ Refuse(t, 1, bad)
  /\ UNCHANGED textVars

\* pactffi_verifier_json returns the verdict, pactffi_verifier_output the lines;
\* neither changes anything.  pactffi_verifier_logs asks for the text under the
\* name that the provider has now.
Logs(t, h) ==
  /\ Idle(h)
  /\ ExtractVerifierLogs(t, handle[h].name)
  /\ UNCHANGED handleVars

LogsForProvider(t, name) ==
  /\ ExtractVerifierLogs(t, name)
  /\ UNCHANGED handleVars
-----------------------------------------------------------------------------
Init ==
  /\ LogInit
  /\ client \in Clients
  /\ handle = [h \in Handles |-> None]
  /\ running = [t \in Threads |-> None]
  /\ runs = 0

Texts == {"", "a", "any"}

Setter(t, h) ==
  \/ \E name \in Providers : SetProviderInfo(t, h, name)
  \/ AddTransport(t, h)
  \/ \E description, state \in Texts, noState \in BOOLEAN :
       SetFilterInfo(t, h, description, state, noState)
  \/ AddSource(t, h)
  \/ AddBrokerSource(t, h)
  \/ \E given \in UNION {[1..k -> {"selector", "notSelector", "notJson"}] : k \in 0..2}, tags \in 0..1 :
       AddBrokerSourceWithSelectors(t, h, given, tags)

Run(t) ==
  \/ \E level \in Levels, bad \in BOOLEAN : RunLogs(t, level, bad)
  \/ \E end \in {"passed", "failed"} : RunDone(t, end)
  \/ RunImpossible(t)
  \/ \E bad \in BOOLEAN : RunPanics(t, bad)

\* The calls of a program that logs to buffers only, by one call or step by step.
LogToBuffer(t) == \E level \in SinkLevels : LogTo(t, "buffer", level)
SetUpBuffer(t) == LoggerApply(t) \/ \E level \in SinkLevels : AttachSink(t, "buffer", level)

\* A call of a thread that is not executing a run.
Call(t) ==
  \/ "errors" \in client /\ (ErrorCall(t) \/ \E s \in {0, 1, -2} : RefuseArgument(t, s)) /\ UNCHANGED handleVars
  \/ "logger" \in client /\ LoggerCall(t) /\ UNCHANGED handleVars
  \/ "buffer" \in client /\ LogToBuffer(t) /\ UNCHANGED handleVars
  \/ "buffers" \in client /\ SetUpBuffer(t) /\ UNCHANGED handleVars
  \/ "texts" \in client /\ TextCall(t) /\ UNCHANGED handleVars
  \/ \E h \in Handles :
       \/ client \cap {"setup", "runs"} # {} /\ (New(t, h) \/ Shutdown(t, h))
       \/ "setup" \in client /\ Setter(t, h)
       \/ "runs" \in client /\ (\/ Execute(t, h)
                                \/ Logs(t, h)
                                \/ \E name \in Providers : SetProviderInfo(t, h, name))
  \/ "runs" \in client /\ \E name \in Providers : LogsForProvider(t, name)

Next ==
  /\ alive
  /\ \/ \E t \in Threads : (Free(t) /\ Call(t)) \/ Run(t)
     \/ "logger" \in client /\ FileChanges /\ UNCHANGED handleVars

Spec == Init /\ [][Next]_vars

-----------------------------------------------------------------------------
(* Properties.                                                             *)

\* Types, and that the report of a handle is of its own runs.
TypeOK ==
  /\ \A t \in Threads :
       /\ lastError[t] # None => lastError[t].n \in 1..errors[t]
       /\ \A k \in DOMAIN logger[t] : logger[t][k].sink \in {"stdout", "buffer", "file"}
       /\ running[t] # None => handle[running[t].handle] # None
  /\ \A h \in Handles : handle[h] # None =>
       /\ handle[h].name \in Providers
       /\ \A k \in DOMAIN handle[h].lines : handle[h].lines[k] \in 1..runs
  /\ \A id \in Ids : ToSet(Numbers(buffer[id])) \subseteq 1..texts

\* The runs that could be carried out, the last of them or 0, and what of the
\* runs from then on has a line in the output.
Done(ended) == {k \in DOMAIN ended : ended[k].end \in {"passed", "failed"}}

LastDone(ended) ==
  CHOOSE k \in Done(ended) \cup {0} : \A j \in Done(ended) : j <= k

HasALine == [n : Nat, end : {"passed", "failed", "impossible"}]

Shown(ended) ==
  Within(SubSeq(ended, IF LastDone(ended) = 0 THEN 1 ELSE LastDone(ended), Len(ended)), HasALine)

\* The output has the lines of the last run that could be carried out, then a
\* line for each run since that could not, and none of an earlier run; a panic
\* leaves no line.  The verdict is claimed only while the last run to end was
\* carried out: one that could not be leaves the verdict of an earlier run, or
\* TRUE, and only its status tells (VerifierHandle::execute).
ReportsTheLastRun ==
  \A h \in Handles : handle[h] # None =>
    LET ended == handle[h].ended
        shown == Shown(ended)
    IN /\ handle[h].lines = [k \in DOMAIN shown |-> shown[k].n]
       /\ Len(ended) \in Done(ended) =>
            handle[h].verdict = (ended[Len(ended)].end = "passed")

\* A filter selects what was asked for: all of the conditions given, where a
\* state that is given counts for more than the wish for no state.
FilterSelectsAsAsked ==
  \A h \in Handles : handle[h] # None =>
    \A description \in {"a", "b"}, states \in SUBSET {"a", "b"} :
      LET asked == handle[h].asked IN
      FilterInteraction([description |-> description, states |-> states], handle[h].filter)
        <=> /\ asked[1] \in {"", "any", description}
            /\ asked[2] # "" => states # {} /\ (asked[2] = "any" \/ asked[2] \in states)
            /\ asked[2] = "" /\ asked[3] => states = {}

\* No transport of an earlier provider is left to a later one.  Transports that
\* were added before the provider info was set are dropped with it.
TransportsAreOfTheProvider ==
  \A h \in Handles : handle[h] # None =>
    \A k \in DOMAIN handle[h].transports : handle[h].transports[k] = handle[h].name

\* Nothing stale is left in a handle: neither lines of earlier runs, nor a
\* filter that differs from the last one asked for, nor transports of an earlier
\* provider.  A broker source is not claimed to follow the provider: it keeps
\* the name that the provider had when it was added.
HandlesAreConsistent == ReportsTheLastRun /\ FilterSelectsAsAsked /\ TransportsAreOfTheProvider

\* Logging never ends the process and loses no text but the known cases.
LoggingIsSafe == TypeOK /\ SurvivesItsLogger /\ LogTextIsKept
=============================================================================
