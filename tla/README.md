# Verification of the Pact reference implementation

TLA+ models of the core of this repository (the Rust workspace under `rust/`), checked with TLC and, where that is possible, proved with TLAPS.

Pact is contract testing. A *consumer* test describes interactions and runs against a mock server; what it described is
merged into a *pact file*. A *provider* is then verified against the pact files: every interaction is put to it in the
provider states that the interaction asks for, and the verdict is published to a *Pact Broker*.

## 1. Inventory

| Component | State it keeps | Operations | How it interacts | Hard behaviour | Correct when |
|---|---|---|---|---|---|
| Pact file (`pact_models/src/pact.rs`, `file_utils.rs`) | the file; `WRITE_LOCK`, a static mutex; advisory file locks | `write_pact`, `read_pact` | called by mock servers, FFI, consumer DSL; read by the verifier | several threads and several processes on one file; truncate, then write; bounded lock attempts | nothing that was reported written is lost; nobody reads a half-done write; every call returns |
| Pact merge (`v4/pact.rs`, `sync_pact.rs`, `message_pact.rs`, `sync_interaction.rs`) | none | `merge`, `conflicts_with`, `to_json` | called by `write_pact` | `merge_join_by` presumes sorted lists; the equality used depends on the left operand | each interaction is in the file once; rewriting changes nothing |
| FFI handles (`pact_ffi/src/mock_server/handles.rs`) | `PACT_HANDLES`: pact id to pact, behind a mutex | new, modify, free; pact, interaction and message handles | the C API; writes pact files; feeds mock servers | handles are plain numbers, kept after free; ids are reused; 16-bit indices; mock server has a copy | a call reaches the pact its handle was made for |
| FFI contents (`handles.rs`, `bodies.rs`) | the interaction of a handle | request line, status, query, headers, bodies, multipart files, metadata, states, comments | integration JSON; the result is matched, and written to the pact file | one value at a time, each with rules; a rule that is moved by a later call; a content type in three places | each rule is for the value it was given with; what is described is what is read back from the file |
| Models (`pact_models/src/v4`, `bodies.rs`, `provider_states.rs`) | none | to and from the JSON of a V4 pact | pact file, handles, verifier | bodies as JSON, text or base64, with a type that may be missing | what is read accepts what was written |
| FFI bodies (`pact_ffi/src/mock_server/bodies.rs`, `form_urlencoded.rs`) | none | integration JSON to an example and its rules | called by the handles; the result is used by matching | one matcher stands for values at many places; values that are dropped after their rules were added | what is accepted is what the document says |
| FFI mock servers (`pact_ffi/src/mock_server/mod.rs`) | the manager's running servers (crate `pact_mock_server`) | create, cleanup, matched, mismatches, write | takes a copy of a handle's pact | the copy is older than later edits | a call that looks whether the pact is served, and reports success, has changed one that is not |
| Verifier (`pact_verifier/src/lib.rs`) | results, errors, pending errors, notices of one run | `verify_provider_async` and its steps | provider, state change handler, plugins, broker | partial failure at every await; pending pacts; errors accumulate over pacts | the verdict, the report and what is published say what happened |
| Broker client (`pact_verifier/src/pact_broker.rs`) | path information of a HAL navigation | fetch, navigate, publish branch, tags, results | HTTP to the broker | several dependent requests, each may fail after its effect and is sent with retries | a pact is fetched or reported; results come after branch and tags; the payload says what happened |
| Retries (`pact_verifier/src/utils.rs`) | a fold over the attempts | `with_retries` | every state change and broker request | 50x answers, no answer, clone failure | only a 50x is repeated, at most *n* times; the last answer is returned |
| Matching (`pact_matching`) | none | compare request, response, message with expectation | verifier, mock server | rule selection, rules that cascade into nested documents, unordered collections, several kinds of bodies | a rule frees what it is for and nothing else; the result does not depend on the order of a map |
| Plan engine (`pact_matching/src/engine`) | a value stack while a plan is walked | build a plan of an expected request, walk it against an actual one, read its results | in place of the matching of requests if `MATCHING_ENGINE` is `v2` | a second implementation of the same rules; errors that are found by where they are in a tree | it accepts what the first engine accepts; the result says what the plan found |
| Rules, path expressions (`pact_models/src/matchingrules`, `path_exp.rs`) | none | parse, write, weigh, select; to and from the JSON of three versions | matching, FFI bodies, pact file | texts that are parsed again, weights, wildcards, maps without an order | a path leads to its value after any round trip; the most specific rule is used |
| Generators (`pact_models/src/generators`, `pact_matching/src/generators`) | none | generate a request, a response, a message, a document; to and from JSON | mock server, verifier, FFI | random values, values of provider states of any type, two ways to find a value by its path | only what a path leads to changes; what is generated is accepted where its example is |
| Dates, rule expressions (`pact_models`) | none | parse | generators, FFI | small parsers | see section 6 |
| FFI verifier handle, logging, last error (`pact_ffi/src/verifier`, `log`, `error`) | options and last output; thread-local logger; log buffers; thread-local error | set options, execute; init, attach, apply; fetch | C API, several threads | order of calls; one logger for a process that each thread sets up; failure leaves stale output | an error is told to its thread once; no text is told to another; what a handle holds is what its calls left in it |
| Consumer DSL (`pact_consumer`) | builder, guard of a running mock server | build, start, drop | mock server, `write_pact` | drop writes and panics | see section 6 |
| CLI (`pact_verifier_cli`) | none | parse options | verifier | none | see section 6 |

`PROJECT.json` lists every component with what is modelled of it, and every hazard with the line where it bites.

## 2. Modules

    PactContent   a pact as a partial function from interaction keys to bodies; Merge, MergeConflict
    PactStore     abstract: a store that changes by one whole write_pact at a time
    PactFile      detailed: write_pact and read_pact, one step per lock or file operation
      PactFileProofs   theorems about PactFile
      MCPactFile       instances
    PactMerge     the merge of the interaction lists themselves, repeated writes
      PactMergeProofs  theorems about PactMerge
      MCPactMerge      instances
    Sublists      the items of a list that are in a set
      SublistProofs    induction over numbers and lists, and what Within keeps
    FfiHandles    the registry of handles, and the mock servers started from it
      FfiHandlesProofs   theorems about FfiHandles
    Verifier      one verification run with its provider, state handler and broker
      VerifierProofs   theorems about Verifier
      MCVerifier       instances
    Retry         with_retries
      RetryProofs      theorems about Retry
    BrokerPublication  abstract: what has to be recorded before the results
    BrokerClient  detailed: fetching pacts and publishing results, one step per answer
      BrokerClientProofs   theorems about BrokerClient
      MCBroker         instances
    FfiLog        last error, loggers, log buffers
    FfiVerifier   extends FfiLog with the verifier handle
      FfiVerifierProofs   theorems about FfiLog and FfiVerifier together
    PathExpr          path expressions: parse, write, join, weigh
    MatchingRules     rules, selection, JSON of three versions          extends PathExpr
    RuleMatching      one text against rules; header and query values   extends MatchingRules
    JsonMatching      JSON documents                                    extends RuleMatching
    XmlMatching       XML documents                                     extends RuleMatching
    ContentTypes      content types                                     extends RuleMatching
    PartMatching      method, path, query, headers, status              extends JsonMatching
    BodyMatching      text, bytes, forms, multipart, choice of matcher  extends PartMatching, ContentTypes, XmlMatching
    InteractionMatching  requests, responses, messages                  extends BodyMatching
    IntegrationJson   integration JSON to examples and rules            extends JsonMatching
    FfiContents       what the calls on a handle describe               extends InteractionMatching, IntegrationJson
    PactJson          V4 interactions to the pact file and back          extends FfiContents
    PlanEngine        the interpreter of plans                          extends InteractionMatching
    RequestPlan       the plan of a request, and reading it             extends PlanEngine
    Generators        generated values, and where they go               extends FfiContents
      MCRules, MCJson, MCIntegration, MCInteractions, MCPlans   inputs and statements, each extending the one before
      MCGenerators     extends Generators and MCPlans
      MCContents       extends PactJson and MCGenerators

Operators whose names begin with `M` and whose comment says "Mutant of" are not part of a model. Each is a plausible
bug put in the place of the definition it names, which some property must then refute.

### PactFile, PactContent, PactStore
Actors are threads that call `write_pact`, each in some process, and readers that call `read_pact`. One action is the code
between two operations that others can see: taking `WRITE_LOCK`, `path.exists()`, an attempt at a lock, reading the text
and merging, `File::create` (which truncates), `set_len(0)`, `write_all`, and unlocking with the return. Lock attempts are
counted as the helpers count them, so giving up is part of the model, and so are a write that fails and a process that
dies at any point; both may leave a part of the text. `raced` remembers that a file was created by one writer in the middle of the update of another. The content is abstract: keys and bodies, with the V3 or V4 rule
for who wins. `path.exists()` and the open that follows are one step because nothing deletes the file.
`PactStore` is the promise: the store changes by a first write, a merge, an overwrite, or it breaks.
`storeBar` maps the file to it; while a writer is between truncation and write it stands for what the file held before.

### PactMerge
The three `merge` functions, applied by `write_pact` time after time. `MergeJoin` is itertools' `merge_join_by` as a walk
over two lists: `Advance` takes the smaller of the next two interactions, or `Both` where they are equal. `Serialised` is
the stable sort of `V4Pact::to_json`, which gives each interaction its `Place`. Strings are numbers, since only their
order matters. Every write is checked for conflicts first in the `http` format, as in `RequestResponsePact::merge`.
`Mergeable` is what the merge takes for granted of what it is given. `ContentOf` turns a list into a content of
`PactContent`, and `Store(f)` maps the module to `PactStore`, so that what a write does to a list of interactions is what
`PactFile` supposes of one write.

### FfiHandles
Each entry point holds `PACT_HANDLES` for its whole run and is one action. `issued` remembers every handle that was
given out, also after its pact was freed, and any of them may be used at any time. The numbers are the code's: id in the
high half, index in the low half, with modulus `Modulus` in place of 2^16. The modifying calls come in the kinds
that differ in control: those that modify first and report after (`Edit`, `UponReceiving`, `EditPact`), the same for HTTP
only (`HttpEdit`, which refuses other kinds), those that look first (`GuardedEdit`), those that never look (`UncheckedEdit`,
`AddMessagePactMetadata`), and those of messages (`MessageEdit`), which do nothing to an interaction of another kind. What they set is a revision number.

### Verifier
`verify_provider_async` from the fetched pacts to the verdict. The environment chooses what the sources yield and what
every call answers; a call that answers "failed" may have had its effect. Interactions, provider states and tags are taken in order.
A filter is the set of interactions it selects, a match is a Boolean. Everything after an early return is as in the code: a failed setup
skips request and teardown, a plugin that can't be loaded ends the run,
the first failing publish request ends publishing, and publishing without a provider version panics (`PublishPanics`). A broker, a metrics service and a plugin may never answer (`ServiceSilent`, `PluginSilent`, `After`).

### Retry
One step of the fold in `with_retries` per step, with the four kinds of answers the code tells apart; a client without a `timeout` may wait for ever (`NeverAnswered`).

### BrokerClient, BrokerPublication
`HALClient` and the three chains of requests that the verifier makes with it: the latest pacts, the pacts for
verification, publishing. One action is an answer together with all the code that runs until the next request, with the retries of `with_retries` in
it. The broker holds nothing: it answers any document in `Documents`, any list in `Lists`, an error or a 50x, and a
request that has no good answer, or none ever, may have been carried out. `recorded` is what the broker has recorded, a fact of the
environment that no code reads; it is what the properties are about. Tags are told apart by their place in the list, so a job has their number only.
`told` is the answers to the requests for pacts, each with the place of its link. `BrokerPublication` is the promise of
`publish_verification_results`: everything in `before` is recorded before the results, and success is answered only if all was.
The model shows that `POST` is retried as well, so results may be recorded twice, after a 50x only (`PostedTwiceOnlyAfter50x`).

### FfiLog, FfiVerifier
A call is one action, of any thread. `FfiLog` has the error of each thread, the logger that a thread fills (`log_init`, `attach`, `apply`),
the one subscriber of the process, the sinks' files and the buffers with their names. A text is a number in the order of
writing. `FfiVerifier` adds handles: setters, a run in two steps so that other threads come between, results, free. The verification itself is any of: passed, failed, could not be carried out, panic.
A behaviour belongs to one client program, which makes the kinds of calls in one member of `Clients`; that splits the run into parts that don't multiply.

### The matching modules
Pure functions, written as the code is: one operator per Rust function, a result as the set of mismatches. A text is a sequence of
characters or words, of which a few stand for the classes that the code tells apart. A pattern (a regular expression, a date format,
a version range) is the set of texts it accepts. A `HashMap` is a sequence in some order, and every order is tried where it could matter.
The bytes of a body are their readings as text, JSON, XML, a form and parts, since the parsers are crates, and a reading may be "garbage".
A panic is a result of its own. `MCRules` has the state machine: a behaviour picks a kind of question (`kind`), then an
input (`Ask...`), then answers (`Answer`). Every property is a statement about every answered question.

### FfiContents, PactJson
`FfiContents` has one operator for each call that says something about an interaction: it takes the request, the response, the message or the
record of states, comments, key and mark as it is, and what the call is given, and returns it changed. Whether a handle leads to an interaction
and may change it is `FfiHandles`. A given value is a text, a matcher, or an object with the attribute `value`.
`PactJson` has `to_json` and `from_json` of the V4 models; a record stands for the JSON object. `MCContents` lets a behaviour pick the values of one header or parameter, or up to two calls (three about states
and comments), with a new request, response or message before them.

### PlanEngine, RequestPlan
`PlanEngine` is `walk_tree`: a plan is a tree of nodes `[type, arg, children, result]`, `Walk` gives it back with a result in every node it came by, and
there is one operator for each action, or for each group of actions that only differ in a condition. The interpreter's stack is
the parameter `top`. An error's text is kept only as far as it is read (empty or not). `RequestPlan` has the builders
of `engine/mod.rs` and `engine/bodies.rs`, node for node, and the conversion of a walked plan into a result in `lib.rs`. `match_request` always forbids unexpected
entries, so the nodes that allow them are left out.
`MCPlans` puts both engines side by side: the inputs of `MCJson` and `MCInteractions` are given to both.

### Generators
A generator yields the set of all values that may come out: a number of a range is every number of it, a decimal every sequence of the
digits 0 and 1, a pattern the texts that it may make; an empty set is an error, and a panic is a value of its own. What is generated is therefore a
set of requests, responses, messages or documents. A category is a sequence of generators, since a `HashMap` is gone through in
some order. A text for an expression is a sequence of names, `${` and `}`. How a date is made of its format and expression is one text of its kind.
`MCGenerators` applies generators to documents, requests, responses, forms and messages, puts the results through `MatchRequest`, and writes and reads the generators themselves.

## 3. Runs

| Run | Instance | Shows |
|---|---|---|
| `PactFileOneProcess` | 3 writers of 1 process (one overwrites, two conflict), 1 reader, V3 merge, no file at first, 3 attempts, 1 fault | types and the inductive invariant (`WriterInv`), nothing lost and no file left empty unless a writer gave up (`KeepsTheFile`), refinement of `PactStore` |
| `PactFileTwoProcesses` | 2 writers of 2 processes, 1 reader, V4 merge, no file at first, 1 fault, fair | lock discipline across processes, a half-done write is read only where the file was created (`TornOnlyByCreate`), every write returns |
| `PactFileLostUpdate` | 2 writers of 2 processes, 1 reader, no faults | **violated**: two processes lose an update |
| `PactMerge` | per format every sequence of 3 writes from 10 to 39 pacts | the file keeps everything, nothing twice, sorted (`FileIsSound`), rewriting is idempotent, who wins |
| `PactMergeDuplicates` | a V4 pact that is out of order, 3 writes | **violated**: the pact is doubled |
| `FfiHandles` | 2 ids, modulus 4, 2 interactions per pact, 4 objects made in all, 1 port | handles resolve (`HandlesAreSound`), no foreign write, no successful call that looks at the flag has changed a served pact (`CheckedEditsAreServed`) |
| `Verifier` | 1 or 2 of 10 pacts (sources, pending, plugin, filtered, nothing selected, missing), 2 tags, each option with and without, fair | everything is reported and results come last (`ResultsAreSound`), verdict, publication, states, notices, end of the run |
| `VerifierNoticeNoPublish` | 1 pact of 2 interactions | **violated**: the notice is inverted without publishing |
| `Retry` | 0 to 6 retries, every answer or none, with and without a timeout, fair | the fold (`RetryInv`), what is retried, how often, what is returned (`WithinItsRetries`), that it returns |
| `Broker` | 3 retries; lists of up to 3 links of 2 to 3 kinds; up to 3 results of 3 ids; up to 2 tags; each link good, without href, relative, malformed or without a URL; fair | a pact is fetched or reported, double posting, payload, refinement of `BrokerPublication`, that every call returns unless a request is never answered |
| `FfiReporting` | 2 threads, 1 handle, 2 runs, 2 errors, 2 texts, 2 sinks, 5 client programs | errors, logger and buffers, handles |
| `Matching` | all inputs of 36 kinds, below | the eight statements on matching, each a conjunction |

The properties of `Matching` gather statements that are about one hazard; each conjunct has its own comment, beside the
inputs it is about:
`PathsMeetTheirValues` (`TextsReadBack`, `PathsReadBack`, `KeysAreWrittenApart`, `KeysMeetTheirRules`, `PointersAreDistinct`, `GeneratorsMeetTheirValues`);
`BestRulesAreSelected` (`SpecificWins`, `SelectionIgnoresOrder`, `DefinedMeansSelected`);
`SavedRulesSurvive` (`RulesReadBack`, `NamesMakeTheRule`, `V3ReadsBack`, `V2ReadsBack`, `FileTellsThePart`, `FileTellsTheMessage`, `FileTellsTheResponses`, `FileTellsTheRest`, `OneTypeForABody`, `GeneratorsReadBack`, `NamesMakeTheGenerator`);
`PlainMeansTheSame` (`PlainMeansContained`, `PlainHeadersAreThere`, `PlainQueryIsTheSame`, `PlainXmlIsTheSame`, `ReplayMatches`, `EnginesAgreeOnExamples`);
`RulesDoWhatTheySay` (`TypeReachesDown`, `BoundsDoNotCascade`, `AndMeansBoth`, `ExamplesMatchThemselves`, `OneClassOfStatus`, `FileRulesReachTheFile`, `MessagesHaveTheirMetadata`, `DocumentsMeanWhatTheySay`, `FormsMatchThemselves`, `RuleMeansItsIndex`, `DescribedIsAccepted`, `EnginesAgreeOnRules`, `PlanAcceptsItsDocument`, `OnlyReachedChanges`, `OnePairIsGenerated`, `GeneratedIsAccepted`, `GeneratedRequestIsAccepted`, `DecimalsAreNumbers`);
`StricterAcceptsLess` (`StrictImpliesLoose`, `XmlStrictImpliesLoose`, `RequestsAreStricter`, `ExtraKeysAreHarmless`);
`ResultsTellTheMismatches` (`MismatchesPointAtValues`, `BestScoreMeansMatch`, `PlanTellsItsVerdict`);
`OrderAndCaseDoNotMatter` (`HeaderNamesIgnoreCase`, `ParametersAreDemands`, `NamedPartsInAnyOrder`, `ContainsIgnoresOrder`, `ValuesIgnoreKeys`, `ResponsesMatchOneByOne`, `PlainValuesInAnyOrder`, `CallsCommute`, `EveryPartIsFound`, `OneHeaderForAName`, `GeneratorsInAnyOrder`, `ProvidedAlike`, `StatusIsTheNumber`, `ResponsesAlike`, `MessagesAlike`).

Why the bounds are enough. In `PactFile` three writers show a first write, a merge and an overwrite in every order; the
proofs hold for any number. A conflict, a lost lock and an overwrite all occur; with two processes the file is absent at first, so that two of them may create it at once. In `PactMerge` three
writes are a first write, a merge, and a rewrite or a merge into a merged file. In `FfiHandles` four objects allow a pact, an interaction, freeing, a
second pact with the same id and an interaction in it; the modulus is larger than an index, as 2^16 is in practice. In `Verifier` two pacts show
everything that is carried from one pact to the next, and two interactions everything that is carried from one interaction to the next.
In `Broker` three links show one that fails before and one that fails after a good one, three results two with one id that are apart; the chains of requests are of fixed length otherwise.
In `FfiReporting` two threads are enough, since a call only touches its own thread or one shared thing; a second run and a second text show what is left over from the first.
In `Matching` paths have up to 4 characters or 2 tokens, documents depth 2 with up to 2 members or items, lists up to 2 values: a cascade, a wildcard and a parent
take two levels, and order takes two members. Rules are every kind with its boundary values, alone and in pairs. A header or parameter has up to three values, so that one can be
before and one after a value with a rule; two generators show whether one disturbs the other; a second call shows what a call makes of what the one before it left.

Deadlock is checked in the two `PactFile` runs that pass and where a cfg does not say otherwise; it is off where a system may stop: a verification run
that is done, a request that was answered, and models whose bounds are used up.

Fairness. In `PactFile` a thread inside `write_pact` or `read_pact` keeps being scheduled; nobody has to call either, and no lock
is assumed to be granted, since attempts are bounded. The verifier's client for the provider and its state change handler has
a timeout (`lib.rs:694`), so these awaits return. The broker's client has none (`HALClient::default`, `pact_broker.rs:549`), and neither
have the client that sends metrics and the calls of plugins: there, an action that waits for ever competes with the answer, fairness only says that one of them is taken, and the
liveness properties name the outcome (`RunEnds`, `CallReturns`, `Returns`).

## 4. Divergences found

The violated runs above are real disagreements between code and documentation, each quoted under `findings` in
`PROJECT.json`. Others are visible in the models without a run of their own.

Pacts and handles
- Two processes that find no file both call `File::create`, which truncates before the lock is taken: a reader can meet an empty file, or, after the two have written over each other, a torn one (`TornOnlyByCreate`, `raced`).
- `set_key`, `set_pending`, the comments, `with_matching_rules` report success when a mock server already serves an older copy of the pact (`UncheckedEdit`), and the message functions change it without a word (`MessageEdit`), where the calls beside them return false.
- `walkdir` drops what it finds in subdirectories although a directory source is "all the pacts from a Directory" (`Kept`).
- A V3 merge drops a provider state that only one side has (`sync_pact.rs:306`); a merge does not sort pacts that are out of order (`PactMerge`, whose run takes ordered inputs).
- The V4 merge compares two interactions with keys by key only (`v4/pact.rs`), but the file is in order of description (`CompareV4`, `Serialised`): keys whose order is another one (`pactffi_set_key`) make a file that the next merge finds out of order. States are compared only if the interaction of the pact that is written has some: one without states is equal to any of its description, and one of the two is dropped. The documentation asks that a description be unique in a pact file (`synch_http.rs:35`), which nothing enforces. `Mergeable` leaves both cases out.
- `pactffi_given` modifies and then returns false (`handles.rs:566`, documentation at 558); an interaction handle with index 0 panics and poisons the mutex (`handles.rs:295`, documentation at 281); the 65536th message of a pact gets the handle of another pact (`NewRefV4`).

Verifier and broker
- After a setup that failed part of the way there is no teardown (`SetupDone`); the notice for published results is shown when publishing failed (`Notice`); `with_retries` panics for zero retries, which the documentation allows (`PanicsOnlyForZero`).
- Publishing without a provider version panics after the run (`lib.rs:1632`, `PublishPanics`). The broker's client has no timeout, so a broker that never answers holds up the run (`ServiceSilent`, `NeverAnswered`). A pact none of whose interactions is selected is published as a success.
- An interaction whose results are not next to each other gets an entry for each run of neighbours, so it can be told as failed and as passed at once (`PayloadTellsTheResults` states it).
- A value in a list of pacts for verification that is no selector is dropped without a word; a broker source copies the provider's name when it is added, so a name that is set later does not reach it; `set_provider_info` drops transports that were added before; after a run that could not be carried out the handle still has the verdict of the run before, or TRUE if there was none, and only the status of `execute` tells (`HandlesAreConsistent` claims no verdict there); logs are kept by the provider's name at the time of the run and looked up by its name at the time of the fetch (`FfiVerifier`).
- Attaching a sink after `apply` does not fail although `log/ffi.rs:160` says so; `apply` unwraps the opening of a file that `attach` could open; a last error is taken before it is known to fit (`error/ffi.rs:62`); a fetched log with a NUL byte or an id that is not UTF-8 is lost or another one's (`FfiLog`).

Matching
- A key with a quote or a backslash is escaped when it is written into a path, and the escape is not undone when the path is read, so that its rule is lost on the way through a file (`Ordinary`; that such keys are not written alike is `KeysAreWrittenApart`); the empty key cannot be read back (`Keys` leaves it out); an index that is numeric but no ASCII digit panics (`OddNumeric`); `007` and `+5` are joined as indices.
- Which of two rules of equal weight is used depends on the order of a `HashMap`. In JSON an unknown category becomes `body`, a header named `matchers` is misread, V2 replaces every `$` of a body path and keeps the first rule only; `create(name, values)` fails for `min-max-type` and `array-contains`; a V3 header or query rule is written under its first field only, so rules of two indices of one header collapse.
- `compare_maps` ignores OR; an empty expected list under a rule accepts anything; `array-contains` and `each-value` replace the rules of the context; two header rules that differ in case only collapse.
- A mismatch of bytes panics for bodies under ten bytes, since `split_at(10)` words it (`matchers.rs:738`, `ShownSafely`); the score of a request is an `i8`; a multipart message panics; `is_equivalent_to` ignores the suffix; the responses to a synchronous message are ignored if none is expected; parts of a multipart body beyond the expected ones are ignored.
- Rules in the category `contents` of a message are never used (`MatchContentsAndMetadata`).
- A form in integration JSON: a null at key `a` also removes the rules of `ab`, since paths are compared as substrings (`ProcessForm`). A form body that is taken for JSON and does not parse, such as `1=a`, panics (`form_urlencoded.rs:19`); the model has parsed documents only.

Contents of interactions
- `pactffi_with_body` adds a second header `Content-Type` beside one that is written `content-type`, and a second body with another type leaves the header of the first (`OneTypeForABody` is about one body). A type that cannot be parsed panics (`handles.rs:1841`) although the documentation promises a default, a null pointer is an empty body and not a null one, and the metadata of a message are no hint, although the documentation names them (1797-1800).
- `pactffi_with_binary_body` documents that the type is ignored if the header is set; the body gets it all the same. `pactffi_with_binary_file` gives the body no type: a response or an asynchronous message with such a body is written with the type `*/*`, and what is read back then accepts any type (`FileTellsThePart` is about typed bodies).
- The rule of the first value of a header or parameter is for all its values, although the documentation says so of lists only; if a later value is given before the first, `$.a` is not moved, and the rules of a value that is given again stay (`RuleMeansItsIndex`). A matcher for the second value by the first version of `with_header` is for all the values.
- A body that is JSON null or an empty text is read back as no body, and a comment that is null or empty is not written (`IsKeptBody`, `FileTellsTheRest`).
- A key of metadata is parsed as a path expression (`WithMetadata`); a header `content-type` without any value panics (`v4/mod.rs:67`); `given_with_params` adds a state of the same name where `given_with_param` extends it.

Generators
- A header is looked for in the case of its generator and becomes a single value: one in another case is added, and a header that is to have no value gets one. A parameter that is absent is added, and the request then has one that nobody expects (`GeneratedRequestIsAccepted`).
- The pointer that leads to a value is made of keys without an escape: a key with a `/` leads elsewhere (`OnlyReachedChanges`). A star does not lead into a list, nor a star index into an object, although matching lets it (`GeneratorsMeetTheirValues`).
- A range whose end is before its start panics; its end is never drawn if it is the largest `i32`, and for a status the ends are cut to 16 bits, so that 65535 is never drawn; a number that is too large for a status becomes another one (`StatusIsTheNumber`). More than 16 hexadecimal digits are not generated, as they are drawn without replacement. A pattern with `^` and without `$` keeps the `^`.
- A value of a provider state that cannot be converted is an error for a body and a panic for a header, and so is a `}` before the first `${` (`ProvidedAlike`, `Pieces`). `MockServerURL` looks for `href` in a body only. The format of an identifier is only used where the example is a text.
- The body of a JSON document is written anew, as `application/json`, if it has any generators, even when none is for the mode. The generators of an array are applied in every mode, but in V4 messages never, and they are not written to a file (`MessagesAlike`, `GeneratorsReadBack`). `values()` names two attributes that `from_map` calls otherwise (`NamesMakeTheGenerator`). Generators of a method are read and never applied; in V4 messages that are asynchronous a generated content type is not that of the body.

The second engine, where it does not do what the first one does. `EnginesAgreeOnExamples` and `EnginesAgreeOnRules` hold for the requests that these leave, and their conditions name them.
- A body of another content type is accepted. The message of that mismatch is made by an `error` action, whose result is an error and so no text: the check at `lib.rs:1476` for "body type error" never holds, and what is read is a list of no mismatches (`PlanTellsItsVerdict` is about bodies of one type only). Content types are compared by their text.
- One expected value of a header or parameter is met by any number of equal values, also by none; values are not trimmed; of several values of a header with parameters only the first is compared. Rules for an index are not used, and a rule for a header is looked up with the case of the expected header.
- JSON: an `if` of an item with rules has an annotation as its second child, so those rules are never evaluated; items of a list without rules that are lists or objects are built and never added (`bodies.rs:159`); a size is also checked of inner lists.
- An OR of rules fails with its first alternative, since an error ends the evaluation of arguments; a `min-max-type` rule is an error.
- XML: elements with a namespace are never found; attributes where none are expected are accepted; `not-empty` asks for no children (`xml.rs:163`); `ends_with` compares texts, so the path of an element can be taken for one of another name that ends like it (`bodies.rs:305`).
- Rules for a body that is neither JSON nor XML are not used; forms and multipart bodies are compared as text. Keys with a `/` or `~` are not escaped in a pointer (`Pointed` leaves them out).

Hazards that no property reaches, because what they need is outside the models: a panic under `WRITE_LOCK` makes every later write of the process panic (`pact.rs:225`); plugin data grows with every merge (`v4/pact.rs:98`); `PactHandle::new` loops for ever when all 65536 ids are in use (`handles.rs:219`); files are written while `PACT_HANDLES` is locked (`handles.rs:3038`); `pactffi_message_reify` blocks on the runtime under the lock (`handles.rs:2989`); a filter that is no regular expression panics (`lib.rs:859`); a plugin whose details are all errors publishes none (`pact_broker.rs:937`); the back-off overflows for many retries (`utils.rs:36`).

## 5. Proofs

Assumptions are those named in the modules that declare the constants; TLC evaluates each on every run.

**PactFileProofs** holds for any writers, readers, processes, pacts and numbers of attempts and faults.
`TypeCorrect` is the type invariant. `LockInv` (`LocksAreHeld`) is inductive with it: a thread holds `WRITE_LOCK` of its process exactly in its critical section, and a file lock
exactly between taking and releasing it. It needs no assumption about processes.
Nothing-lost is not inductive: a writer between its read and its write must know that the file has not changed since. `UpdateInv` says, for each program point, what the
writer is about to write in terms of what the file holds or held; `FileInv` says that what was committed is in
the file or in what is about to be written. Their conjunction `WriterInv` is inductive
under `SingleProcess`, because two writers of one process are never both critical (`OneProcessCorrect`). From it follow `NothingIsLost` (`KeepsTheFile`)
and `OneProcessRefinesStore`: initial states map to initial states, and each step to a step of `PactStore` or a stutter, action by action.
For any number of processes `TextInv` says why a text is not a pact: a crash or a failed write, a writer between truncation and write, or two writers that created the
file in the middle of each other's update (`TextsExplained`). With the locks it gives `TornOnlyByCreation` (`TornOnlyByCreate`); that the last case cannot come within one process is `OneProcessNeverRaces`.
The run `PactFileLostUpdate` shows that `SingleProcess` cannot be dropped.

**PactMergeProofs** holds for any number of writes of any lists of interactions in any of the three formats, under `InputsMergeable`: each list is in order, no interaction has a key, and of the
interactions with one description all have states or none has. The hypothesis is in each theorem because the code does not ensure it (section 4); it is an `ASSUME` of the instances, where TLC
evaluates it, and the run `PactMergeDuplicates` shows that the order cannot be dropped. The argument has four parts, each for every list.
The order of lists of state names, and with it that of interactions (`Before`), is strict, total and transitive, and under the hypothesis the closure of `merge_join_by` is that order (`CompareIsOrder`).
The walk has an invariant (`Joined`): what is out is in order and is what the rule keeps of the items taken so far, and each item taken comes before all that are left on the other side (`Level`);
it ends with both lists taken (`MergeJoinIsMerge`).
A list in order of the comparison is left alone by the stable sort of descriptions (`SerialisedKeeps`). And a list in order is determined by the set of its items (`AscendingUnique`).
`MergeInv` is then inductive: the file is in order, has all that was written, and still has the pact of the last write as that write left it. From it follow `FileSound` (`FileIsSound`: nothing lost, nothing twice, sorted),
`RewriteChangesNothing` (`RewriteIsIdempotent`) and `RightOneWins` (`WhoWins`). `MergeImplementsStore` proves that each format refines `PactStore`: the first write is the first write of a content,
a later one is the merge of two contents with the V4 or the V3 rule, a conflict changes nothing. With `OneProcessRefinesStore` the abstract store so has a refinement on both sides: the locks give
one whole merge at a time, and the walk over the lists is that merge. `MergeInv` and the refinement are proved but are not properties of a run.

**RetryProofs** holds for any bound on the retries: `FoldCorrect` proves `RetryInv`, which says where the fold is and what it has seen, and `RetriesAreBounded` the rest from it (`WithinItsRetries`).

**SublistProofs** has what the other proofs need about lists. The prover cannot take the library's induction theorems, which are about operators; here induction
over the naturals is a fact about sets, got from the well-foundedness of `<` (`LeastNatural`, `InductionOverNat`), and induction over lists (`InductionOverLists`) from it. With these
it is proved for every list what `Within` (`Iterator::filter`) keeps: which items are in the result, that it is a list of them, and how it goes with `Append`, with `\o` and with itself.

**VerifierProofs** holds for any pacts, options, tags and answers. That the broker is told the truth about a pact is not inductive: it depends on `results`, a local that every pact
starts anew, on `errors` and `pending_errors`, which run on over all pacts, and on flags that live as long as one interaction. `BooksInv` says what each of these is in
terms of what happened (`asked`, `trouble`): `NothingAhead` (nothing has happened beyond the present place), `FlagsAreTrue`, `ResultsAreTrue` for the present pact,
`ReportsAreTrue` and `ErrorsAreTrue` for the pacts that are done with, `TellsOfThePast` for what was sent and shown. `BooksAreTrue` proves it, one part at a time over the actions.
From it follow `PublishedFaithfully` (`PublishedIsFaithful`), `NoticesNeverOverclaim` (`NoticeNeverOverclaims`), with `TagsInOrder` `ResultsSound` (`ResultsAreSound`), and with `OutcomeIsTrue`
`VerdictFaithful` (`VerdictIsFaithful`). `AskedInStates` (`AskedInItsStates`) has an invariant of its own, `StatesAreSet`: which calls for states are behind the present one, and what the provider is in.

**BrokerClientProofs** holds for any jobs, documents, lists of links and number of retries. `BrokerInv` has five parts. `Control` says which requests are possible in which call and what is
left to do at each. `Accounts` says that the entries made and the links left are together the list that the broker gave, and that each entry was made from the answer to its own link;
`AskedLate` that before that no pact was asked for (`PactsAccountedFor`). `Counts` says that what is sent later has not been recorded, and that what is under way has been recorded at most once
per attempt (`PostedTwice`); `InOrder` that control passes the branch and each tag only when it was recorded.
`PublishesAsPromised` proves the refinement of `BrokerPublication` from `Counts` and `InOrder`: each answer maps to the step that records its item, to the return, or to a stutter, and that an item is
never recorded after the results is what `InOrder` is for. `PayloadFaithful` needs no step: the payload is a function of the results, and for every list of them it is proved that each failure has its entry, that an interaction whose
results stand together has one entry and the right one (`OneChunk`), and that a success is only told where a run of neighbours had no failure.

**FfiHandlesProofs** holds for any ids, modulus and bounds with `MaxInteractions < Modulus`. The hypothesis is in the statement of each theorem because the code does not
ensure it: it counts no interactions, and an index has 16 bits. Without it the theorems are false, as the index runs into the id: the 65536th message of a pact gets a handle of another pact (section 4).
With it, `Numbers` shows that both halves of a handle can be got back. `RegistryInv` adds what a number cannot tell: which birth a handle was given out for, that births differ, so that
a handle kept after its pact was freed and its id given to another is known as old, and that a pact a mock server has a copy of is marked as started. From it follow `HandlesSound` (`HandlesAreSound`) and the action properties
`WritesNoForeignPact` (`NoForeignWrite`) and `CheckedEditsServed` (`CheckedEditsAreServed`).

**FfiVerifierProofs** holds for any threads, handles, providers, sinks and bounds. `ReportingInv` has a part for each piece of state that a call can touch, and `StepsAre` says which a step does. `ErrorsInOrder` (`ErrorsOf` each thread): the
error a thread has not been told yet is its own and later than all it was told (`ErrorsToldOnce`). `LoggerInOrder`: a file that a thread's logger has could be opened, unless it vanished since.
`TextsInOrder`: a text is in one buffer, and what was fetched followed by what is still held is what was written, less what a fetch could not hand over; it is an equation about `Within`, and the reason for its lemmas (`LoggingSafe`).
`HandlesInOrder`: what a handle holds is what its calls left in it, and its verdict is that of its last run if that could be carried out (`HandlesConsistent`). A run takes two steps, so it also says that no other thread runs or frees the handle meanwhile.

Only model-checked. Liveness (`EveryWriteReturns`, `RunEnds`, `Returns`, `CallReturns`), which the prover does not do under fairness. The matching modules, the
plan engine and generators, whose operators are recursive over documents and trees: what such a definition gives for every input is out of the prover's reach.

## 6. Not modelled, and why

- HTTP itself, plugins and the mock server (crates that are not in the repository); parsers of JSON, XML, forms and MIME (crates); output and logging text. Back-off times are left out, since only the number of attempts decides.
- Date and time expressions: calendar arithmetic of the `chrono` crate. Of generators: the texts of dates and patterns, those of plugins, and keys with a `~`.
- The definition expressions of matching rules (`expressions.rs`): a parser over the tokens of a lexer crate, whose result for a text is what its tests list.
- Of the plan engine: pipelines, stack actions and the tag name of XML, which no plan of a request has, and how a plan is printed. Only requests have plans.
- Message providers of the verifier: one request and one comparison each; the `Verifier` has them as its `Verify` step, and the comparison is `InteractionMatching`.
- The consumer DSL: builders without control, and a guard whose drop is one `write_pact`; the command line: options for one call of the verifier.
- The XML builder of integration JSON; iterators and accessors of the C API over owned pointers.

## 7. Plan

Of the proofs two are left. `PactFile` over processes: a code that opens without truncating and reads under the exclusive lock
would need no `SingleProcess`, which replacing two actions would prove. That the properties of `Retry` carry over to each request of `BrokerClient`, by a refinement of one request. The matching modules stay with TLC.

Then the definition expressions of matching rules, and the guard of the consumer's mock server as a composition with `PactFile`.
